--------------------------- MODULE SemStoreProofs ---------------------------
(***************************************************************************)
(* Proofs of the invariants of the semaphore store, for all constants and  *)
(* any calls.  Only semget and IPC_RMID change which sets there are; every *)
(* other call keeps the shape of the store, and that is what most of the   *)
(* invariants speak about.                                                 *)
(***************************************************************************)
EXTENDS SemStore, SemStoreLemmas, FiniteSetTheorems

-----------------------------------------------------------------------------
(* Constants.                                                              *)

\* Min is the least element of a set of natural numbers.
LEMMA LeastIsFirst == LeastFirst
<1>1. ASSUME NEW n \in Nat, NEW f \in [1..n -> 1..(n - 1)], n # 0
      PROVE  \E i, j \in 1..n : i # j /\ f[i] = f[j]
  <2>1. /\ IsFiniteSet(1..n) /\ IsFiniteSet(1..(n - 1))
        /\ Cardinality(1..(n - 1)) < Cardinality(1..n)
    BY <1>1, FS_Interval
  <2> QED  BY <2>1, FS_PigeonHole, Zenon
<1>2. Pigeonhole  BY <1>1, Zenon DEF Pigeonhole
<1> QED  BY <1>2, LeastNumber

-----------------------------------------------------------------------------
(* What the calls leave alone.                                             *)

\* Liveness of semaphores is part of the shape.
LEMMA ShapeKeepsSems ==
    ASSUME NEW st, NEW new, SameShape(st, new), NEW semid, NEW s, has_sem(st, semid, s)
    PROVE  has_sem(new, semid, s)
<1>1. id_index(semid) \in Slots  BY DEF has_sem, find_set, decodes
<1>2. SameSet(st.sets[id_index(semid)], new.sets[id_index(semid)])  BY <1>1 DEF SameShape
<1> QED  BY <1>2 DEF SameSet, has_sem, find_set, SetOf

LEMMA AdjustWaitCountShape ==
    ASSUME NEW st, StoreTypeOK(st), NEW semid \in Int, NEW semnum,
           NEW zero \in BOOLEAN, NEW adjustment
    PROVE  /\ SameShape(st, adjust_wait_count(st, semid, semnum, zero, adjustment).st)
           /\ adjust_wait_count(st, semid, semnum, zero, adjustment).st.undo = st.undo
<1> DEFINE new == adjust_wait_count(st, semid, semnum, zero, adjustment).st
           i == id_index(semid)
           count == st.sets[i][WaitersField(zero)][semnum] + adjustment
           set == [st.sets[i] EXCEPT ![WaitersField(zero)][semnum] = count]
<1>1. CASE new = st  BY <1>1, SameShapeRefl
<1>2. CASE new # st
  <2>1. find_set(st, semid) /\ new = [st EXCEPT !.sets[i] = set]
    BY <1>2 DEF adjust_wait_count, Fail, SetOf, has_sem
  <2>2. i \in Slots /\ SetOK(st.sets[i])  BY <2>1, LiveSet DEF SetOf
  <2>3. SameSet(st.sets[i], set)
    <3>1. CASE zero
      <4>1. set = [st.sets[i] EXCEPT !.zero_waiters[semnum] = count]
        BY <3>1 DEF WaitersField
      <4> QED  BY <2>2, <4>1 DEF SetOK, SetType, SameSet
    <3>2. CASE ~zero
      <4>1. set = [st.sets[i] EXCEPT !.negative_waiters[semnum] = count]
        BY <3>2 DEF WaitersField
      <4> QED  BY <2>2, <4>1 DEF SetOK, SetType, SameSet
    <3> QED  BY <3>1, <3>2
  <2> HIDE DEF i, set
  <2>4. SameShape(st, [st EXCEPT !.sets[i] = set]) /\ [st EXCEPT !.sets[i] = set].undo = st.undo
    BY <2>2, <2>3, WriteOnlyKeepsShape, Zenon
  <2> QED  BY <2>1, <2>4, Zenon
<1> QED  BY <1>1, <1>2

LEMMA ProcessExitShape ==
    ASSUME NEW st, StoreTypeOK(st), NEW pid
    PROVE  LET new == process_exit(st, pid).st
           IN  SameShape(st, new) /\ new.undo \subseteq st.undo
<1> DEFINE new == process_exit(st, pid).st
<1>1. /\ \A i \in Slots : new.sets[i] = RestoredSet(st, pid, i)
      /\ new.undo \subseteq st.undo
  BY DEF process_exit
<1>2. ASSUME NEW i \in Slots PROVE SameSet(st.sets[i], RestoredSet(st, pid, i))
  <2>1. SetOK(st.sets[i])  BY DEF StoreTypeOK
  <2>2. CASE ~st.sets[i].active  BY <2>2 DEF RestoredSet, SameSet
  <2>3. CASE st.sets[i].active
    <3>1. \E v, l : RestoredSet(st, pid, i)
                    = [st.sets[i] EXCEPT !.values = v, !.last_pids = l]
      BY <2>3, Zenon DEF RestoredSet
    <3> QED  BY <2>1, <3>1 DEF SetOK, SetType, SameSet
  <2> QED  BY <2>2, <2>3
<1> QED  BY <1>1, <1>2 DEF SameShape

LEMMA TryopShape ==
    ASSUME NEW st, StoreTypeOK(st), NEW semid \in Int, NEW ops, NEW pid
    PROVE  LET new == tryop(st, semid, ops, pid).st
               delta == UndoDeltas(SetOf(st, semid).values, ops, Len(ops))
           IN  /\ SameShape(st, new)
               /\ \/ new.undo = st.undo
                  \/ /\ find_set(st, semid)
                     /\ new.undo = MergeUndo(st, semid, pid, delta)
<1> DEFINE new == tryop(st, semid, ops, pid).st
           i == id_index(semid)
           delta == UndoDeltas(SetOf(st, semid).values, ops, Len(ops))
           undo == MergeUndo(st, semid, pid, delta)
<1>1. CASE tryop_result(st, semid, ops, pid) # OK
  BY <1>1, SameShapeRefl DEF tryop, Fail
<1>2. CASE tryop_result(st, semid, ops, pid) = OK
  <2>1. find_set(st, semid)  BY <1>2, TryopChecks
  <2>2. i \in Slots /\ SetOK(st.sets[i])  BY <2>1, LiveSet DEF SetOf
  <2>3. PICK v, l : new = [sets |-> [st.sets EXCEPT ![i] =
                              [st.sets[i] EXCEPT !.values = v, !.last_pids = l]],
                           undo |-> undo]
    BY <1>2, Zenon DEF tryop, SetOf
  <2> DEFINE set == [st.sets[i] EXCEPT !.values = v, !.last_pids = l]
  <2>4. SameSet(st.sets[i], set)  BY <2>2 DEF SetOK, SetType, SameSet
  <2> HIDE DEF i, set, undo
  <2>5. SameShape(st, [sets |-> [st.sets EXCEPT ![i] = set], undo |-> undo])
    BY <2>2, <2>4, WriteKeepsShape, Zenon
  <2>6. [sets |-> [st.sets EXCEPT ![i] = set], undo |-> undo].undo = undo  OBVIOUS
  <2>7. new = [sets |-> [st.sets EXCEPT ![i] = set], undo |-> undo]
    BY <2>3, Zenon DEF set
  <2>8. SameShape(st, new) /\ new.undo = undo  BY <2>5, <2>6, <2>7, Zenon
  <2> QED  BY <2>1, <2>8, Zenon DEF undo
<1> QED  BY <1>1, <1>2

\* A removal empties one active slot and drops its undo entries.
LEMMA RemoveWrites ==
    ASSUME NEW st, StoreTypeOK(st), NEW semid \in Int, remove(st, semid).st # st
    PROVE  LET new == remove(st, semid).st
               i == id_index(semid)
           IN  /\ find_set(st, semid) /\ i \in Slots
               /\ new.undo = {e \in st.undo : e.semid # semid}
               /\ \A j \in Slots \ {i} : new.sets[j] = st.sets[j]
               /\ ~new.sets[i].active
               /\ new.sets[i].generation = next_generation(st.sets[i].generation)
<1> DEFINE new == remove(st, semid).st
           i == id_index(semid)
           set == EmptySet(next_generation(st.sets[i].generation))
<1>1. /\ find_set(st, semid)
      /\ new = [sets |-> [st.sets EXCEPT ![i] = set],
                undo |-> clear_undo_entries(st, semid, 0, TRUE)]
  BY Zenon DEF remove, Fail
<1>2. i \in Slots  BY <1>1 DEF find_set, decodes
<1>3. new.undo = {e \in st.undo : e.semid # semid}  BY <1>1 DEF clear_undo_entries
<1>4. ~set.active /\ set.generation = next_generation(st.sets[i].generation)
  BY DEF EmptySet
<1>5. st.sets = [j \in Slots |-> st.sets[j]]  BY DEF StoreTypeOK
<1> HIDE DEF i, set, new
<1>6. new.sets = [st.sets EXCEPT ![i] = set]  BY <1>1
<1>7. new.sets[i] = set /\ \A j \in Slots \ {i} : new.sets[j] = st.sets[j]
  BY <1>2, <1>5, <1>6
<1> QED  BY <1>1, <1>2, <1>3, <1>4, <1>7, Zenon DEF i, new

-----------------------------------------------------------------------------
(* The type invariant.                                                      *)

\* The arguments of the calls, from InputAssumption.
LEMMA Inputs ==
    /\ \A key \in Keys : key \in Int
    /\ \A n \in SetSizes : n \in Int
    /\ \A f \in GetFlags : f \in [creat : BOOLEAN, excl : BOOLEAN, mode : Permissions]
    /\ \A a \in Identities : a \in [uid : Nat, gid : Nat]
    /\ \A semid \in Semids : semid \in Int
    /\ \A s \in SemNums : s \in Nat
    /\ \A v \in Values : v \in Nat
    /\ \A m \in Modes : m \in Nat
    /\ \A z \in WaitKinds : z \in BOOLEAN
BY InputAssumption DEF InputAssumption

LEMMA OpsInputs ==
    ASSUME NEW ops \in OpArrays
    PROVE  Len(ops) \in Nat /\ (ops # <<>> => Len(ops) # 0)
<1> DEFINE T == [sem_num : Nat, sem_op : Int,
                 sem_flg : SUBSET {"IPC_NOWAIT", "SEM_UNDO", "OTHER"}]
<1>1. ops \in Seq(T)  BY InputAssumption DEF InputAssumption
<1> HIDE DEF T
<1> QED  BY <1>1

\* Every call preserves the type of the store.
LEMMA StoreStepType ==
    ASSUME StoreTypeOK(store), Next
    PROVE  StoreTypeOK(store')
<1>1. CASE Get
  <2>1. PICK key \in Keys, nsems \in SetSizes, flags \in GetFlags,
             identity \in Identities, allocated \in BOOLEAN :
             store' = get_as(store, key, nsems, flags, identity, allocated).st
    BY <1>1 DEF Get, GetCall
  <2> QED  BY <2>1, Inputs, GetType, LeastIsFirst
<1>2. CASE RemoveSet
  <2>1. PICK semid \in Semids : store' = remove(store, semid).st  BY <1>2 DEF RemoveSet
  <2> QED  BY <2>1, Inputs, RemoveType
<1>3. CASE SetMetadata
  <2>1. PICK semid \in Semids, actor \in Identities, owner \in Identities, mode \in Modes :
             store' = set_metadata(store, semid, owner.uid, owner.gid, mode, actor).st
    BY <1>3 DEF SetMetadata
  <2>2. owner.uid \in Nat /\ owner.gid \in Nat  BY Inputs
  <2> QED  BY <2>1, <2>2, Inputs, SetMetadataType
<1>4. CASE Setval
  <2>1. PICK semid \in Semids, semnum \in SemNums, value \in Values, pid \in Pids :
             store' = setval(store, semid, semnum, value, pid).st
    BY <1>4 DEF Setval
  <2> QED  BY <2>1, Inputs, SetvalType, Zenon
<1>5. CASE Setall
  <2>1. PICK semid \in Semids, n \in SetSizes, pid \in Pids :
             \E values \in [Sems(n) -> Values] :
                 store' = setall(store, semid, values, pid).st
    BY <1>5 DEF Setall
  <2>2. PICK values \in [Sems(n) -> Values] : store' = setall(store, semid, values, pid).st
    BY <2>1
  <2>3. values \in [Sems(n) -> Nat]  BY Inputs
  <2> QED  BY <2>2, <2>3, Inputs, SetallType
<1>6. CASE AdjustWaitCount
  <2>1. PICK semid \in Semids, semnum \in SemNums, zero \in WaitKinds, adj \in {-1, 1} :
             store' = adjust_wait_count(store, semid, semnum, zero, adj).st
    BY <1>6 DEF AdjustWaitCount
  <2>2. adj \in Int  OBVIOUS
  <2> QED  BY <2>1, <2>2, Inputs, AdjustWaitCountType, Zenon
<1>7. CASE ProcessExit
  <2>1. PICK pid \in Pids : store' = process_exit(store, pid).st  BY <1>7 DEF ProcessExit
  <2> QED  BY <2>1, ProcessExitType
<1>8. CASE Tryop
  <2>1. PICK semid \in Semids, ops \in OpArrays, pid \in Pids :
             store' = tryop(store, semid, ops, pid).st
    BY <1>8 DEF Tryop
  <2> QED  BY <2>1, Inputs, OpsInputs, TryopType
<1> QED  BY <1>1, <1>2, <1>3, <1>4, <1>5, <1>6, <1>7, <1>8 DEF Next

\* The type invariant of the store holds for every size of its tables and
\* for every sequence of calls (sem_store.c as a whole).
THEOREM TypeCorrect == Spec => []TypeOK
<1>1. Init => TypeOK
  <2> SUFFICES ASSUME Init PROVE TypeOK  OBVIOUS
  <2>1. StoreTypeOK(store)  BY EmptyStoreType DEF Init
  <2>2. issued \in [Slots -> Seq(Int)]  BY DEF Init
  <2> QED  BY <2>1, <2>2 DEF TypeOK
<1>2. TypeOK /\ [Next]_vars => TypeOK'
  <2> SUFFICES ASSUME TypeOK, [Next]_vars PROVE TypeOK'  OBVIOUS
  <2>1. CASE UNCHANGED vars  BY <2>1 DEF TypeOK, vars, StoreTypeOK
  <2>2. CASE Next
    <3>1. StoreTypeOK(store')  BY <2>2, StoreStepType DEF TypeOK
    <3>2. issued' \in [Slots -> Seq(Int)]
      <4>1. CASE Get
        <5>1. PICK key \in Keys, nsems \in SetSizes, flags \in GetFlags,
                   identity \in Identities, allocated \in BOOLEAN :
                   GetCall(key, nsems, flags, identity, allocated)
          BY <4>1 DEF Get
        <5> DEFINE r == get_as(store, key, nsems, flags, identity, allocated)
        <5>2. CASE r.st = store  BY <5>1, <5>2 DEF TypeOK, GetCall
        <5>3. CASE r.st # store
          <6> DEFINE i == free_set(store)
                     g == fresh_generation(store, i)
          <6>1. i \in Slots /\ g \in 1..MaxGeneration /\ r.ret = make_id(i, g)
            BY <5>3, GetCreates, LeastIsFirst DEF TypeOK
          <6>2. r.ret \in Int /\ id_index(r.ret) = i  BY <6>1, IdRoundTrip
          <6>3. issued' = [issued EXCEPT ![i] = Append(@, r.ret)]
            BY <5>1, <5>3, <6>2 DEF GetCall
          <6> HIDE DEF i, g, r
          <6>4. Append(issued[i], r.ret) \in Seq(Int)  BY <6>1, <6>2 DEF TypeOK
          <6> QED  BY <6>3, <6>4, Zenon DEF TypeOK
        <5> QED  BY <5>2, <5>3
      <4>2. CASE ~Get
        <5>1. issued' = issued
          BY <2>2, <4>2 DEF Next, RemoveSet, SetMetadata, Setval, Setall,
                            AdjustWaitCount, ProcessExit, Tryop
        <5> QED  BY <5>1 DEF TypeOK
      <4> QED  BY <4>1, <4>2
    <3> QED  BY <3>1, <3>2 DEF TypeOK, StoreTypeOK
  <2> QED  BY <2>1, <2>2
<1> QED  BY <1>1, <1>2, PTL DEF Spec

-----------------------------------------------------------------------------
(* The calls that keep the shape of the store.                              *)

\* The calls that change neither the shape nor, except by dropping entries,
\* the undo table.
LEMMA PlainStep ==
    ASSUME StoreTypeOK(store),
           SetMetadata \/ Setval \/ Setall \/ AdjustWaitCount \/ ProcessExit
    PROVE  SameShape(store, store') /\ store'.undo \subseteq store.undo
<1>1. CASE SetMetadata
  <2>1. PICK semid \in Semids, actor \in Identities, owner \in Identities, mode \in Modes :
             store' = set_metadata(store, semid, owner.uid, owner.gid, mode, actor).st
    BY <1>1 DEF SetMetadata
  <2> QED  BY <2>1, Inputs, SetMetadataShape
<1>2. CASE Setval
  <2>1. PICK semid \in Semids, semnum \in SemNums, value \in Values, pid \in Pids :
             store' = setval(store, semid, semnum, value, pid).st
    BY <1>2 DEF Setval
  <2> QED  BY <2>1, Inputs, SetvalShape
<1>3. CASE Setall
  <2>1. \E semid \in Semids, pid \in Pids : \E values :
             store' = setall(store, semid, values, pid).st
    BY <1>3 DEF Setall
  <2> QED  BY <2>1, Inputs, SetallShape
<1>4. CASE AdjustWaitCount
  <2>1. PICK semid \in Semids, semnum \in SemNums, zero \in WaitKinds, adj \in {-1, 1} :
             store' = adjust_wait_count(store, semid, semnum, zero, adj).st
    BY <1>4 DEF AdjustWaitCount
  <2> QED  BY <2>1, Inputs, AdjustWaitCountShape
<1>5. CASE ProcessExit
  <2>1. PICK pid \in Pids : store' = process_exit(store, pid).st  BY <1>5 DEF ProcessExit
  <2> QED  BY <2>1, ProcessExitShape
<1> QED  BY <1>1, <1>2, <1>3, <1>4, <1>5

-----------------------------------------------------------------------------
(* UndoLive.                                                                *)

LEMMA ShapeKeepsUndoLive ==
    ASSUME NEW st, NEW new, SameShape(st, new), new.undo \subseteq st.undo, UndoLiveIn(st)
    PROVE  UndoLiveIn(new)
<1>1. \A e \in new.undo : has_sem(new, e.semid, e.semnum)
  BY ShapeKeepsSems DEF UndoLiveIn
<1> QED  BY <1>1 DEF UndoLiveIn

LEMMA GetUndoLive ==
    ASSUME NEW st, StoreTypeOK(st), NEW key, NEW nsems, NEW flags, NEW identity,
           NEW allocated, UndoLiveIn(st)
    PROVE  UndoLiveIn(get_as(st, key, nsems, flags, identity, allocated).st)
<1> DEFINE new == get_as(st, key, nsems, flags, identity, allocated).st
           i == free_set(st)
<1> SUFFICES UndoLiveIn(new)  OBVIOUS
<1>1. CASE new = st  BY <1>1
<1>2. CASE new # st
  <2>0. Created(st, new, i, key)  BY <1>2, GetWrites, LeastIsFirst, Zenon
  <2> HIDE DEF i, new
  <2>1. /\ ~st.sets[i].active /\ new.undo = st.undo
        /\ \A j \in Slots \ {i} : new.sets[j] = st.sets[j]
    BY <2>0 DEF Created
  <2>2. ASSUME NEW e \in st.undo PROVE has_sem(new, e.semid, e.semnum)
    <3>1. has_sem(st, e.semid, e.semnum)  BY DEF UndoLiveIn
    <3>2. id_index(e.semid) \in Slots \ {i}
      BY <2>1, <3>1 DEF has_sem, find_set, decodes
    <3>3. new.sets[id_index(e.semid)] = st.sets[id_index(e.semid)]  BY <2>1, <3>2
    <3> QED  BY <3>1, <3>3 DEF has_sem, find_set, SetOf
  <2> QED  BY <2>1, <2>2 DEF UndoLiveIn
<1> QED  BY <1>1, <1>2

LEMMA RemoveUndoLive ==
    ASSUME NEW st, StoreTypeOK(st), NEW semid \in Int, UndoLiveIn(st)
    PROVE  UndoLiveIn(remove(st, semid).st)
<1> DEFINE new == remove(st, semid).st
           i == id_index(semid)
<1> SUFFICES UndoLiveIn(new)  OBVIOUS
<1>1. CASE new = st  BY <1>1
<1>2. CASE new # st
  <2>1. /\ find_set(st, semid) /\ new.undo = {e \in st.undo : e.semid # semid}
        /\ \A j \in Slots \ {i} : new.sets[j] = st.sets[j]
    BY <1>2, RemoveWrites
  <2> HIDE DEF new
  <2>2. ASSUME NEW e \in new.undo PROVE has_sem(new, e.semid, e.semnum)
    <3>1. e \in st.undo /\ e.semid # semid  BY <2>1
    <3>2. has_sem(st, e.semid, e.semnum)  BY <3>1 DEF UndoLiveIn
    <3>3. id_index(e.semid) \in Slots  BY <3>2 DEF has_sem, find_set, decodes
    <3>4. id_index(e.semid) # i
      <4>1. e.semid \in Int  BY <3>1 DEF StoreTypeOK, UndoType
      <4> SUFFICES ASSUME id_index(e.semid) = i PROVE FALSE  OBVIOUS
      <4>2. id_generation(e.semid) = id_generation(semid)
        BY <2>1, <3>2 DEF has_sem, find_set
      <4> QED  BY <3>1, <4>1, <4>2, IdInjective
    <3>5. new.sets[id_index(e.semid)] = st.sets[id_index(e.semid)]
      BY <2>1, <3>3, <3>4
    <3> QED  BY <3>2, <3>5 DEF has_sem, find_set, SetOf
  <2> QED  BY <2>1, <2>2 DEF UndoLiveIn
<1> QED  BY <1>1, <1>2

LEMMA MergeUndoLive ==
    ASSUME NEW st, StoreTypeOK(st), NEW semid \in Int, find_set(st, semid), NEW pid,
           NEW new, SameShape(st, new), NEW delta,
           DOMAIN delta = Sems(SetOf(st, semid).nsems),
           new.undo = MergeUndo(st, semid, pid, delta), UndoLiveIn(st)
    PROVE  UndoLiveIn(new)
<1> DEFINE Kept(e) == /\ e \in st.undo
                      /\ ~(e.pid = pid /\ e.semid = semid /\ e.semnum \in Touched(delta))
           Added(e) == \E s \in Touched(delta) :
               /\ e = [pid |-> pid, semid |-> semid, semnum |-> s,
                       adjustment |-> Adjustment(st, pid, semid, s) + delta[s]]
               /\ e.adjustment # 0
<1>1. \A e \in new.undo : Kept(e) \/ Added(e)  BY DEF MergeUndo
<1>2. ASSUME NEW e, Kept(e) PROVE has_sem(new, e.semid, e.semnum) /\ e.adjustment # 0
  BY <1>2, ShapeKeepsSems DEF UndoLiveIn
<1>3. ASSUME NEW e, Added(e)
      PROVE  /\ has_sem(new, e.semid, e.semnum) /\ e.adjustment # 0
             /\ e.pid = pid /\ e.semid = semid /\ e.semnum \in Touched(delta)
             /\ e.adjustment = Adjustment(st, pid, semid, e.semnum) + delta[e.semnum]
             /\ e = [pid |-> e.pid, semid |-> e.semid, semnum |-> e.semnum,
                     adjustment |-> e.adjustment]
  <2>1. PICK s \in Touched(delta) :
            /\ e = [pid |-> pid, semid |-> semid, semnum |-> s,
                    adjustment |-> Adjustment(st, pid, semid, s) + delta[s]]
            /\ e.adjustment # 0
    BY <1>3
  <2>2. has_sem(st, semid, s)  BY DEF has_sem, Touched
  <2>3. has_sem(new, semid, s)  BY <2>2, ShapeKeepsSems
  <2> QED  BY <2>1, <2>3
<1>4. ASSUME NEW e, NEW f, Kept(e) \/ Added(e), Kept(f) \/ Added(f),
             e.pid = f.pid, e.semid = f.semid, e.semnum = f.semnum
      PROVE  e = f
  <2>1. CASE Kept(e) /\ Kept(f)  BY <1>4, <2>1 DEF UndoLiveIn
  <2>2. CASE Added(e) /\ Added(f)
    <3> HIDE DEF Added
    <3>1. e.adjustment = f.adjustment  BY <1>3, <1>4, <2>2
    <3> QED  BY <1>3, <1>4, <2>2, <3>1
  <2>3. CASE (Kept(e) /\ Added(f)) \/ (Added(e) /\ Kept(f))  BY <1>3, <1>4, <2>3
  <2> QED  BY <1>4, <2>1, <2>2, <2>3
<1> HIDE DEF Kept, Added
<1>5. \A e \in new.undo : has_sem(new, e.semid, e.semnum) /\ e.adjustment # 0
  BY <1>1, <1>2, <1>3
<1>6. \A e, f \in new.undo :
         e.pid = f.pid /\ e.semid = f.semid /\ e.semnum = f.semnum => e = f
  BY <1>1, <1>4
<1> QED  BY <1>5, <1>6 DEF UndoLiveIn

LEMMA TryopUndoLive ==
    ASSUME NEW st, StoreTypeOK(st), NEW semid \in Int, NEW ops, NEW pid, UndoLiveIn(st)
    PROVE  UndoLiveIn(tryop(st, semid, ops, pid).st)
<1> DEFINE new == tryop(st, semid, ops, pid).st
           delta == UndoDeltas(SetOf(st, semid).values, ops, Len(ops))
<1> SUFFICES UndoLiveIn(new)  OBVIOUS
<1>1. /\ SameShape(st, new)
      /\ \/ new.undo = st.undo
         \/ find_set(st, semid) /\ new.undo = MergeUndo(st, semid, pid, delta)
  BY TryopShape
<1>2. CASE new.undo = st.undo  BY <1>1, <1>2, ShapeKeepsUndoLive
<1>3. CASE find_set(st, semid) /\ new.undo = MergeUndo(st, semid, pid, delta)
  <2>1. DOMAIN delta = Sems(SetOf(st, semid).nsems)
    BY <1>3, LiveSet DEF UndoDeltas, SetType
  <2> HIDE DEF new, delta
  <2> QED  BY <1>1, <1>3, <2>1, MergeUndoLive
<1> QED  BY <1>1, <1>2, <1>3

\* Every undo entry belongs to a live semaphore, for every store and every
\* sequence of calls (clear_undo_entries, tryop_detail, process_exit).
THEOREM UndoAlwaysLive == Spec => []UndoLive
<1>1. Init => UndoLive  BY DEF Init, EmptyStore, UndoLive, UndoLiveIn
<1>2. TypeOK /\ UndoLive /\ [Next]_vars => UndoLive'
  <2> SUFFICES ASSUME TypeOK, UndoLive, [Next]_vars PROVE UndoLiveIn(store')
    BY DEF UndoLive, UndoLiveIn
  <2>1. StoreTypeOK(store) /\ UndoLiveIn(store)  BY DEF TypeOK, UndoLive
  <2>2. CASE UNCHANGED vars  BY <2>1, <2>2 DEF vars
  <2>3. CASE Get
    <3>1. PICK key \in Keys, nsems \in SetSizes, flags \in GetFlags,
               identity \in Identities, allocated \in BOOLEAN :
               store' = get_as(store, key, nsems, flags, identity, allocated).st
      BY <2>3 DEF Get, GetCall
    <3> QED  BY <2>1, <3>1, GetUndoLive
  <2>4. CASE RemoveSet
    <3>1. PICK semid \in Semids : store' = remove(store, semid).st
      BY <2>4 DEF RemoveSet
    <3> QED  BY <2>1, <3>1, Inputs, RemoveUndoLive
  <2>5. CASE Tryop
    <3>1. PICK semid \in Semids, ops \in OpArrays, pid \in Pids :
               store' = tryop(store, semid, ops, pid).st
      BY <2>5 DEF Tryop
    <3> QED  BY <2>1, <3>1, Inputs, TryopUndoLive
  <2>6. CASE SetMetadata \/ Setval \/ Setall \/ AdjustWaitCount \/ ProcessExit
    <3>1. SameShape(store, store') /\ store'.undo \subseteq store.undo
      BY <2>1, <2>6, PlainStep
    <3> QED  BY <2>1, <3>1, ShapeKeepsUndoLive
  <2> QED  BY <2>2, <2>3, <2>4, <2>5, <2>6 DEF Next
<1> QED  BY <1>1, <1>2, TypeCorrect, PTL DEF Spec

-----------------------------------------------------------------------------
(* The capacity of the undo table.                                          *)

UndoRoomIn(st) == IsFiniteSet(st.undo) /\ Cardinality(st.undo) <= MaxUndo

LEMMA FewerKeepRoom ==
    ASSUME NEW st, NEW new, new.undo \subseteq st.undo, UndoRoomIn(st)
    PROVE  UndoRoomIn(new)
<1>1. IsFiniteSet(new.undo) /\ Cardinality(new.undo) <= Cardinality(st.undo)
  BY FS_Subset DEF UndoRoomIn
<1>2. Cardinality(new.undo) \in Nat /\ Cardinality(st.undo) \in Nat
  BY <1>1, FS_CardinalityType DEF UndoRoomIn
<1> QED  BY <1>1, <1>2, StoreAssumption DEF UndoRoomIn, StoreAssumption

\* A set whose elements are given different elements of a finite set is no larger.
LEMMA InjectionBound ==
    ASSUME NEW S, NEW T, IsFiniteSet(T), NEW f \in [S -> T],
           \A x, y \in S : f[x] = f[y] => x = y
    PROVE  IsFiniteSet(S) /\ Cardinality(S) <= Cardinality(T)
<1>1. f \in Injection(S, T)  BY DEF Injection, IsInjective
<1> QED  BY <1>1, FS_Injection

\* Merging needs one new entry for each touched semaphore without one, the number
\* that tryop_detail counts before it commits.
LEMMA MergeUndoSize ==
    ASSUME NEW st, IsFiniteSet(st.undo), NEW semid, NEW pid, NEW delta,
           IsFiniteSet(DOMAIN delta)
    PROVE  LET required == {s \in Touched(delta) : find_undo_entry(st, pid, semid, s) = {}}
               merged == MergeUndo(st, semid, pid, delta)
           IN  /\ IsFiniteSet(merged)
               /\ Cardinality(required) \in Nat
               /\ Cardinality(merged) <= Cardinality(st.undo) + Cardinality(required)
<1> DEFINE required == {s \in Touched(delta) : find_undo_entry(st, pid, semid, s) = {}}
           merged == MergeUndo(st, semid, pid, delta)
           found(s) == find_undo_entry(st, pid, semid, s)
           Blank(s) == [pid |-> pid, semid |-> semid, semnum |-> s, adjustment |-> 0]
           blanks == {Blank(s) : s \in required}
           Kept(e) == /\ e \in st.undo
                      /\ ~(e.pid = pid /\ e.semid = semid /\ e.semnum \in Touched(delta))
           from == [e \in merged |-> IF Kept(e) THEN e
                                     ELSE IF found(e.semnum) # {}
                                     THEN CHOOSE x \in found(e.semnum) : TRUE
                                     ELSE Blank(e.semnum)]
           Entry(s) == [pid |-> pid, semid |-> semid, semnum |-> s,
                        adjustment |-> Adjustment(st, pid, semid, s) + delta[s]]
<1>1. \A e \in merged : Kept(e) \/ \E s \in Touched(delta) : e = Entry(s)
  BY DEF MergeUndo
<1>2. \A s : \A x \in found(s) :
         x \in st.undo /\ x.pid = pid /\ x.semid = semid /\ x.semnum = s
  BY DEF find_undo_entry
<1>3. IsFiniteSet(required) /\ Cardinality(required) \in Nat
  <2>1. required \subseteq DOMAIN delta  BY DEF Touched
  <2> HIDE DEF required
  <2> QED  BY <2>1, FS_Subset, FS_CardinalityType
<1>4. IsFiniteSet(blanks) /\ Cardinality(blanks) <= Cardinality(required)
  <2> DEFINE num == [b \in blanks |-> b.semnum]
  <2>1. num \in [blanks -> required]  OBVIOUS
  <2>2. \A x, y \in blanks : num[x] = num[y] => x = y  OBVIOUS
  <2> HIDE DEF num, blanks, required
  <2> QED  BY <1>3, <2>1, <2>2, InjectionBound
<1>5. /\ IsFiniteSet(st.undo \cup blanks)
      /\ Cardinality(st.undo \cup blanks) <= Cardinality(st.undo) + Cardinality(required)
  <2> HIDE DEF blanks, required
  <2>1. /\ IsFiniteSet(st.undo \cup blanks)
        /\ Cardinality(st.undo \cup blanks)
             = Cardinality(st.undo) + Cardinality(blanks) - Cardinality(st.undo \cap blanks)
    BY <1>4, FS_Union
  <2>2. /\ Cardinality(st.undo) \in Nat /\ Cardinality(blanks) \in Nat
        /\ Cardinality(st.undo \cap blanks) \in Nat
    BY <1>4, FS_CardinalityType, FS_Intersection, Zenon
  <2> QED  BY <1>3, <1>4, <2>1, <2>2
<1>6. ASSUME NEW e \in merged
      PROVE  /\ from[e] \in st.undo \cup blanks
             /\ Kept(e) => from[e] = e
             /\ ~Kept(e) => /\ e = Entry(e.semnum) /\ e.semnum \in Touched(delta)
                            /\ from[e].semnum = e.semnum /\ ~Kept(from[e])
  <2>1. CASE Kept(e)  BY <2>1
  <2>2. CASE ~Kept(e)
    <3>1. PICK s \in Touched(delta) : e = Entry(s)  BY <1>1, <2>2, SMTT(30)
    <3>2. e.semnum = s  BY <3>1
    <3>3. CASE found(s) # {}
      <4>1. from[e] \in found(s)  BY <2>2, <3>2, <3>3
      <4> HIDE DEF from, found, Entry
      <4> QED  BY <1>2, <2>2, <3>1, <3>2, <4>1
    <3>4. CASE found(s) = {}
      <4>1. s \in required  BY <3>4
      <4>2. from[e] = Blank(s)  BY <2>2, <3>2, <3>4
      <4> HIDE DEF from, found, Entry
      <4> QED  BY <2>2, <3>1, <3>2, <4>1, <4>2, SMTT(30)
    <3> QED  BY <3>3, <3>4, Zenon
  <2> QED  BY <2>1, <2>2
<1>7. from \in [merged -> st.undo \cup blanks]
  <2>1. from = [e \in merged |-> from[e]]  OBVIOUS
  <2> HIDE DEF from, merged, blanks
  <2> QED  BY <1>6, <2>1
<1>8. \A x, y \in merged : from[x] = from[y] => x = y
  <2> SUFFICES ASSUME NEW x \in merged, NEW y \in merged, from[x] = from[y] PROVE x = y
    BY Zenon
  <2> HIDE DEF from, merged, blanks, found, Entry
  <2>1. CASE Kept(x)
    <3>1. Kept(y)
      <4> SUFFICES ASSUME ~Kept(y) PROVE FALSE  OBVIOUS
      <4>1. ~Kept(from[y])  BY <1>6
      <4> HIDE DEF Kept
      <4> QED  BY <1>6, <2>1, <4>1
    <3> HIDE DEF Kept
    <3> QED  BY <1>6, <2>1, <3>1
  <2>2. CASE ~Kept(x)
    <3>1. ~Kept(y)
      <4> SUFFICES ASSUME Kept(y) PROVE FALSE  OBVIOUS
      <4>1. ~Kept(from[x])  BY <1>6, <2>2
      <4> HIDE DEF Kept
      <4> QED  BY <1>6, <4>1
    <3> HIDE DEF Kept
    <3>2. x = Entry(x.semnum) /\ y = Entry(y.semnum) /\ x.semnum = y.semnum
      BY <1>6, <2>2, <3>1
    <3> QED  BY <3>2
  <2> QED  BY <2>1, <2>2
<1>9. IsFiniteSet(merged) /\ Cardinality(merged) <= Cardinality(st.undo \cup blanks)
  <2> HIDE DEF from, merged, blanks
  <2> QED  BY <1>5, <1>7, <1>8, InjectionBound
<1>10. Cardinality(merged) \in Nat /\ Cardinality(st.undo \cup blanks) \in Nat
       /\ Cardinality(st.undo) \in Nat
  <2> HIDE DEF merged, blanks
  <2> QED  BY <1>5, <1>9, FS_CardinalityType
<1> HIDE DEF merged, blanks, required
<1>11. Cardinality(merged) <= Cardinality(st.undo) + Cardinality(required)
  BY <1>3, <1>5, <1>9, <1>10
<1> QED  BY <1>3, <1>9, <1>11 DEF merged, required

LEMMA GetKeepsUndo ==
    ASSUME NEW st, StoreTypeOK(st), NEW key, NEW nsems, NEW flags, NEW identity,
           NEW allocated
    PROVE  get_as(st, key, nsems, flags, identity, allocated).st.undo = st.undo
BY GetWrites, LeastIsFirst DEF Created

LEMMA RemoveDropsUndo ==
    ASSUME NEW st, StoreTypeOK(st), NEW semid \in Int
    PROVE  remove(st, semid).st.undo \subseteq st.undo
BY RemoveWrites

LEMMA TryopRoom ==
    ASSUME NEW st, StoreTypeOK(st), NEW semid \in Int, NEW ops, NEW pid, UndoRoomIn(st)
    PROVE  UndoRoomIn(tryop(st, semid, ops, pid).st)
<1> DEFINE new == tryop(st, semid, ops, pid).st
           delta == UndoDeltas(SetOf(st, semid).values, ops, Len(ops))
           required == {s \in Touched(delta) : find_undo_entry(st, pid, semid, s) = {}}
<1> SUFFICES UndoRoomIn(new)  OBVIOUS
<1>1. CASE tryop_result(st, semid, ops, pid) # OK  BY <1>1 DEF tryop, Fail
<1>2. CASE new.undo = st.undo  BY <1>2, FewerKeepRoom
<1>3. CASE /\ tryop_result(st, semid, ops, pid) = OK
           /\ find_set(st, semid) /\ new.undo = MergeUndo(st, semid, pid, delta)
  <2>1. DOMAIN delta = Sems(SetOf(st, semid).nsems) /\ SetOf(st, semid).nsems \in Nat
    BY <1>3, LiveSet, StoreAssumption DEF UndoDeltas, SetType, StoreAssumption
  <2>2. IsFiniteSet(DOMAIN delta)  BY <2>1, FS_Interval, SMTT(30) DEF Sems
  <2>3. UndoVerdict(st, semid, pid, delta) = OK  BY <1>3, TryopChecks
  <2> HIDE DEF delta, new
  <2>4. ~(Cardinality(required) > MaxUndo - Cardinality(st.undo))
    BY <2>3 DEF UndoVerdict, ERANGE, ENOSPC, OK
  <2>5. /\ IsFiniteSet(new.undo) /\ Cardinality(required) \in Nat
        /\ Cardinality(new.undo) <= Cardinality(st.undo) + Cardinality(required)
    BY <1>3, <2>2, MergeUndoSize, Zenon DEF UndoRoomIn
  <2>6. Cardinality(new.undo) \in Nat /\ Cardinality(st.undo) \in Nat /\ MaxUndo \in Nat
    BY <2>5, FS_CardinalityType, StoreAssumption DEF UndoRoomIn, StoreAssumption
  <2> HIDE DEF required
  <2> QED  BY <2>4, <2>5, <2>6 DEF UndoRoomIn
<1> QED  BY <1>1, <1>2, <1>3, TryopShape

\* The undo table never holds more than TGC_SEM_STORE_MAX_UNDO entries, by whichever
\* calls: the count that tryop makes before it commits is that of the entries the
\* commit adds, and nothing else adds any.
THEOREM UndoFits == Spec => []UndoBounded
<1> DEFINE Room == UndoRoomIn(store)
<1>1. Init => Room
  BY FS_EmptySet, StoreAssumption DEF Init, EmptyStore, UndoRoomIn, StoreAssumption
<1>2. TypeOK /\ Room /\ [Next]_vars => Room'
  <2> SUFFICES ASSUME TypeOK, Room, [Next]_vars PROVE UndoRoomIn(store')
    BY DEF UndoRoomIn
  <2>1. StoreTypeOK(store) /\ UndoRoomIn(store)  BY DEF TypeOK
  <2>2. CASE UNCHANGED vars  BY <2>1, <2>2 DEF vars
  <2>3. CASE Get
    <3>1. PICK key \in Keys, nsems \in SetSizes, flags \in GetFlags,
               identity \in Identities, allocated \in BOOLEAN :
               store' = get_as(store, key, nsems, flags, identity, allocated).st
      BY <2>3 DEF Get, GetCall
    <3>2. store'.undo \subseteq store.undo  BY <2>1, <3>1, GetKeepsUndo
    <3> QED  BY <2>1, <3>2, FewerKeepRoom
  <2>4. CASE RemoveSet
    <3>1. PICK semid \in Semids : store' = remove(store, semid).st
      BY <2>4 DEF RemoveSet
    <3>2. store'.undo \subseteq store.undo  BY <2>1, <3>1, Inputs, RemoveDropsUndo
    <3> QED  BY <2>1, <3>2, FewerKeepRoom
  <2>5. CASE Tryop
    <3>1. PICK semid \in Semids, ops \in OpArrays, pid \in Pids :
               store' = tryop(store, semid, ops, pid).st
      BY <2>5 DEF Tryop
    <3> QED  BY <2>1, <3>1, Inputs, TryopRoom
  <2>6. CASE SetMetadata \/ Setval \/ Setall \/ AdjustWaitCount \/ ProcessExit
    <3>1. store'.undo \subseteq store.undo  BY <2>1, <2>6, PlainStep
    <3> QED  BY <2>1, <3>1, FewerKeepRoom
  <2> QED  BY <2>2, <2>3, <2>4, <2>5, <2>6 DEF Next
<1>3. Room => UndoBounded  BY DEF UndoRoomIn, UndoBounded
<1> QED  BY <1>1, <1>2, <1>3, TypeCorrect, PTL DEF Spec

-----------------------------------------------------------------------------
(* KeyUnique.                                                               *)

LEMMA ShapeKeepsKeys ==
    ASSUME NEW st, NEW new, SameShape(st, new), KeyUniqueIn(st)
    PROVE  KeyUniqueIn(new)
BY DEF SameShape, SameSet, KeyUniqueIn

LEMMA GetKeyUnique ==
    ASSUME NEW st, StoreTypeOK(st), NEW key, NEW nsems, NEW flags, NEW identity,
           NEW allocated, KeyUniqueIn(st)
    PROVE  KeyUniqueIn(get_as(st, key, nsems, flags, identity, allocated).st)
<1> DEFINE new == get_as(st, key, nsems, flags, identity, allocated).st
           i == free_set(st)
<1> SUFFICES KeyUniqueIn(new)  OBVIOUS
<1>1. CASE new = st  BY <1>1
<1>2. CASE new # st
  <2>0. Created(st, new, i, key)  BY <1>2, GetWrites, LeastIsFirst, Zenon
  <2> HIDE DEF i, new
  <2>1. /\ \A j \in Slots \ {i} : new.sets[j] = st.sets[j]
        /\ new.sets[i].key = key
        /\ key # IPC_PRIVATE => sets_with_key(st, key) = {}
    BY <2>0 DEF Created
  <2>2. \A j \in Slots \ {i} : st.sets[j].active /\ st.sets[j].key = key
                               => key = IPC_PRIVATE
    BY <2>1 DEF sets_with_key
  <2> QED  BY <2>1, <2>2 DEF KeyUniqueIn
<1> QED  BY <1>1, <1>2

LEMMA RemoveKeyUnique ==
    ASSUME NEW st, StoreTypeOK(st), NEW semid \in Int, KeyUniqueIn(st)
    PROVE  KeyUniqueIn(remove(st, semid).st)
<1> DEFINE new == remove(st, semid).st
           i == id_index(semid)
<1> SUFFICES KeyUniqueIn(new)  OBVIOUS
<1>1. CASE new = st  BY <1>1
<1>2. CASE new # st
  <2>1. ~new.sets[i].active /\ \A j \in Slots \ {i} : new.sets[j] = st.sets[j]
    BY <1>2, RemoveWrites
  <2> HIDE DEF i, new
  <2> QED  BY <2>1 DEF KeyUniqueIn
<1> QED  BY <1>1, <1>2

\* What a step does to the shape, in three cases.
LEMMA ShapeStep ==
    ASSUME StoreTypeOK(store), Next
    PROVE  \/ \E key \in Keys, nsems \in SetSizes, flags \in GetFlags,
                 identity \in Identities, allocated \in BOOLEAN :
                    GetCall(key, nsems, flags, identity, allocated)
           \/ /\ \E semid \in Semids : store' = remove(store, semid).st
              /\ issued' = issued
           \/ SameShape(store, store') /\ issued' = issued
<1>1. CASE Get  BY <1>1 DEF Get
<1>2. CASE RemoveSet  BY <1>2 DEF RemoveSet
<1>3. CASE Tryop
  <2>1. PICK semid \in Semids, ops \in OpArrays, pid \in Pids :
             store' = tryop(store, semid, ops, pid).st /\ issued' = issued
    BY <1>3 DEF Tryop
  <2>2. SameShape(store, store')  BY <2>1, Inputs, TryopShape
  <2> QED  BY <2>1, <2>2
<1>4. CASE SetMetadata \/ Setval \/ Setall \/ AdjustWaitCount \/ ProcessExit
  <2>1. issued' = issued
    BY <1>4, Zenon DEF SetMetadata, Setval, Setall, AdjustWaitCount, ProcessExit
  <2> QED  BY <1>4, <2>1, PlainStep
<1> QED  BY <1>1, <1>2, <1>3, <1>4 DEF Next

\* A key never names two sets (tgc_sem_store_get_as, tgc_sem_store_remove).
THEOREM KeysUnique == Spec => []KeyUnique
<1>1. Init => KeyUnique  BY DEF Init, EmptyStore, EmptySet, KeyUnique, KeyUniqueIn
<1>2. TypeOK /\ KeyUnique /\ [Next]_vars => KeyUnique'
  <2> SUFFICES ASSUME TypeOK, KeyUnique, [Next]_vars PROVE KeyUniqueIn(store')
    BY DEF KeyUnique, KeyUniqueIn
  <2>1. StoreTypeOK(store) /\ KeyUniqueIn(store)  BY DEF TypeOK, KeyUnique
  <2>2. CASE UNCHANGED vars  BY <2>1, <2>2 DEF vars
  <2>3. CASE Next
    <3>1. CASE \E key \in Keys, nsems \in SetSizes, flags \in GetFlags,
                  identity \in Identities, allocated \in BOOLEAN :
                     GetCall(key, nsems, flags, identity, allocated)
      <4>1. PICK key \in Keys, nsems \in SetSizes, flags \in GetFlags,
                 identity \in Identities, allocated \in BOOLEAN :
                 store' = get_as(store, key, nsems, flags, identity, allocated).st
        BY <3>1 DEF GetCall
      <4> QED  BY <2>1, <4>1, GetKeyUnique
    <3>2. CASE \E semid \in Semids : store' = remove(store, semid).st
      BY <2>1, <3>2, Inputs, RemoveKeyUnique
    <3>3. CASE SameShape(store, store')  BY <2>1, <3>3, ShapeKeepsKeys
    <3> QED  BY <2>1, <2>3, <3>1, <3>2, <3>3, ShapeStep
  <2> QED  BY <2>2, <2>3
<1> QED  BY <1>1, <1>2, TypeCorrect, PTL DEF Spec

-----------------------------------------------------------------------------
(* NoEarlyIdReuse.                                                          *)

\* d generations after g.
GenerationAfter(g, d) == IF g + d <= MaxGeneration THEN g + d ELSE g + d - MaxGeneration

\* The identifiers ids of a slot come from its generations in their cyclic
\* order, and the generation of the slot is where this has arrived.
SlotHistory(i, set, ids) ==
    /\ \A n \in 1..Len(ids) : /\ id_generation(ids[n]) \in 1..MaxGeneration
                              /\ ids[n] = make_id(i, id_generation(ids[n]))
    /\ \A m, n \in 1..Len(ids) : m < n /\ n - m < MaxGeneration =>
          id_generation(ids[n]) = GenerationAfter(id_generation(ids[m]), n - m)
    /\ Len(ids) = 0 => ~set.active /\ set.generation = 0
    /\ Len(ids) # 0 =>
          set.generation = IF set.active THEN id_generation(ids[Len(ids)])
                           ELSE next_generation(id_generation(ids[Len(ids)]))

\* Inductive invariant behind NoEarlyIdReuse.
IdHistory == \A i \in Slots : SlotHistory(i, store.sets[i], issued[i])

LEMMA NextIsAfter ==
    ASSUME NEW g \in 1..MaxGeneration, NEW d \in Nat, d + 1 < MaxGeneration
    PROVE  /\ next_generation(g) = GenerationAfter(g, 1)
           /\ next_generation(GenerationAfter(g, d)) = GenerationAfter(g, d + 1)
BY StoreAssumption DEF StoreAssumption, next_generation, GenerationAfter

LEMMA AfterDiffers ==
    ASSUME NEW g \in 1..MaxGeneration, NEW d \in Nat, 0 < d, d < MaxGeneration
    PROVE  GenerationAfter(g, d) # g
BY StoreAssumption DEF StoreAssumption, GenerationAfter

\* A slot that is free extends its history by the generation it has reached.
LEMMA HistoryGrows ==
    ASSUME NEW i \in Slots, NEW set, NEW new, NEW ids \in Seq(Int),
           SlotHistory(i, set, ids), ~set.active, new.active,
           new.generation = IF set.generation = 0 THEN 1 ELSE set.generation
    PROVE  SlotHistory(i, new, Append(ids, make_id(i, new.generation)))
<1> DEFINE k == Len(ids)
           g == new.generation
           id == make_id(i, g)
           more == Append(ids, id)
           last == id_generation(ids[k])
<1>1. k \in Nat  OBVIOUS
<1>2. k # 0 => last \in 1..MaxGeneration /\ set.generation = next_generation(last)
  BY <1>1 DEF SlotHistory
<1>3. k # 0 => g = next_generation(last) /\ g \in 1..MaxGeneration
  <2>1. CASE k # 0
    <3>1. last \in 0..MaxGeneration  BY <1>2, <2>1
    <3>2. next_generation(last) \in 1..MaxGeneration  BY <3>1, NextGenerationRange
    <3> QED  BY <1>2, <2>1, <3>2
  <2> QED  BY <2>1
<1>4. k = 0 => g = 1  BY DEF SlotHistory
<1>5. g \in 1..MaxGeneration
  BY <1>1, <1>3, <1>4, StoreAssumption DEF StoreAssumption
<1>6. id \in Int /\ id_generation(id) = g  BY <1>5, IdRoundTrip
<1>7. /\ Len(more) = k + 1 /\ more[k + 1] = id
      /\ \A n \in 1..k : more[n] = ids[n]
  BY <1>6
<1>8. \A n \in 1..(k + 1) : /\ id_generation(more[n]) \in 1..MaxGeneration
                            /\ more[n] = make_id(i, id_generation(more[n]))
  <2> SUFFICES ASSUME NEW n \in 1..(k + 1)
               PROVE  /\ id_generation(more[n]) \in 1..MaxGeneration
                      /\ more[n] = make_id(i, id_generation(more[n]))
    OBVIOUS
  <2>1. CASE n = k + 1  BY <1>5, <1>6, <1>7, <2>1
  <2>2. CASE n # k + 1
    <3>1. n \in 1..k  BY <1>1, <2>2
    <3> QED  BY <1>7, <3>1 DEF SlotHistory
  <2> QED  BY <2>1, <2>2
<1>9. ASSUME NEW m \in 1..(k + 1), NEW n \in 1..(k + 1), m < n, n - m < MaxGeneration
      PROVE  id_generation(more[n]) = GenerationAfter(id_generation(more[m]), n - m)
  <2>1. m \in 1..k  BY <1>1, <1>9
  <2>2. CASE n # k + 1
    <3>1. n \in 1..k  BY <1>1, <2>2
    <3> QED  BY <1>7, <1>9, <2>1, <3>1 DEF SlotHistory
  <2>3. CASE n = k + 1
    <3> DEFINE h == id_generation(ids[m])
    <3>1. h \in 1..MaxGeneration  BY <2>1 DEF SlotHistory
    <3>2. g = next_generation(last)  BY <1>3, <2>1
    <3>3. CASE m = k
      <4>1. n - m = 1 /\ 0 + 1 < MaxGeneration  BY <1>1, <1>9, <2>3, <3>3
      <4>2. next_generation(h) = GenerationAfter(h, 1)
        BY <3>1, <4>1, NextIsAfter, Zenon
      <4> QED  BY <1>6, <1>7, <2>1, <2>3, <3>2, <3>3, <4>1, <4>2
    <3>4. CASE m # k
      <4>1. /\ k - m \in Nat /\ m < k /\ k \in 1..k /\ k - m < MaxGeneration
            /\ (k - m) + 1 < MaxGeneration /\ n - m = (k - m) + 1
        BY <1>1, <1>9, <2>1, <2>3, <3>4, StoreAssumption DEF StoreAssumption
      <4>2. last = GenerationAfter(h, k - m)  BY <2>1, <4>1 DEF SlotHistory
      <4>3. next_generation(GenerationAfter(h, k - m)) = GenerationAfter(h, (k - m) + 1)
        BY <3>1, <4>1, NextIsAfter
      <4> QED  BY <1>6, <1>7, <2>1, <2>3, <3>2, <4>1, <4>2, <4>3
    <3> QED  BY <3>3, <3>4
  <2> QED  BY <2>2, <2>3
<1>10. Len(more) # 0 /\ g = id_generation(more[Len(more)])  BY <1>1, <1>6, <1>7
<1> HIDE DEF k, id, more
<1>11. SlotHistory(i, new, more)
  BY <1>7, <1>8, <1>9, <1>10 DEF SlotHistory
<1> QED  BY <1>11 DEF more, id

LEMMA GetHistory ==
    ASSUME TypeOK, IdHistory,
           NEW key \in Keys, NEW nsems \in SetSizes, NEW flags \in GetFlags,
           NEW identity \in Identities, NEW allocated \in BOOLEAN,
           GetCall(key, nsems, flags, identity, allocated)
    PROVE  IdHistory'
<1> DEFINE r == get_as(store, key, nsems, flags, identity, allocated)
           i == free_set(store)
           g == fresh_generation(store, i)
<1>1. store' = r.st /\ issued' = IF r.st = store THEN issued
                      ELSE [issued EXCEPT ![id_index(r.ret)] = Append(@, r.ret)]
  BY DEF GetCall
<1>2. CASE r.st = store  BY <1>1, <1>2 DEF IdHistory
<1>3. CASE r.st # store
  <2>1. StoreTypeOK(store)  BY DEF TypeOK
  <2>0. Created(store, r.st, i, key)  BY <1>3, <2>1, GetWrites, LeastIsFirst, Zenon
  <2>2. /\ i \in Slots /\ ~store.sets[i].active /\ r.st.sets[i].active
        /\ \A j \in Slots \ {i} : r.st.sets[j] = store.sets[j]
        /\ r.st.sets[i].generation = g
    <3> HIDE DEF r, i
    <3> QED  BY <2>0 DEF Created
  <2>3. r.ret = make_id(i, g) /\ g \in 1..MaxGeneration
    <3>1. /\ g \in 1..MaxGeneration
          /\ r = [ret |-> make_id(i, g),
                  st |-> [store EXCEPT !.sets[i] = new_set(g, key, nsems, flags, identity)]]
      BY <1>3, <2>1, GetCreates, LeastIsFirst
    <3> HIDE DEF r
    <3> QED  BY <3>1
  <2>4. id_index(r.ret) = i  BY <2>2, <2>3, IdRoundTrip, Zenon
  <2>5. /\ store' = r.st
        /\ issued' = [issued EXCEPT ![i] = Append(@, make_id(i, g))]
    BY <1>1, <1>3, <2>3, <2>4
  <2>6. issued \in [Slots -> Seq(Int)]  BY DEF TypeOK
  <2>7. g = IF store.sets[i].generation = 0 THEN 1 ELSE store.sets[i].generation
    BY DEF fresh_generation
  <2> HIDE DEF r, i, g
  <2>8. ASSUME NEW j \in Slots
        PROVE  SlotHistory(j, store'.sets[j], issued'[j])
    <3>1. CASE j # i  BY <2>2, <2>5, <2>6, <2>8, <3>1, Zenon DEF IdHistory
    <3>2. CASE j = i
      <4>1. SlotHistory(i, store.sets[i], issued[i]) /\ issued[i] \in Seq(Int)
        BY <2>2, <2>6 DEF IdHistory
      <4>2. issued'[i] = Append(issued[i], make_id(i, g))  BY <2>2, <2>5, <2>6
      <4>3. store'.sets[i].active /\ store'.sets[i].generation = g  BY <2>2, <2>5
      <4>4. SlotHistory(i, store'.sets[i], Append(issued[i], make_id(i, store'.sets[i].generation)))
        BY <2>2, <2>7, <4>1, <4>3, HistoryGrows
      <4> QED  BY <3>2, <4>2, <4>3, <4>4
    <3> QED  BY <3>1, <3>2, Zenon
  <2> QED  BY <2>8 DEF IdHistory
<1> QED  BY <1>2, <1>3

LEMMA RemoveHistory ==
    ASSUME TypeOK, IdHistory, NEW semid \in Int,
           store' = remove(store, semid).st, issued' = issued
    PROVE  IdHistory'
<1> DEFINE i == id_index(semid)
<1>1. CASE store' = store  BY <1>1 DEF IdHistory
<1>2. CASE store' # store
  <2>1. StoreTypeOK(store)  BY DEF TypeOK
  <2>2. /\ find_set(store, semid) /\ i \in Slots /\ ~store'.sets[i].active
        /\ \A j \in Slots \ {i} : store'.sets[j] = store.sets[j]
        /\ store'.sets[i].generation = next_generation(store.sets[i].generation)
    BY <1>2, <2>1, RemoveWrites
  <2>3. store.sets[i].active  BY <2>2 DEF find_set, SetOf
  <2> HIDE DEF i
  <2>4. ASSUME NEW j \in Slots
        PROVE  SlotHistory(j, store'.sets[j], issued[j])
    <3>1. CASE j # i  BY <2>2, <3>1 DEF IdHistory
    <3>2. CASE j = i
      <4>1. SlotHistory(i, store.sets[i], issued[i])  BY <2>2 DEF IdHistory
      <4> QED  BY <2>2, <2>3, <3>2, <4>1, Zenon DEF SlotHistory
    <3> QED  BY <3>1, <3>2
  <2> QED  BY <2>4 DEF IdHistory
<1> QED  BY <1>1, <1>2

LEMMA HistoryStep ==
    ASSUME TypeOK, IdHistory, [Next]_vars
    PROVE  IdHistory'
<1>1. StoreTypeOK(store)  BY DEF TypeOK
<1>2. CASE UNCHANGED vars  BY <1>2 DEF vars, IdHistory
<1>3. CASE Next
  <2>1. CASE \E key \in Keys, nsems \in SetSizes, flags \in GetFlags,
                identity \in Identities, allocated \in BOOLEAN :
                   GetCall(key, nsems, flags, identity, allocated)
    BY <2>1, GetHistory
  <2>2. CASE /\ \E semid \in Semids : store' = remove(store, semid).st
             /\ issued' = issued
    BY <2>2, Inputs, RemoveHistory
  <2>3. CASE SameShape(store, store') /\ issued' = issued
    BY <2>3 DEF SameShape, SameSet, IdHistory, SlotHistory
  <2> QED  BY <1>1, <1>3, <2>1, <2>2, <2>3, ShapeStep
<1> QED  BY <1>2, <1>3

\* Generation-safe identifiers for any number of slots, generations and
\* creations: an identifier comes back only MaxGeneration creations later.
THEOREM IdsNotReusedEarly == Spec => []NoEarlyIdReuse
<1>1. Init => IdHistory
  <2> SUFFICES ASSUME Init, NEW i \in Slots
               PROVE  SlotHistory(i, store.sets[i], issued[i])
    BY DEF IdHistory
  <2>1. store.sets[i] = EmptySet(0)  BY DEF Init, EmptyStore
  <2>2. ~store.sets[i].active /\ store.sets[i].generation = 0  BY <2>1 DEF EmptySet
  <2>3. issued[i] = <<>> /\ Len(issued[i]) = 0  BY DEF Init
  <2>4. 1..Len(issued[i]) = {}  BY <2>3
  <2> QED  BY <2>2, <2>3, <2>4, Zenon DEF SlotHistory
<1>2. TypeOK /\ IdHistory /\ [Next]_vars => IdHistory'  BY HistoryStep
<1>3. TypeOK /\ IdHistory => NoEarlyIdReuse
  <2> SUFFICES ASSUME TypeOK, IdHistory, NEW i \in Slots,
                      NEW m \in DOMAIN issued[i], NEW n \in DOMAIN issued[i],
                      m < n, n - m < MaxGeneration
               PROVE  issued[i][m] # issued[i][n]
    BY DEF NoEarlyIdReuse
  <2>1. issued[i] \in Seq(Int)  BY DEF TypeOK
  <2>2. m \in 1..Len(issued[i]) /\ n \in 1..Len(issued[i])  BY <2>1
  <2> DEFINE g == id_generation(issued[i][m])
  <2>3. /\ g \in 1..MaxGeneration
        /\ id_generation(issued[i][n]) = GenerationAfter(g, n - m)
    BY <2>2 DEF IdHistory, SlotHistory
  <2>4. n - m \in Nat /\ 0 < n - m  BY <2>1, <2>2
  <2>5. GenerationAfter(g, n - m) # g  BY <2>3, <2>4, AfterDiffers
  <2> QED  BY <2>3, <2>5
<1> QED  BY <1>1, <1>2, <1>3, TypeCorrect, PTL DEF Spec

=============================================================================
