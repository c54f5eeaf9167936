------------------------------ MODULE SemStore ------------------------------
(***************************************************************************)
(* The semaphore store as a state machine: one action per function of      *)
(* include/tgcompat/sem_store.h that changes the store.  Calls are atomic  *)
(* here: the broker makes each of them under its state mutex.              *)
(***************************************************************************)
EXTENDS SemStoreOps

CONSTANTS Keys,        \* keys passed to semget, 0 is IPC_PRIVATE
          SetSizes,    \* nsems passed to semget
          GetFlags,    \* [creat, excl, mode] passed to semget
          Identities,  \* [uid, gid] of the callers
          Semids,      \* identifiers passed by callers, stale ones included
          SemNums,     \* semaphore numbers passed by callers
          Values,      \* values passed to SETVAL and SETALL
          OpArrays,    \* arrays passed to semop
          Modes,       \* modes passed to IPC_SET
          WaitKinds,   \* wait_for_zero passed to adjust_wait_count
          MaxCreates   \* bound: sets created in one slot

ASSUME InputAssumption ==
    /\ Keys \subseteq Int
    /\ SetSizes \subseteq Int
    /\ GetFlags \subseteq [creat : BOOLEAN, excl : BOOLEAN, mode : Permissions]
    /\ Identities \subseteq [uid : Nat, gid : Nat]
    /\ Semids \subseteq Int
    /\ SemNums \subseteq Nat
    /\ Values \subseteq Nat
    /\ OpArrays \subseteq Seq([sem_num : Nat, sem_op : Int,
                               sem_flg : SUBSET {"IPC_NOWAIT", "SEM_UNDO", "OTHER"}])
    /\ Modes \subseteq Nat
    /\ WaitKinds \subseteq BOOLEAN
    /\ MaxCreates \in Nat

VARIABLES store,   \* struct tgc_sem_store
          issued   \* history: the identifiers handed out for new sets, by slot

vars == <<store, issued>>

Init == /\ store = EmptyStore
        /\ issued = [i \in Slots |-> <<>>]

GetCall(key, nsems, flags, identity, allocated) ==
    LET r == get_as(store, key, nsems, flags, identity, allocated)
    IN  /\ \A i \in Slots : Len(issued[i]) < MaxCreates
        /\ store' = r.st
        /\ issued' = IF r.st = store THEN issued
                     ELSE [issued EXCEPT ![id_index(r.ret)] = Append(@, r.ret)]

Get == \E key \in Keys, nsems \in SetSizes, flags \in GetFlags,
          identity \in Identities, allocated \in BOOLEAN :
    GetCall(key, nsems, flags, identity, allocated)

RemoveSet == \E semid \in Semids :
    store' = remove(store, semid).st /\ UNCHANGED issued

SetMetadata == \E semid \in Semids, actor \in Identities, owner \in Identities,
                  mode \in Modes :
    /\ store' = set_metadata(store, semid, owner.uid, owner.gid, mode, actor).st
    /\ UNCHANGED issued

Setval == \E semid \in Semids, semnum \in SemNums, value \in Values, pid \in Pids :
    store' = setval(store, semid, semnum, value, pid).st /\ UNCHANGED issued

Setall == \E semid \in Semids, n \in SetSizes, pid \in Pids :
    /\ n > 0
    /\ \E values \in [Sems(n) -> Values] :
           store' = setall(store, semid, values, pid).st
    /\ UNCHANGED issued

AdjustWaitCount == \E semid \in Semids, semnum \in SemNums,
                      wait_for_zero \in WaitKinds, adjustment \in {-1, 1} :
    /\ store' = adjust_wait_count(store, semid, semnum, wait_for_zero, adjustment).st
    /\ UNCHANGED issued

ProcessExit == \E pid \in Pids :
    store' = process_exit(store, pid).st /\ UNCHANGED issued

Tryop == \E semid \in Semids, ops \in OpArrays, pid \in Pids :
    store' = tryop(store, semid, ops, pid).st /\ UNCHANGED issued

Next == \/ Get \/ RemoveSet \/ SetMetadata \/ Setval \/ Setall
        \/ AdjustWaitCount \/ ProcessExit \/ Tryop

Spec == Init /\ [][Next]_vars

-----------------------------------------------------------------------------
(* Types.                                                                   *)

\* Type invariant: the four arrays of a set always have the length nsems
\* says (sem_store.c indexes them with nothing but semnum < nsems), an active
\* set has a generation and a semaphore, values stay in 0..SEMVMX and
\* adjustments in the undo range.
TypeOK == /\ StoreTypeOK(store)
          /\ issued \in [Slots -> Seq(Int)]

-----------------------------------------------------------------------------
(* Safety.                                                                  *)

UndoLiveIn(st) ==
    /\ \A e \in st.undo : has_sem(st, e.semid, e.semnum) /\ e.adjustment # 0
    /\ \A e, f \in st.undo :
          e.pid = f.pid /\ e.semid = f.semid /\ e.semnum = f.semnum => e = f

\* Every undo entry belongs to a semaphore that exists now, is not a leftover
\* zero, and is the only one of its process for that semaphore.  A removal
\* that left entries behind would let process_exit change a later set that
\* gets the same identifier once the generation wraps.
UndoLive == UndoLiveIn(store)

\* The undo table never holds more entries than it has room for: the check
\* of tryop_detail counts the entries it needs before it commits anything,
\* so the -ENOSPC of the commit loop is unreachable.
UndoBounded == Cardinality(store.undo) <= MaxUndo

KeyUniqueIn(st) ==
    \A i, j \in Slots :
        /\ st.sets[i].active /\ st.sets[j].active
        /\ st.sets[i].key = st.sets[j].key /\ st.sets[i].key # IPC_PRIVATE
        => i = j

\* A key names at most one set, so that all semget callers of a key meet in
\* the same set, whatever the order of creations, removals and failures.
KeyUnique == KeyUniqueIn(store)

\* Generation-safe identifiers: a slot hands out the identifier of a removed
\* set again only after it has gone through all generations, also across the
\* wrap of next_generation.
NoEarlyIdReuse ==
    \A i \in Slots : \A m, n \in DOMAIN issued[i] :
        m < n /\ n - m < MaxGeneration => issued[i][m] # issued[i][n]

\* The value a semaphore would have if every process with undo entries exited.
Potential(st, semid, s) ==
    SetOf(st, semid).values[s]
    + MapThenSumSet(LAMBDA e : e.adjustment,
                    {e \in st.undo : e.semid = semid /\ e.semnum = s})

\* Conservation of SEM_UNDO: an array that touches a semaphore with SEM_UNDO
\* operations only leaves the value this semaphore returns to unchanged,
\* however its operations repeat, cancel or meet earlier adjustments; and the
\* exit of a process changes it by what would take the value below 0 or above
\* SEMVMX, and by nothing else.
UndoConserved ==
    \A semid \in {id \in Semids : find_set(store, id)}, pid \in Pids :
      \A s \in Sems(SetOf(store, semid).nsems) :
        /\ \A ops \in OpArrays :
              LET r == tryop(store, semid, ops, pid)
              IN  /\ r.ret = OK
                  /\ \A n \in DOMAIN ops :
                        ops[n].sem_num = s => "SEM_UNDO" \in ops[n].sem_flg
                  => Potential(r.st, semid, s) = Potential(store, semid, s)
        /\ LET r == process_exit(store, pid)
               full == getval(store, semid, s) + Adjustment(store, pid, semid, s)
               cut == CASE full < 0 -> full
                        [] full > MaxValue -> full - MaxValue
                        [] OTHER -> 0
           IN  Potential(r.st, semid, s) = Potential(store, semid, s) - cut

=============================================================================
