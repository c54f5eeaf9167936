---------------------------- MODULE SemStoreOps ----------------------------
(***************************************************************************)
(* The in-memory semaphore store of the broker (src/src/sem_store.c): one  *)
(* operator per function of the C interface.  An operator takes the store  *)
(* and the arguments of the call and yields [ret, st]: the C return value  *)
(* and the store after the call.                                           *)
(*                                                                         *)
(* A store is [sets, undo]: the array of semaphore sets and the active     *)
(* entries of the undo table.  The position of an entry in the undo table  *)
(* is never read back by the code, so the table is a set of entries; its   *)
(* capacity is kept.  The time stamps otime and ctime are left out.        *)
(***************************************************************************)
EXTENDS Errno, Sequences, FiniteSets, FiniteSetsExt

CONSTANTS MaxSets,        \* TGC_SEM_MAX_SETS, 128
          MaxPerSet,      \* TGC_SEM_MAX_PER_SET, 512
          MaxValue,       \* TGC_SEM_MAX_VALUE, 32767
          MaxUndo,        \* TGC_SEM_MAX_UNDO_ENTRIES, 4096
          MaxGeneration,  \* SEM_ID_MAX_GENERATION, 32767
          MaxWaiters,     \* UINT32_MAX, the limit of a waiter count
          Pids            \* process IDs of the clients

ASSUME StoreAssumption ==
    /\ MaxSets \in Nat \ {0} /\ MaxSets <= 65535
    /\ MaxPerSet \in Nat \ {0}
    /\ MaxValue \in Nat \ {0}
    /\ MaxUndo \in Nat
    /\ MaxGeneration \in Nat \ {0} /\ MaxGeneration <= 32767
    /\ MaxWaiters \in Nat \ {0}
    /\ Pids \subseteq Nat \ {0}

IPC_PRIVATE == 0
AllowedFlags == {"IPC_NOWAIT", "SEM_UNDO"}

Slots == 0..(MaxSets - 1)
Sems(n) == 0..(n - 1)
Permissions == 0..511  \* octal 0777
AdjRange == (-MaxValue - 1)..MaxValue

\* An empty slot: what calloc leaves at creation and remove leaves behind.
EmptySet(generation) ==
    [active |-> FALSE, generation |-> generation, key |-> 0, nsems |-> 0,
     uid |-> 0, gid |-> 0, cuid |-> 0, cgid |-> 0, mode |-> 0,
     values           |-> [s \in Sems(0) |-> 0],
     last_pids        |-> [s \in Sems(0) |-> 0],
     negative_waiters |-> [s \in Sems(0) |-> 0],
     zero_waiters     |-> [s \in Sems(0) |-> 0]]

EmptyStore == [sets |-> [i \in Slots |-> EmptySet(0)], undo |-> {}]

-----------------------------------------------------------------------------
(* Identifiers: generation in the high half, slot index + 1 in the low.     *)

make_id(index, generation) == generation * 65536 + (index + 1)

id_index(semid) == (semid % 65536) - 1

id_generation(semid) == semid \div 65536

decodes(semid) ==
    /\ semid > 0
    /\ id_index(semid) \in Slots
    /\ id_generation(semid) # 0

\* find_set yields a set exactly for the semids that are live.
find_set(st, semid) ==
    /\ decodes(semid)
    /\ st.sets[id_index(semid)].active
    /\ st.sets[id_index(semid)].generation = id_generation(semid)

SetOf(st, semid) == st.sets[id_index(semid)]

has_sem(st, semid, semnum) ==
    find_set(st, semid) /\ semnum \in Sems(SetOf(st, semid).nsems)

\* Mutants: a wrap one too early; the generation is kept.
next_generation_early(generation) ==
    IF generation >= MaxGeneration - 1 THEN 1 ELSE generation + 1
next_generation_kept(generation) == generation

next_generation(generation) ==
    IF generation >= MaxGeneration THEN 1 ELSE generation + 1

Fail(st, err) == [ret |-> err, st |-> st]

-----------------------------------------------------------------------------
(* The undo table.                                                          *)

find_undo_entry(st, pid, semid, semnum) ==
    {e \in st.undo : e.pid = pid /\ e.semid = semid /\ e.semnum = semnum}

\* The accumulated adjustment; a semaphore without an entry has none.
Adjustment(st, pid, semid, semnum) ==
    LET found == find_undo_entry(st, pid, semid, semnum)
    IN  IF found = {} THEN 0 ELSE (CHOOSE e \in found : TRUE).adjustment

\* Mutant: all_semaphores is ignored.
clear_undo_entries_one(st, semid, semnum, all_semaphores) ==
    {e \in st.undo : ~(e.semid = semid /\ e.semnum = semnum)}

clear_undo_entries(st, semid, semnum, all_semaphores) ==
    {e \in st.undo : ~(e.semid = semid /\ (all_semaphores \/ e.semnum = semnum))}

-----------------------------------------------------------------------------
(* semget, IPC_RMID, IPC_SET.                                               *)

\* Mutant: the search ends at the first free slot.
sets_with_key_prefix(st, key) ==
    {i \in Slots : st.sets[i].key = key /\ \A j \in 0..i : st.sets[j].active}

sets_with_key(st, key) == {i \in Slots : st.sets[i].active /\ st.sets[i].key = key}

inactive_sets(st) == {i \in Slots : ~st.sets[i].active}

free_set(st) == Min(inactive_sets(st))

\* The generation of the next set of slot i.
fresh_generation(st, i) == IF st.sets[i].generation = 0 THEN 1 ELSE st.sets[i].generation

new_set(generation, key, nsems, flags, identity) ==
    LET zeros == [s \in Sems(nsems) |-> 0]
    IN  [active |-> TRUE, generation |-> generation, key |-> key, nsems |-> nsems,
         uid |-> identity.uid, gid |-> identity.gid,
         cuid |-> identity.uid, cgid |-> identity.gid, mode |-> flags.mode,
         values |-> zeros, last_pids |-> zeros,
         negative_waiters |-> zeros, zero_waiters |-> zeros]

\* flags is [creat, excl, mode]; allocated says whether calloc succeeded.
get_as(st, key, nsems, flags, identity, allocated) ==
    LET found == Min(sets_with_key(st, key))
        i == free_set(st)
        generation == fresh_generation(st, i)
    IN  IF key # IPC_PRIVATE /\ sets_with_key(st, key) # {}
        THEN Fail(st, IF flags.creat /\ flags.excl THEN EEXIST
                      ELSE IF nsems < 0 \/ nsems > st.sets[found].nsems
                      THEN EINVAL
                      ELSE make_id(found, st.sets[found].generation))
        ELSE IF key # IPC_PRIVATE /\ ~flags.creat THEN Fail(st, ENOENT)
        ELSE IF nsems \notin 1..MaxPerSet THEN Fail(st, EINVAL)
        ELSE IF inactive_sets(st) = {} THEN Fail(st, ENOSPC)
        ELSE IF ~allocated THEN Fail(st, ENOMEM)
        ELSE [ret |-> make_id(i, generation),
              st  |-> [st EXCEPT !.sets[i] =
                          new_set(generation, key, nsems, flags, identity)]]

remove(st, semid) ==
    IF ~find_set(st, semid) THEN Fail(st, EINVAL)
    ELSE LET i == id_index(semid)
             set == st.sets[i]
         IN  [ret |-> OK,
              st  |-> [sets |-> [st.sets EXCEPT
                                 ![i] = EmptySet(next_generation(set.generation))],
                       undo |-> clear_undo_entries(st, semid, 0, TRUE)]]

set_metadata(st, semid, uid, gid, mode, actor) ==
    LET set == SetOf(st, semid)
    IN  IF ~find_set(st, semid) THEN Fail(st, EINVAL)
        ELSE IF \/ actor.uid \notin {set.uid, set.cuid}
                \/ uid # set.uid
                \/ gid \notin {set.gid, actor.gid}
                \/ mode \notin Permissions
        THEN Fail(st, EPERM)
        ELSE [ret |-> OK,
              st  |-> [st EXCEPT !.sets[id_index(semid)] =
                                 [@ EXCEPT !.gid = gid, !.mode = mode]]]

-----------------------------------------------------------------------------
(* GETVAL, GETPID, GETNCNT, GETZCNT, SETVAL, SETALL and the waiter counts.  *)

getval(st, semid, semnum) ==
    IF has_sem(st, semid, semnum) THEN SetOf(st, semid).values[semnum] ELSE EINVAL

getpid(st, semid, semnum) ==
    IF has_sem(st, semid, semnum) THEN SetOf(st, semid).last_pids[semnum] ELSE EINVAL

WaitersField(wait_for_zero) ==
    IF wait_for_zero THEN "zero_waiters" ELSE "negative_waiters"

get_wait_count(st, semid, semnum, wait_for_zero) ==
    IF has_sem(st, semid, semnum)
    THEN SetOf(st, semid)[WaitersField(wait_for_zero)][semnum] ELSE EINVAL

setval(st, semid, semnum, value, pid) ==
    IF ~has_sem(st, semid, semnum) THEN Fail(st, EINVAL)
    ELSE IF value > MaxValue THEN Fail(st, ERANGE)
    ELSE [ret |-> OK,
          st  |-> [sets |-> [st.sets EXCEPT ![id_index(semid)] =
                       [@ EXCEPT !.values[semnum] = value,
                                 !.last_pids[semnum] = pid]],
                   undo |-> clear_undo_entries(st, semid, semnum, FALSE)]]

\* values is a function on 0..count-1.
setall(st, semid, values, pid) ==
    IF \/ ~find_set(st, semid)
       \/ DOMAIN values # Sems(SetOf(st, semid).nsems)
    THEN Fail(st, EINVAL)
    ELSE IF \E s \in DOMAIN values : values[s] > MaxValue THEN Fail(st, ERANGE)
    ELSE [ret |-> OK,
          st  |-> [sets |-> [st.sets EXCEPT ![id_index(semid)] =
                       [@ EXCEPT !.values = values,
                                 !.last_pids = [s \in DOMAIN values |-> pid]]],
                   undo |-> clear_undo_entries(st, semid, 0, TRUE)]]

\* adjustment is 1 or -1.
adjust_wait_count(st, semid, semnum, wait_for_zero, adjustment) ==
    LET field == WaitersField(wait_for_zero)
        count == SetOf(st, semid)[field][semnum] + adjustment
    IN  IF ~has_sem(st, semid, semnum) THEN Fail(st, EINVAL)
        ELSE IF count \notin 0..MaxWaiters THEN Fail(st, ERANGE)
        ELSE [ret |-> OK,
              st  |-> [st EXCEPT !.sets[id_index(semid)] =
                                 [@ EXCEPT ![field][semnum] = count]]]

-----------------------------------------------------------------------------
(* Process exit: every entry of the process is added to its semaphore,      *)
(* clamped to the value range, and dropped.  A process has at most one      *)
(* entry per semaphore, so the order of the table does not matter.          *)

\* Mutant: no clamp.
NoClamp(value) == value

Clamp(value) == IF value < 0 THEN 0 ELSE IF value > MaxValue THEN MaxValue ELSE value

\* Slot i after the exit of pid.
RestoredSet(st, pid, i) ==
    LET set == st.sets[i]
        semid == make_id(i, set.generation)
    IN  IF ~set.active THEN set
        ELSE [set EXCEPT
                !.values = [s \in Sems(set.nsems) |->
                    Clamp(set.values[s] + Adjustment(st, pid, semid, s))],
                !.last_pids = [s \in Sems(set.nsems) |->
                    IF find_undo_entry(st, pid, semid, s) = {}
                    THEN set.last_pids[s] ELSE pid]]

process_exit(st, pid) ==
    LET mine == {e \in st.undo : e.pid = pid}
    IN  [ret |-> IF \E e \in mine : has_sem(st, e.semid, e.semnum) THEN 1 ELSE 0,
         st  |-> [sets |-> [i \in Slots |-> RestoredSet(st, pid, i)],
                  undo |-> st.undo \ mine]]

-----------------------------------------------------------------------------
(* semop.  ops is a sequence of [sem_num, sem_op, sem_flg], sem_flg a set.  *)

\* The working copy after 0, 1, .. Len(ops) operations.
WorkingCopies(values, ops) ==
    LET after[k \in 0..Len(ops)] ==
            IF k = 0 THEN values
            ELSE [after[k - 1] EXCEPT ![ops[k].sem_num] = @ + ops[k].sem_op]
    IN  after

Working(values, ops, n) == [s \in DOMAIN values |-> WorkingCopies(values, ops)[n][s]]

\* Operation n cannot be performed after the ones before it: its semaphore
\* would leave the value range, or it waits for a zero that is not there.
Stops(values, ops, n) ==
    LET after == Working(values, ops, n)
    IN  \/ \E s \in DOMAIN values : after[s] \notin 0..MaxValue
        \/ ops[n].sem_op = 0 /\ after[ops[n].sem_num] # 0

Stopped(values, ops) == {n \in 1..Len(ops) : Stops(values, ops, n)}

StoppingOp(values, ops) == ops[Min(Stopped(values, ops))]

StopVerdict(op) ==
    IF op.sem_op > 0 THEN ERANGE
    ELSE IF "IPC_NOWAIT" \in op.sem_flg THEN EAGAIN ELSE BLOCKED

\* The undo deltas after 0, 1, .. Len(ops) operations.
DeltaCopies(values, ops) ==
    LET after[k \in 0..Len(ops)] ==
            IF k = 0 THEN [s \in DOMAIN values |-> 0]
            ELSE IF "SEM_UNDO" \in ops[k].sem_flg
            THEN [after[k - 1] EXCEPT ![ops[k].sem_num] = @ - ops[k].sem_op]
            ELSE after[k - 1]
    IN  after

UndoDeltas(values, ops, n) == [s \in DOMAIN values |-> DeltaCopies(values, ops)[n][s]]

DeltasOverflow(values, ops) ==
    \E n \in 1..Len(ops) : \E s \in DOMAIN values :
        UndoDeltas(values, ops, n)[s] \notin AdjRange

Touched(delta) == {s \in DOMAIN delta : delta[s] # 0}

\* Mutant: the room in the table is not checked.
UndoVerdictNoRoom(st, semid, pid, delta) ==
    IF \E s \in Touched(delta) :
           Adjustment(st, pid, semid, s) + delta[s] \notin AdjRange
    THEN ERANGE ELSE OK

\* The checks of the undo table, once the values are known to be fine.
UndoVerdict(st, semid, pid, delta) ==
    LET required == {s \in Touched(delta) :
                        find_undo_entry(st, pid, semid, s) = {}}
    IN  IF \E s \in Touched(delta) :
               Adjustment(st, pid, semid, s) + delta[s] \notin AdjRange
        THEN ERANGE
        ELSE IF Cardinality(required) > MaxUndo - Cardinality(st.undo)
        THEN ENOSPC ELSE OK

\* Mutant: a new adjustment replaces the accumulated one.
MergeUndoReplaces(st, semid, pid, delta) ==
    LET Entry(s) == [pid |-> pid, semid |-> semid, semnum |-> s,
                     adjustment |-> delta[s]]
    IN  {e \in st.undo :
            ~(e.pid = pid /\ e.semid = semid /\ e.semnum \in Touched(delta))}
        \cup {Entry(s) : s \in Touched(delta)}

\* The undo table with the deltas added; an adjustment of zero has no entry.
MergeUndo(st, semid, pid, delta) ==
    LET Entry(s) == [pid |-> pid, semid |-> semid, semnum |-> s,
                     adjustment |-> Adjustment(st, pid, semid, s) + delta[s]]
    IN  {e \in st.undo :
            ~(e.pid = pid /\ e.semid = semid /\ e.semnum \in Touched(delta))}
        \cup {e \in {Entry(s) : s \in Touched(delta)} : e.adjustment # 0}

tryop_result(st, semid, ops, pid) ==
    LET set == SetOf(st, semid)
    IN  IF ~find_set(st, semid) \/ ops = <<>> THEN EINVAL
        ELSE IF \E n \in 1..Len(ops) : \/ ops[n].sem_num \notin Sems(set.nsems)
                                       \/ ~(ops[n].sem_flg \subseteq AllowedFlags)
        THEN EINVAL
        ELSE IF Stopped(set.values, ops) # {}
        THEN StopVerdict(StoppingOp(set.values, ops))
        ELSE IF DeltasOverflow(set.values, ops) THEN ERANGE
        ELSE UndoVerdict(st, semid, pid, UndoDeltas(set.values, ops, Len(ops)))

\* The wait reason of a call that found itself blocked.
wait_reason(st, semid, ops) ==
    LET op == StoppingOp(SetOf(st, semid).values, ops)
    IN  [sem_num |-> op.sem_num, wait_for_zero |-> op.sem_op = 0]

tryop(st, semid, ops, pid) ==
    LET ret == tryop_result(st, semid, ops, pid)
        set == SetOf(st, semid)
        used == {ops[n].sem_num : n \in 1..Len(ops)}
    IN  IF ret # OK THEN Fail(st, ret)
        ELSE [ret |-> OK,
              st  |-> [sets |-> [st.sets EXCEPT ![id_index(semid)] =
                          [set EXCEPT
                             !.values = Working(set.values, ops, Len(ops)),
                             !.last_pids = [s \in Sems(set.nsems) |->
                                 IF s \in used THEN pid ELSE set.last_pids[s]]]],
                       undo |-> MergeUndo(st, semid, pid,
                                    UndoDeltas(set.values, ops, Len(ops)))]]

-----------------------------------------------------------------------------
(* GETALL, IPC_STAT, SEM_STAT, IPC_INFO and SEM_INFO, which only read: [ret,  *)
(* data].  The fixed fields of struct tgc_sem_info are left out.             *)

\* Mutant: the count the caller expects is not compared.
getall_any_count(st, semid, count) ==
    IF find_set(st, semid) THEN [ret |-> OK, data |-> SetOf(st, semid).values]
    ELSE [ret |-> EINVAL, data |-> NoData]

getall(st, semid, count) ==
    IF find_set(st, semid) /\ count = SetOf(st, semid).nsems
    THEN [ret |-> OK, data |-> SetOf(st, semid).values]
    ELSE [ret |-> EINVAL, data |-> NoData]

metadata(set) ==
    [key |-> set.key, uid |-> set.uid, gid |-> set.gid, cuid |-> set.cuid,
     cgid |-> set.cgid, mode |-> set.mode, nsems |-> set.nsems,
     sequence |-> set.generation]

get_metadata(st, semid) ==
    IF find_set(st, semid) THEN [ret |-> OK, data |-> metadata(SetOf(st, semid))]
    ELSE [ret |-> EINVAL, data |-> NoData]

stat_index(st, index) ==
    IF index \in Slots /\ st.sets[index].active
    THEN [ret  |-> make_id(index, st.sets[index].generation),
          data |-> metadata(st.sets[index])]
    ELSE [ret |-> EINVAL, data |-> NoData]

info(st, dynamic) ==
    LET active == Slots \ inactive_sets(st)
    IN  [ret  |-> IF active = {} THEN 0 ELSE Max(active),
         data |-> IF dynamic
                  THEN [semusz |-> Cardinality(active),
                        semaem |-> SumFunction([i \in active |-> st.sets[i].nsems])]
                  ELSE [semusz |-> "sizeof", semaem |-> MaxValue]]

-----------------------------------------------------------------------------
(* The type of a store, an invariant of SemStore and of the broker.         *)

SetType(n) ==
    [active : BOOLEAN, generation : 0..MaxGeneration, key : Int, nsems : {n},
     uid : Nat, gid : Nat, cuid : Nat, cgid : Nat, mode : Permissions,
     values           : [Sems(n) -> 0..MaxValue],
     last_pids        : [Sems(n) -> {0} \cup Pids],
     negative_waiters : [Sems(n) -> 0..MaxWaiters],
     zero_waiters     : [Sems(n) -> 0..MaxWaiters]]

SetOK(set) == /\ \E n \in 0..MaxPerSet : set \in SetType(n)
              /\ set.active => set.generation # 0 /\ set.nsems # 0

UndoType == [pid : Pids, semid : Int, semnum : Nat, adjustment : AdjRange]

StoreTypeOK(st) == /\ st = [sets |-> st.sets, undo |-> st.undo]
                   /\ st.sets = [i \in Slots |-> st.sets[i]]
                   /\ \A i \in Slots : SetOK(st.sets[i])
                   /\ st.undo \subseteq UndoType

=============================================================================
