----------------------------- MODULE MCSemStore -----------------------------
(***************************************************************************)
(* A small instance of SemStore for TLC.  Undo entries and identifiers do  *)
(* not depend on each other's details, so a behaviour exercises the undo   *)
(* table with one slot, or the identifiers of two slots without undo: the  *)
(* state spaces add up instead of multiplying.                             *)
(***************************************************************************)
EXTENDS SemStore

VARIABLE about    \* what this behaviour exercises

MCInit == Init /\ about \in {"undo", "ids"}

\* Behaviours about undo use one slot, of one key, group and mode, with nobody
\* waiting.
UndoOnly(st) ==
    \A i \in Slots : st.sets[i].active =>
        /\ i = 0 /\ st.sets[i].key = 0 /\ st.sets[i].cuid = 1
        /\ st.sets[i].gid = 1 /\ st.sets[i].cgid = 1 /\ st.sets[i].mode = 384
        /\ \A s \in Sems(st.sets[i].nsems) : st.sets[i].negative_waiters[s] = 0

\* Behaviours about identifiers leave the semaphores alone.
IdsOnly(st) ==
    /\ st.undo = {}
    /\ \A i \in Slots : st.sets[i].active =>
         st.sets[i].nsems = 1 /\ st.sets[i].values[0] = 0 /\ st.sets[i].last_pids[0] = 0

MCNext == /\ Next
          /\ IF about = "undo" THEN UndoOnly(store') ELSE IdsOnly(store')
          /\ UNCHANGED about

MCSpec == MCInit /\ [][MCNext]_<<vars, about>>

Op(n, d, f) == [sem_num |-> n, sem_op |-> d, sem_flg |-> f]

AllSemids == {0, 65536 + MaxSets + 1} \cup {make_id(i, g) : i \in Slots, g \in 1..MaxGeneration}

AnyGet == {[creat |-> c, excl |-> e, mode |-> 384] : c, e \in BOOLEAN}

Callers == {[uid |-> 1, gid |-> 1], [uid |-> 1, gid |-> 2], [uid |-> 2, gid |-> 2]}

AnySize == {0, 1, 2, 3}

U == {"SEM_UNDO"}

\* Arrays of one and two operations: plain, undone, waiting for zero, doubled
\* on one semaphore, cancelling each other, crossing two semaphores.
UndoArrays == { <<>>, <<Op(0, 1, {"OTHER"})>>, <<Op(0, 1, {})>>, <<Op(0, 0, {})>>,
                <<Op(0, 2, U)>>, <<Op(0, 1, U)>>, <<Op(0, -1, U)>>,
                <<Op(0, -1, U), Op(0, -1, U)>>, <<Op(0, 1, U), Op(0, -1, U)>>,
                <<Op(0, -1, U), Op(1, 1, U)>>, <<Op(1, -1, U), Op(0, -1, {})>>,
                <<Op(1, 2, {}), Op(1, -2, {"IPC_NOWAIT"}), Op(0, 1, U)>> }

=============================================================================
