----------------------------- MODULE RobustShim -----------------------------
(***************************************************************************)
(* libtgcompat-robust.so (src/robust_shim.c): answers get_robust_list for  *)
(* the calling thread with a list head of its own, made at its first call, *)
(* into which the program then links the robust mutexes it holds; refuses  *)
(* userfaultfd; and forwards every other system call.                      *)
(***************************************************************************)
EXTENDS FiniteSets

CONSTANTS Workers,   \* threads of the program
          Mutexes

VARIABLES gates,     \* which of the two policies are on
          list,      \* synthetic_list: [Workers -> [made, linked]]
          holds,     \* the mutexes a thread holds
          answer     \* what a thread's last system call returned

robustvars == <<gates, list, holds, answer>>

NoList == [made |-> FALSE, linked |-> {}]

RobustInit ==
    /\ gates \in [robust : BOOLEAN, userfaultfd : BOOLEAN]
    /\ list = [w \in Workers |-> NoList]
    /\ holds = [w \in Workers |-> {}]
    /\ answer = [w \in Workers |-> "none"]

\* A head that is made anew at every call.
new_head(w) == [made |-> TRUE, linked |-> {}]

current_synthetic_head(w) == IF list[w].made THEN list[w] ELSE [made |-> TRUE, linked |-> {}]

\* get_robust_list for the process, 0 for the caller; "forward" is result 1.
emulate_get_robust_list(w, process, valid) ==
    IF process # 0 THEN [list |-> list[w], result |-> "forward"]
    ELSE IF ~valid THEN [list |-> list[w], result |-> "EFAULT"]
    ELSE [list |-> current_synthetic_head(w), result |-> "head"]

syscall(w, number, process, valid) ==
    LET emulated == emulate_get_robust_list(w, process, valid)
    IN  /\ IF gates.userfaultfd /\ number \in {"userfaultfd", "proton_userfaultfd"}
           THEN answer' = [answer EXCEPT ![w] = "ENOSYS"] /\ UNCHANGED list
           ELSE IF gates.robust /\ number = "get_robust_list"
           THEN /\ answer' = [answer EXCEPT ![w] = emulated.result]
                /\ list' = [list EXCEPT ![w] = emulated.list]
           ELSE answer' = [answer EXCEPT ![w] = "forward"] /\ UNCHANGED list
        /\ UNCHANGED <<gates, holds>>

\* The program links a mutex it locks, and unlinks one it unlocks.
Lock(w, m) ==
    /\ list[w].made /\ \A v \in Workers : m \notin holds[v]
    /\ list' = [list EXCEPT ![w].linked = @ \union {m}]
    /\ holds' = [holds EXCEPT ![w] = @ \union {m}]
    /\ UNCHANGED <<gates, answer>>

Unlock(w, m) ==
    /\ m \in holds[w]
    /\ list' = [list EXCEPT ![w].linked = @ \ {m}]
    /\ holds' = [holds EXCEPT ![w] = @ \ {m}]
    /\ UNCHANGED <<gates, answer>>

RobustNext ==
    \E w \in Workers :
      \/ \E number \in {"get_robust_list", "userfaultfd", "proton_userfaultfd", "other"},
            process \in {0, 1}, valid \in BOOLEAN : syscall(w, number, process, valid)
      \/ \E m \in Mutexes : Lock(w, m) \/ Unlock(w, m)

\* The list of a thread is exactly the mutexes it holds: no query, of its own or
\* of another thread, empties a list in use or shows one thread another's.
ListMatchesHolder == \A w \in Workers : list[w].made => list[w].linked = holds[w]

=============================================================================
