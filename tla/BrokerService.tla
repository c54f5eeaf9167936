--------------------------- MODULE BrokerService ---------------------------
(***************************************************************************)
(* The broker implements SemService.  A request is pending from the moment *)
(* it is received until dispatch_request has its result, whether its       *)
(* worker waits for the mutex or sleeps in the queue.                      *)
(***************************************************************************)
EXTENDS Broker

CallOf(c) ==
    CASE pc[c] \in {"lock", "waiting", "woken"} -> [at |-> "pending", request |-> request[c]]
      [] pc[c] = "send" -> [at |-> "done", request |-> request[c],
                            result |-> response[c].result, payload |-> response[c].payload]
      [] OTHER -> [at |-> "idle"]

Service == INSTANCE SemService WITH
    Apply <- tgc_broker_dispatch, Payload <- response_payload,
    ExitOf <- process_exit, UsesUndo <- request_uses_undo,
    store  <- Uncounted(store),
    call   <- [c \in Conn |-> CallOf(c)],
    peer   <- PidOf,
    gone   <- {c \in Conn : held[c] = {}},
    exited <- {p \in Pids : proc[p] = "exited"}

\* The broker implements the abstract service: every response a client gets is
\* the result of one operation of the sequential store, performed once and as a
\* whole while the call was in progress, although dispatch_request may try it
\* many times, from several wakeups, with closed peers, deadlines and exits of
\* processes in between; a response that still says "blocked", which the loop
\* leaves when the peer has closed, meets no client; and nothing else ever changes
\* the semaphores but the restoration of exited processes.
ImplementsService == Service!Spec

=============================================================================
