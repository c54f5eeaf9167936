------------------------------ MODULE Session ------------------------------
(***************************************************************************)
(* The session helper (src/scripts/tgcompat-session.sh): start, stop,      *)
(* restart and run, as separate processes of one user that may run at the  *)
(* same time, be killed, and meet daemons that crash.  The daemon is       *)
(* reduced to what the helper sees of it: its process, and the socket path *)
(* that it creates and unlinks (see module Daemon).                        *)
(*                                                                         *)
(* A step of a script is one test or command.  Process IDs are not reused. *)
(* status and env change nothing.                                          *)
(***************************************************************************)
EXTENDS Integers, FiniteSets

CONSTANTS Scripts,   \* processes that run the helper, one command after the other
          Daemons,   \* process IDs of daemons, positive numbers
          Commands   \* the commands given

NoPid == 0

VARIABLES script,     \* where a script is, its command, managed_pid, $!
          daemon,     \* the state of a daemon process
          signalled,  \* the daemons that have been sent SIGTERM
          socket,     \* the daemon whose socket the path names
          pidfile     \* the process ID in the file

vars == <<script, daemon, signalled, socket, pidfile>>
daemonVars == <<daemon, signalled>>

Idle == [at |-> "idle", command |-> "none", managed_pid |-> NoPid, child |-> NoPid]

Init == /\ script = [s \in Scripts |-> Idle]
        /\ daemon = [d \in Daemons |-> "none"]
        /\ signalled = {}
        /\ socket = NoPid
        /\ pidfile = NoPid

Running == {"starting", "listening", "stopping"}

\* kill -0 succeeds for a zombie too, but a zombie has no /proc/<pid>/exe.
kill_0(d) == d # NoPid /\ daemon[d] \in Running \union {"zombie"}

is_managed_daemon == pidfile # NoPid /\ daemon[pidfile] \in Running

Goto(s, at) == script' = [script EXCEPT ![s].at = at]

\* The command ends, by itself or by die.
Done(s) == script' = [script EXCEPT ![s] = Idle]

\* The broker is there: run replaces the script by the application.
Started(s) == IF script[s].command = "run" THEN Goto(s, "application") ELSE Done(s)

Invoke(s, c) ==
    /\ script[s].at = "idle"
    /\ script' = [script EXCEPT
           ![s] = [Idle EXCEPT !.command = c,
                               !.at = IF c \in {"start", "run"} THEN "start" ELSE "stop"]]
    /\ UNCHANGED <<daemonVars, socket, pidfile>>

-----------------------------------------------------------------------------
(* start_daemon.                                                             *)

CheckRunning(s) ==
    /\ script[s].at = "start"
    /\ IF is_managed_daemon THEN Started(s) ELSE Goto(s, "clean")
    /\ UNCHANGED <<daemonVars, socket, pidfile>>

\* A file that names a dead process is removed, and then the socket; one that
\* names a living process that is no daemon of ours is not touched.
RemovePidFile(s) ==
    /\ script[s].at = "clean"
    /\ CASE pidfile = NoPid -> Goto(s, "path") /\ UNCHANGED pidfile
         [] kill_0(pidfile) -> Done(s) /\ UNCHANGED pidfile
         [] OTHER -> Goto(s, "socket") /\ pidfile' = NoPid
    /\ UNCHANGED <<daemonVars, socket>>

RemoveSocket(s) ==
    /\ script[s].at = "socket"
    /\ socket' = NoPid
    /\ Goto(s, "path")
    /\ UNCHANGED <<daemonVars, pidfile>>

CheckPath(s) ==
    /\ script[s].at = "path"
    /\ IF socket # NoPid THEN Done(s) ELSE Goto(s, "spawn")
    /\ UNCHANGED <<daemonVars, socket, pidfile>>

Spawn(s) ==
    /\ script[s].at = "spawn"
    /\ \E d \in Daemons :
         /\ daemon[d] = "none" /\ \A e \in Daemons : e < d => daemon[e] # "none"
         /\ daemon' = [daemon EXCEPT ![d] = "starting"]
         /\ script' = [script EXCEPT ![s].at = "write", ![s].managed_pid = d, ![s].child = d]
    /\ UNCHANGED <<signalled, socket, pidfile>>

WritePidFile(s) ==
    /\ script[s].at = "write"
    /\ pidfile' = script[s].managed_pid
    /\ Goto(s, "wait")
    /\ UNCHANGED <<daemonVars, socket>>

\* One round of waiting.  With the socket in place is_managed_daemon reads
\* managed_pid from the file again.  After 200 rounds the script gives up.
WaitReady(s) ==
    LET pid == IF socket # NoPid THEN pidfile ELSE script[s].managed_pid
    IN  /\ script[s].at = "wait"
        /\ IF socket # NoPid /\ is_managed_daemon THEN Started(s)
           ELSE \/ kill_0(pid) /\ script' = [script EXCEPT ![s].managed_pid = pid]
                \/ Done(s)
        /\ UNCHANGED <<daemonVars, socket, pidfile>>

-----------------------------------------------------------------------------
(* stop_daemon; restart goes on with start_daemon.                           *)

Terminate(s) ==
    /\ script[s].at = "stop"
    /\ IF is_managed_daemon
       THEN /\ script' = [script EXCEPT ![s].at = "stopping", ![s].managed_pid = pidfile]
            /\ signalled' = signalled \union {pidfile}
       ELSE /\ IF script[s].command = "restart" THEN Goto(s, "start") ELSE Done(s)
            /\ UNCHANGED signalled
    /\ UNCHANGED <<daemon, socket, pidfile>>

\* The file is removed when the process is gone; after 100 rounds the script
\* gives up.
WaitStopped(s) ==
    /\ script[s].at = "stopping"
    /\ IF kill_0(script[s].managed_pid) THEN Done(s) /\ UNCHANGED pidfile
       ELSE /\ pidfile' = NoPid
            /\ IF script[s].command = "restart" THEN Goto(s, "start") ELSE Done(s)
    /\ UNCHANGED <<daemonVars, socket>>

\* The script is killed, or the application ends; its zombie goes to init.
Killed(s) ==
    /\ script[s].at # "idle"
    /\ Done(s)
    /\ daemon' = [d \in Daemons |-> IF d = script[s].child /\ daemon[d] = "zombie"
                                    THEN "gone" ELSE daemon[d]]
    /\ UNCHANGED <<signalled, socket, pidfile>>

-----------------------------------------------------------------------------
(* Daemons.                                                                  *)

\* bash and init collect a daemon that ends, an application need not.
End(d) ==
    daemon' = [daemon EXCEPT ![d] =
        IF \E s \in Scripts : script[s].at = "application" /\ script[s].child = d
        THEN "zombie" ELSE "gone"]

\* A path that exists makes the start fail.
Listen(d) ==
    /\ daemon[d] = "starting"
    /\ IF socket = NoPid
       THEN socket' = d /\ daemon' = [daemon EXCEPT ![d] = "listening"]
       ELSE End(d) /\ UNCHANGED socket
    /\ UNCHANGED <<script, signalled, pidfile>>

CloseListener(d) ==
    /\ daemon[d] = "listening" /\ d \in signalled
    /\ daemon' = [daemon EXCEPT ![d] = "stopping"]
    /\ UNCHANGED <<script, signalled, socket, pidfile>>

\* unlink removes the path, whatever it now names.
Stop(d) ==
    /\ daemon[d] = "stopping"
    /\ End(d)
    /\ socket' = NoPid
    /\ UNCHANGED <<script, signalled, pidfile>>

\* A daemon that is killed leaves its socket behind; SIGTERM kills one that has
\* no signal descriptor yet.
Crash(d) ==
    /\ daemon[d] \in Running
    /\ End(d)
    /\ UNCHANGED <<script, signalled, socket, pidfile>>

Next == \/ \E s \in Scripts :
             \/ \E c \in Commands : Invoke(s, c)
             \/ CheckRunning(s) \/ RemovePidFile(s) \/ RemoveSocket(s) \/ CheckPath(s)
             \/ Spawn(s) \/ WritePidFile(s) \/ WaitReady(s)
             \/ Terminate(s) \/ WaitStopped(s) \/ Killed(s)
        \/ \E d \in Daemons : Listen(d) \/ CloseListener(d) \/ Stop(d) \/ Crash(d)

Spec == Init /\ [][Next]_vars

-----------------------------------------------------------------------------
(* Properties.                                                               *)

Listening == {d \in Daemons : daemon[d] = "listening"}

\* One broker serves a user: at no time do two daemons accept clients, who would
\* then meet different semaphores under the same keys.
OneBroker == Cardinality(Listening) <= 1

=============================================================================
