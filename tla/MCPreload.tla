----------------------------- MODULE MCPreload -----------------------------
(***************************************************************************)
(* The preloaded libraries, for TLC.  They share no state, so a behaviour  *)
(* exercises one of them and leaves the others at a fixed start: the state *)
(* spaces add up instead of multiplying.                                   *)
(***************************************************************************)
EXTENDS ExecShim, MprotectShim, AndroidRootShim, RobustShim, TLC

VARIABLE shim    \* the library this behaviour exercises

vars == <<shim, execvars, mpvars, rootvars, robustvars>>

Init ==
    /\ shim \in {"exec", "mprotect", "root", "robust"}
    /\ ExecInit /\ MprotectInit /\ RootInit /\ RobustInit
    /\ shim # "exec" => start = CHOOSE s \in Starts : TRUE
    /\ shim # "mprotect" => \A p \in Pages : ~mem[p].file
    /\ shim # "root" => policy = [net |-> Unset, stat |-> Unset, retry |-> FALSE,
                                  path |-> CHOOSE p \in Paths : TRUE]
    /\ shim # "robust" => ~gates.robust /\ ~gates.userfaultfd

Next ==
    /\ UNCHANGED shim
    /\ \/ shim = "exec" /\ ExecNext /\ UNCHANGED <<mpvars, rootvars, robustvars>>
       \/ shim = "mprotect" /\ MprotectNext /\ UNCHANGED <<execvars, rootvars, robustvars>>
       \/ shim = "root" /\ RootNext /\ UNCHANGED <<execvars, mpvars, robustvars>>
       \/ shim = "robust" /\ RobustNext /\ UNCHANGED <<execvars, mpvars, rootvars>>

Spec == Init /\ [][Next]_vars

-----------------------------------------------------------------------------
(* Constants *)

\* A Linux program, hidden in PATH behind a file that may not be executed and a
\* host program, and a link to it; one that cannot be read, a host shell and a Linux
\* shell, a host program below the final directory, and the loader.
File(interp, path) ==
    [interp |-> interp, readable |-> TRUE, executable |-> TRUE, loader |-> FALSE, real |-> path]

MCFiles ==
    [p \in {"/game", "/usr/game", "/doc/game", "/lsh", "/bin/sh", "/bin/game", "/f/final",
            "/ld", "/secret"} |->
       CASE p \in {"/game", "/lsh"} -> File("/lib/ld-linux", p)
         [] p = "/usr/game" -> File("/lib/ld-linux", "/game")
         [] p = "/doc/game" -> [File("/lib/ld-linux", p) EXCEPT !.executable = FALSE]
         [] p = "/secret" -> [File("/lib/ld-linux", p) EXCEPT !.readable = FALSE]
         [] p = "/ld" -> [File("NULL", p) EXCEPT !.loader = TRUE]
         [] OTHER -> File("/system/ld", p)]

MCPath == [f \in {"game", "lsh"} |->
             IF f = "game" THEN <<"/none/game", "/doc/game", "/bin/game", "/usr/game">>
             ELSE <<"/lsh">>]
MCAbsolute == DOMAIN MCFiles \union {"/lib/ld-linux", "/entry"}
MCBeneath == [d \in {"/f/"} |-> {"/f/final"}]

Base == [LD_PRELOAD |-> <<"shim">>, LD_SO |-> <<"/ld">>]
Stale == [PROC_SELF_EXE |-> <<"/wrong">>]
Foreign == [LD_PRELOAD |-> <<"foreign">>]
Start(env, drop, give, paths) ==
    [path |-> "/bin/sh", environ |-> [n \in Names |-> IF n \in DOMAIN env THEN env[n] ELSE <<>>],
     drop |-> drop, give |-> give \union {<<>>}, paths |-> paths,
     argvs |-> {<<>>, <<"a", "/game">>}]

MCStarts ==
    { \* Rebuilt environments, with old and repeated assignments.
      Start(Base @@ [PROC_SELF_EXE |-> <<"/wrong", "/wrong">>],
            {"PROC_SELF_EXE", "LD_SO"}, {Stale @@ [LIBRARY_PATH |-> <<"/lib">>]},
            {"/game", "/lsh", "/bin/sh", "/secret", "/missing"}),
      \* A preload policy the callers drop, and preloads of their own.
      Start(Base @@ [EXEC_LD_PRELOAD |-> <<"shim">>], {"EXEC_LD_PRELOAD", "LD_PRELOAD"},
            {Foreign, [EXEC_LD_PRELOAD |-> <<"own">>]}, {"/game", "/bin/sh"}),
      \* Redirections, dropped in part, and the interpreter called by name.
      Start(Base @@ [FROM |-> <<"/entry">>, TO |-> <<"/game">>, SHELL |-> <<"/lsh">>],
            {"FROM", "TO", "SHELL"}, {[SHELL |-> <<"">>]},
            {"/entry", "/bin/sh", "/lib/ld-linux", "/game"}),
      \* A fail-safe, and another interpreter to match.
      Start(Base @@ [DISABLE |-> <<"1">>, MATCH |-> <<"/system/ld">>], {"DISABLE", "MATCH"},
            {[DISABLE |-> <<"0">>]}, {"/doc/game", "/bin/game", "/lib/ld-linux", "/bin/sh"}),
      \* The final directory.
      Start(Base @@ Stale @@ [FINAL_PREFIX |-> <<"/f/">>, FINAL_LD_PRELOAD |-> <<"">>,
                              FINAL_PROC_SELF_EXE |-> <<"">>],
            {"FINAL_PREFIX", "FINAL_LD_PRELOAD", "FINAL_PROC_SELF_EXE"}, {},
            {"/f/final", "/game"}) }

\* A range that ends in the middle of the second page, and that page.
MCRanges == {[page |-> 1, length |-> 3], [page |-> 2, length |-> 2]}

MCWrites == {[page |-> 2, offset |-> 0, value |-> 2]}

Target(absolute, slash, length) == [absolute |-> absolute, slash |-> slash, length |-> length]

\* No exec, and no view of /proc.
NoExec == {Start(Base, {}, {}, {})}
NoTargets == {Unset}

MCTargets == {Target(TRUE, FALSE, n) : n \in {1, 2, 4, 5, 6}}
             \union {Target(FALSE, FALSE, 4), Target(TRUE, TRUE, 4), Unset}

=============================================================================
