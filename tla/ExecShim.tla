------------------------------ MODULE ExecShim ------------------------------
(***************************************************************************)
(* libtgcompat-exec.so (src/exec_shim.c): a preloaded library that runs    *)
(* Linux programs, whose interpreter does not exist on Android, through    *)
(* the loader that TGCOMPAT_LD_SO names.  The model follows one process    *)
(* through a chain of exec calls; of a posix_spawn it follows the child.   *)
(* Every program of the chain may rebuild the environment it passes on.    *)
(*                                                                         *)
(* An environment gives, for each name, the values assigned to it in their *)
(* order: a name may occur twice, and a reader takes the first.  (The      *)
(* order of assignments to different names makes no difference to anyone.) *)
(* Absolute holds the values that start with a slash and are longer than   *)
(* it; Beneath gives, for the values that are a usable directory prefix,   *)
(* the paths below it.                                                     *)
(***************************************************************************)
EXTENDS Sequences, FiniteSetsExt, Naturals

CONSTANTS Files,       \* the file system: path -> [interp, readable, executable, loader, real]
          Default,     \* default_interpreters
          HostInterp,  \* the interpreters that exist on this system
          Path,        \* the directories of PATH: name -> sequence of paths
          Absolute, Beneath, Shells,
          Starts       \* where a chain starts: [path, environ, drop, give, paths, argvs]

VARIABLES environ,  \* the environment of the running program
          image,    \* the program that runs: [path, argv, via]
          shimmed,  \* whether the shim is preloaded in it
          call,     \* the call being made: what it asked for and what became of it
          start     \* the start of this chain

execvars == <<environ, image, shimmed, call, start>>

NULL == "NULL"

Names == {"LD_PRELOAD", "PROC_SELF_EXE", "LD_SO", "LIBRARY_PATH", "DISABLE", "MATCH",
          "SHELL", "FROM", "TO", "EXEC_LD_PRELOAD",
          "FINAL_PREFIX", "FINAL_LD_PRELOAD", "FINAL_PROC_SELF_EXE"}

IsLoader(path) == path \in DOMAIN Files /\ Files[path].interp = NULL /\ Files[path].loader

\* Values of TGCOMPAT_LD_SO of which the first names a loader or no file: what the
\* library makes of another program there is not its concern.
NamesLoader(values) ==
    values # <<>> /\ Head(values) \in DOMAIN Files => IsLoader(Head(values))

\* Nor does any program write the loader's command line itself.
ASSUME ExecAssumption ==
    /\ NULL \notin DOMAIN Files
    /\ \A name \in DOMAIN Path : Path[name] \in Seq(STRING)
    /\ \A s \in Starts :
         /\ NamesLoader(s.environ["LD_SO"])
         /\ \A g \in s.give : "LD_SO" \in DOMAIN g => NamesLoader(g["LD_SO"])
         /\ \A argv \in s.argvs :
              argv \in Seq(STRING) /\ ~(Len(argv) >= 5 /\ argv[2] = "--inhibit-cache")

-----------------------------------------------------------------------------
(* Reading an environment *)

environment_value(env, name) == IF env[name] = <<>> THEN NULL ELSE Head(env[name])

configured_environment_value(env, name) ==
    IF environment_value(env, name) # NULL
    THEN environment_value(env, name) ELSE environment_value(environ, name)

\* Mutant: assignments are added and the old ones left in place.
unfiltered(env, names) == env

\* The copy of an environment without the assignments that are replaced, ...
without(env, names) == [n \in Names |-> IF n \in names THEN <<>> ELSE env[n]]

\* ... and with one more, unless there is nothing to assign.
with(env, name, value) ==
    IF value = NULL THEN env ELSE [env EXCEPT ![name] = Append(@, value)]

disabled_by_environment(env) == environment_value(env, "DISABLE") \notin {NULL, "", "0"}

interpreter_matches(interp, env) ==
    LET override == environment_value(env, "MATCH")
    IN  IF override \notin {NULL, ""} THEN interp = override
                                      ELSE interp \in Default

\* The interpreter of a regular ELF file of this machine that can be read.
read_elf_interpreter(path) ==
    IF path \in DOMAIN Files /\ Files[path].readable
    THEN Files[path].interp ELSE NULL

should_wrap(path, env) ==
    /\ environment_value(env, "LD_SO") \in Absolute \union {"/"}
    /\ ~disabled_by_environment(env)
    /\ read_elf_interpreter(path) # NULL
    /\ interpreter_matches(read_elf_interpreter(path), env)

-----------------------------------------------------------------------------
(* Redirections: another path, or none.                                    *)

redirect_shell_path(path, env) ==
    LET to == configured_environment_value(env, "SHELL")
    IN  IF path \in Shells /\ to \in Absolute THEN to ELSE NULL

redirect_configured_path(path, env) ==
    LET own  == {environment_value(env, n) : n \in {"FROM", "TO"}}
        e    == IF own = {NULL} THEN environ ELSE env
        from == environment_value(e, "FROM")
        to   == environment_value(e, "TO")
    IN  IF {from, to} \subseteq Absolute /\ path = from THEN to ELSE NULL

redirect_exec_path(path, env) ==
    LET configured == redirect_configured_path(path, env)
        shell      == redirect_shell_path(path, env)
        loader     == environment_value(env, "LD_SO")
    IN  IF configured # NULL THEN configured
        ELSE IF shell # NULL THEN shell
        ELSE IF \/ disabled_by_environment(env)
                \/ ~interpreter_matches(path, env)
                \/ loader \notin Absolute
             THEN path
             ELSE loader

final_path_matches(path, env) ==
    LET prefix == configured_environment_value(env, "FINAL_PREFIX")
    IN  prefix \in DOMAIN Beneath /\ path \in Beneath[prefix]

-----------------------------------------------------------------------------
(* A request to the system is [path, argv, env], with nomem for one made   *)
(* after an allocation failed; a call that gives up before is NoRequest.   *)

Bare == [n \in Names |-> <<>>]

NoRequest == [path |-> NULL, argv |-> <<>>, env |-> Bare, nomem |-> TRUE]

\* The environment a program outside the loader gets, or none on an error.
build_final_environment(path, env) ==
    LET preload == configured_environment_value(env, "FINAL_LD_PRELOAD")
        self    == configured_environment_value(env, "FINAL_PROC_SELF_EXE")
        names   == {"LD_PRELOAD"} \union
                     (IF self = NULL THEN {} ELSE {"PROC_SELF_EXE"})
    IN  IF ~final_path_matches(path, env) THEN {env}
        ELSE IF preload = NULL THEN {}
        ELSE {with(with(without(env, names), "LD_PRELOAD", preload), "PROC_SELF_EXE", self)}

\* What the loader is told of the program: its first argument and, if it is
\* configured, where its libraries are; and its file.
loader_options(file, argv, env) ==
    LET library_path == environment_value(env, "LIBRARY_PATH")
    IN  <<"--inhibit-cache", "--argv0", IF argv = <<>> THEN file ELSE argv[1]>>
        \o (IF library_path \in {NULL, ""} THEN <<>> ELSE <<"--library-path", library_path>>)
        \o <<file>>

\* Mutant: the first argument is repeated.
all_arguments(file, argv, env) == loader_options(file, argv, env) \o argv

program_arguments(file, argv, env) ==
    loader_options(file, argv, env) \o (IF argv = <<>> THEN <<>> ELSE Tail(argv))

realpath(file) == Files[file].real

\* The loader's command line and environment for a program it is to run.
build_loader_arguments(path, argv, env) ==
    LET file    == redirect_exec_path(path, env)
        loader  == environment_value(env, "LD_SO")
        preload == configured_environment_value(env, "EXEC_LD_PRELOAD")
        names   == {"PROC_SELF_EXE"} \union
                     (IF preload = NULL THEN {} ELSE {"LD_PRELOAD"})
    IN  [path  |-> loader,
         argv  |-> <<loader>> \o program_arguments(file, argv, env),
         env   |-> with(with(without(env, names), "LD_PRELOAD", preload),
                        "PROC_SELF_EXE", realpath(file)),
         nomem |-> FALSE]

\* The request for a program that the system runs itself.
direct(path, argv, env) ==
    {[path |-> redirect_exec_path(path, env), argv |-> argv, env |-> e, nomem |-> FALSE] :
       e \in build_final_environment(path, env)}

\* A decision on the path before its redirection.
launch_unredirected(path, argv, env) ==
    IF should_wrap(path, env) THEN {build_loader_arguments(path, argv, env)}
                              ELSE direct(path, argv, env)

\* execve and spawn_wrapped build the same request, or run out of memory.
launch(path, argv, env) ==
    (IF should_wrap(redirect_exec_path(path, env), env)
     THEN {build_loader_arguments(path, argv, env)} ELSE direct(path, argv, env))
    \union {NoRequest}

\* The first of the paths at the places hits of a sequence.
first(paths, hits) == IF hits = {} THEN NULL ELSE paths[Min(hits)]

\* access(path, X_OK) succeeds.
IsExecutable(path) == path \in DOMAIN Files /\ Files[path].executable

\* The file the C library finds for a name: the first of PATH it may execute.
library_search(name) ==
    first(Path[name], {k \in DOMAIN Path[name] : IsExecutable(Path[name][k])})

\* The first of those that the loader would have to run.
find_matching_path(name, env) ==
    first(Path[name], {k \in DOMAIN Path[name] : /\ IsExecutable(Path[name][k])
                                                 /\ should_wrap(Path[name][k], env)})

\* execvpe and posix_spawnp for a name without a slash.  An allocation that fails
\* in the search is taken for a search that found nothing; the C library's own
\* search neither redirects nor changes the environment.
search(name, argv, env) ==
    LET file == find_matching_path(name, env)
    IN  (IF file = NULL THEN {} ELSE launch(file, argv, env))
        \union {[path |-> library_search(name), argv |-> argv, env |-> env,
                 nomem |-> file # NULL]}

-----------------------------------------------------------------------------
(* The system: what runs when it is given a request (external).            *)

IsDead(path) == path \in DOMAIN Files /\ Files[path].interp \notin HostInterp \union {NULL}

NoImage == [path |-> NULL, argv |-> <<>>, via |-> "kernel"]

\* The loader runs the program its command line names, executable or not.
loader_main(argv) ==
    LET file == IF argv[5] = "--library-path" THEN 7 ELSE 5
    IN  IF Len(argv) >= 5 /\ argv[2] = "--inhibit-cache"
    THEN [path |-> argv[file], argv |-> <<argv[4]>> \o SubSeq(argv, file + 1, Len(argv)),
          via |-> "wrapped"]
    ELSE IF Len(argv) >= 2
    THEN [path |-> argv[2], argv |-> Tail(argv), via |-> "loader"]
    ELSE NoImage

system_exec(request) ==
    LET run == IF IsLoader(request.path) THEN loader_main(request.argv)
               ELSE [path |-> request.path, argv |-> request.argv, via |-> "kernel"]
    IN  IF /\ run.path \in DOMAIN Files
           /\ run.via = "kernel" => IsExecutable(run.path) /\ ~IsDead(run.path)
        THEN run ELSE NoImage

-----------------------------------------------------------------------------
(* The chain                                                               *)

NoCall == [what |-> NULL, argv |-> <<>>, env |-> Bare, environ |-> Bare,
           shimmed |-> FALSE, request |-> NoRequest, done |-> FALSE]

ExecInit ==
    /\ start \in Starts
    /\ environ = start.environ
    /\ image = [path |-> start.path, argv |-> <<start.path>>, via |-> "kernel"]
    /\ shimmed = TRUE
    /\ call = NoCall

\* The environments a program may pass on: its own, without some of its
\* assignments and with some others set.
Rebuilt == {environ} \union
           {[n \in Names |-> IF n \in DOMAIN g THEN g[n] ELSE without(environ, D)[n]] :
              D \in SUBSET start.drop, g \in start.give}

\* A process without the shim calls the system itself.
Unshimmed(what, argv, env) ==
    {[path |-> IF what \in DOMAIN Path THEN library_search(what) ELSE what,
      argv |-> argv, env |-> env, nomem |-> FALSE]}

\* The system takes the request and the new program runs, or refuses it.
Perform(what, argv, env, requests) ==
    \E r \in IF shimmed THEN requests ELSE Unshimmed(what, argv, env) :
      LET run == system_exec(r)
          ran == run # NoImage
      IN  /\ call' = [what |-> what, argv |-> argv, env |-> env, environ |-> environ,
                      shimmed |-> shimmed, request |-> r, done |-> ran]
          /\ image' = IF ran THEN run ELSE image
          /\ environ' = IF ran THEN r.env ELSE environ
          /\ shimmed' = IF ran THEN environment_value(r.env, "LD_PRELOAD") = "shim"
                               ELSE shimmed
          /\ UNCHANGED start

\* The new program, or the old one after an error, goes on.
Resume == call # NoCall /\ call' = NoCall /\ UNCHANGED <<environ, image, shimmed, start>>

Execve(path, argv, env) == Perform(path, argv, env, launch(path, argv, env))

Execv(path, argv) == Execve(path, argv, environ)

Execl(path, argv) == Execve(path, argv, environ)

Execle(path, argv, env) == Execve(path, argv, env)

Execvpe(file, argv, env) ==
    IF file \in DOMAIN Path THEN Perform(file, argv, env, search(file, argv, env))
                            ELSE Execve(file, argv, env)

Execvp(file, argv) == Execvpe(file, argv, environ)

Execlp(file, argv) == Execvpe(file, argv, environ)

PosixSpawn(path, argv, env) == Perform(path, argv, env, launch(path, argv, env))

PosixSpawnp(file, argv, env) ==
    IF file \in DOMAIN Path THEN Perform(file, argv, env, search(file, argv, env))
                            ELSE PosixSpawn(file, argv, env)

\* The calls that pass the environment of the program on, and those that are
\* given one.
ExecSame(argv) ==
    \/ \E path \in start.paths : Execv(path, argv) \/ Execl(path, argv)
    \/ \E file \in start.paths \union DOMAIN Path : Execvp(file, argv) \/ Execlp(file, argv)

ExecWith(argv, env) ==
    \/ \E path \in start.paths : \/ Execve(path, argv, env) \/ Execle(path, argv, env)
                                 \/ PosixSpawn(path, argv, env)
    \/ \E file \in start.paths \union DOMAIN Path :
         Execvpe(file, argv, env) \/ PosixSpawnp(file, argv, env)

ExecNext ==
    \/ Resume
    \/ /\ call = NoCall
       /\ \E argv \in start.argvs : \/ ExecSame(argv)
                                    \/ \E env \in Rebuilt : ExecWith(argv, env)

-----------------------------------------------------------------------------
(* Properties                                                              *)

Wraps(env) ==
    environment_value(env, "LD_SO") \in Absolute /\ ~disabled_by_environment(env)

\* A Linux program whose interpreter the system lacks is never handed to the
\* system directly while the shim is told to wrap it, whichever entry point,
\* redirection or PATH search led to it, unless memory ran out in the search.
NoDeadInterpreter ==
    LET r == call.request
    IN  call.shimmed /\ IsDead(r.path) /\ ~r.nomem /\ Wraps(call.env)
          => ~Files[r.path].readable
             \/ ~interpreter_matches(Files[r.path].interp, call.env)

\* A program that runs through the loader finds its own real path under
\* TGCOMPAT_PROC_SELF_EXE, whatever the programs before it in the chain had
\* there, however often, and whatever path the call was redirected from.
SelfNamed ==
    image.via = "wrapped" =>
        environment_value(environ, "PROC_SELF_EXE") = realpath(image.path)

\* What a shimmed process sets for its children reaches them: a wrapped program
\* gets the LD_PRELOAD of TGCOMPAT_EXEC_LD_PRELOAD, the one the caller passes
\* on or else the caller's own, and what the caller passed when there is none;
\* and of all else it was passed nothing is changed or lost.
PreloadPolicy ==
    call.done /\ call.shimmed =>
      LET own    == environment_value(call.env, "EXEC_LD_PRELOAD")
          policy == IF own # NULL THEN own
                    ELSE environment_value(call.environ, "EXEC_LD_PRELOAD")
      IN  /\ image.via = "wrapped" =>
               environment_value(environ, "LD_PRELOAD") =
                 IF policy # NULL THEN policy ELSE environment_value(call.env, "LD_PRELOAD")
          /\ \A n \in Names \ {"LD_PRELOAD", "PROC_SELF_EXE"} :
               environment_value(environ, n) = environment_value(call.env, n)

\* The program sees the arguments of the call: through the loader as without
\* it, the first argument included; a wrapped program without any sees its path.
ArgumentsKept ==
    call.done /\ image.via # "loader" =>
      image.argv = IF image.via = "wrapped" /\ call.argv = <<>>
                   THEN <<image.path>> ELSE call.argv

=============================================================================
