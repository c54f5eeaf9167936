--------------------------- MODULE AndroidRootShim ---------------------------
(***************************************************************************)
(* libtgcompat-android-root.so (src/android_root_shim.c): a preloaded      *)
(* library that shows a program a private directory as /proc/net and a     *)
(* private file as /proc/stat, which Android denies, and opens             *)
(* /proc/self/root as a path when it may not be read.                      *)
(*                                                                         *)
(* A path is [base, rest]: a prefix the shim knows, or another, and the    *)
(* length of what follows it, 0 or a slash and a name.  The value of a     *)
(* variable is [absolute, slash, length]: whether it starts and whether it *)
(* ends with a slash, and its length.                                      *)
(***************************************************************************)
EXTENDS Integers, FiniteSets

CONSTANTS PATH_MAX,  \* the size of the buffer a path is rewritten to
          SIZE_MAX,  \* of size_t
          Targets,   \* values of TGCOMPAT_PROC_NET and TGCOMPAT_PROC_STAT
          Rests      \* lengths of what follows a known prefix

ASSUME RootAssumption ==
    /\ PATH_MAX \in Nat \ {0} /\ SIZE_MAX \in Nat /\ PATH_MAX <= SIZE_MAX
    /\ Targets \subseteq [absolute : BOOLEAN, slash : BOOLEAN, length : Nat]
    /\ Rests \subseteq Nat

VARIABLES policy,    \* the values of the variables, the path the program uses
          seen       \* what its calls pass on to the system: a file, or ENAMETOOLONG

rootvars == <<policy, seen>>

Unset == [absolute |-> FALSE, slash |-> FALSE, length |-> 0]
NetPrefixes == {"/proc/net", "/proc/self/net", "/proc/thread-self/net"}
Roots == {"/proc/self/root"}
Bases == NetPrefixes \union Roots \union {"/proc/stat", "/proc/self/stat"}
Paths == [base : Bases, rest : Rests]

TooLong == [base |-> "ENAMETOOLONG", rest |-> 0]

\* A value that can replace a path: absolute, not the root, no trailing slash.
usable(v) == v.absolute /\ v.length >= 2 /\ ~v.slash

\* Subtraction of sizes, which are unsigned.
Minus(a, b) == (a - b) % (SIZE_MAX + 1)

\* Mutant: nothing keeps the subtraction from wrapping.
fits_wrapping(root, rest, size) == size # 0 /\ root <= Minus(size, rest + 1)

fits(root, rest, size) == size # 0 /\ rest < size /\ root <= Minus(size, rest + 1)

rewrite_proc_net(path, size) ==
    IF path.base \notin NetPrefixes \/ ~usable(policy.net) THEN path
    ELSE IF fits(policy.net.length, path.rest, size)
         THEN [base |-> "PROC_NET", rest |-> path.rest] ELSE TooLong

rewrite_proc_stat(path, size) ==
    IF path # [base |-> "/proc/stat", rest |-> 0] \/ ~usable(policy.stat) THEN path
    ELSE IF fits(policy.stat.length, 0, size)
         THEN [base |-> "PROC_STAT", rest |-> 0] ELSE TooLong

rewrite_proc(path, size) ==
    LET mapped == rewrite_proc_stat(path, size)
    IN  IF mapped # path THEN mapped ELSE rewrite_proc_net(path, size)

-----------------------------------------------------------------------------
(* Flags of an open: O_ACCMODE, O_CREAT or O_TMPFILE, O_TRUNC, O_DIRECTORY *)
(* and O_PATH.                                                             *)

Flags == [access : {"r", "w", "rw"}, create : BOOLEAN, truncate : BOOLEAN,
          directory : BOOLEAN, path : BOOLEAN]

\* O_CREAT and O_TMPFILE take a mode, and make a file.
flags_have_mode(flags) == flags.create

read_only_open(flags) == flags.access = "r" /\ ~flags_have_mode(flags)

mapped_open_path(path, flags) ==
    IF read_only_open(flags) THEN rewrite_proc(path, PATH_MAX) ELSE path

\* The flags with which a denied open is tried again, when it is.
retry_flags(path, flags, error) ==
    IF /\ policy.retry
       /\ error
       /\ path.base \in Roots /\ path.rest <= 1
       /\ flags.directory /\ ~flags.path /\ flags.access = "r"
    THEN {[flags EXCEPT !.path = TRUE, !.create = FALSE, !.truncate = FALSE]} ELSE {}

-----------------------------------------------------------------------------
(* The calls of a program, all for one path.  Access to the real /proc may *)
(* be denied; a call that the shim ends with ENAMETOOLONG is recorded too. *)

RootInit ==
    /\ policy \in [net : Targets, stat : Targets, retry : BOOLEAN, path : Paths]
    /\ policy.net = Unset \/ policy.stat = Unset
    /\ seen = {}

Reach(request, file) ==
    /\ seen' = seen \union {[request |-> request, file |-> file]}
    /\ UNCHANGED policy

NoFlags == [access |-> "r", create |-> FALSE, truncate |-> FALSE,
            directory |-> FALSE, path |-> FALSE]

\* What an open asks for.  O_TRUNC truncates with O_RDONLY too, but not with O_PATH.
Asks(flags) ==
    CASE flags.access # "r" \/ flags.create -> "write"
      [] flags.access = "r" /\ ~flags.create /\ flags.truncate /\ ~flags.path -> "truncate"
      [] OTHER -> "read"

call_open(flags) == Reach(Asks(flags), mapped_open_path(policy.path, flags))

call_checked_open(flags) == call_open(flags)

\* The second attempt when the first is denied.
retry_openat(mapped, flags, denied) ==
    LET again == retry_flags(mapped, flags, denied)
    IN  IF again = {} THEN Reach(Asks(flags), mapped)
        ELSE \E f \in again : Reach(Asks(f), mapped)

call_openat(flags, denied) ==
    retry_openat(mapped_open_path(policy.path, flags), flags, denied)

call_checked_openat(flags, denied) == call_openat(flags, denied)

call_fopen(mode) ==
    LET flags == [NoFlags EXCEPT !.access = mode]
    IN  Reach(Asks(flags),
              IF mode = "r" THEN rewrite_proc(policy.path, PATH_MAX) ELSE policy.path)

opendir == Reach("read", rewrite_proc(policy.path, PATH_MAX))

access(mode) ==
    Reach(IF mode = "w" THEN "write" ELSE "read",
          IF mode = "w" THEN policy.path ELSE rewrite_proc(policy.path, PATH_MAX))

\* A stat that asks the real file.
stat_real == Reach("read", policy.path)

call_stat == Reach("read", rewrite_proc(policy.path, PATH_MAX))

RootNext ==
    \/ \E flags \in Flags : call_open(flags) \/ call_checked_open(flags)
    \/ \E flags \in Flags, denied \in BOOLEAN :
         call_openat(flags, denied) \/ call_checked_openat(flags, denied)
    \/ \E mode \in {"r", "w", "rw"} : call_fopen(mode)
    \/ opendir
    \/ \E mode \in {"r", "w"} : access(mode)
    \/ call_stat

-----------------------------------------------------------------------------
(* Properties                                                              *)

\* A program that looks a path up and then reads it meets one and the same
\* file, whichever of the interposed functions it uses for either; what it asks to
\* write or to create is never redirected.  (O_TRUNC with O_RDONLY is: read_only_open
\* does not look at it.)
OneFile ==
    /\ \A a, b \in seen : a.request = "read" /\ b.request = "read" => a.file = b.file
    /\ \A a \in seen : a.request = "write" => a.file = policy.path

\* A rewritten path fits its buffer with its terminating byte, and one that
\* would fit is not refused.
PathFits ==
    \A a \in seen :
      LET room == PATH_MAX - 1
          size == CASE a.file.base = "PROC_NET"  -> policy.net.length + a.file.rest
                    [] a.file.base = "PROC_STAT" -> policy.stat.length
                    [] OTHER -> 0
          asked == IF policy.path.base = "/proc/stat" THEN policy.stat.length
                   ELSE policy.net.length + policy.path.rest
      IN  size <= room /\ (a.file = TooLong => asked > room)

=============================================================================
