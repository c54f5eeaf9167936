---------------------------- MODULE MprotectShim ----------------------------
(***************************************************************************)
(* libtgcompat-mprotect.so (src/mprotect_shim.c): mprotect for mappings of *)
(* files on storage that refuses PROT_EXEC.  The refused range is replaced *)
(* by an anonymous copy, in six system calls.  Several threads of one      *)
(* process make calls, and write to its memory, at the same time.          *)
(*                                                                         *)
(* A page of memory is [file, prot, data]: whether it maps such a file,    *)
(* its protection, and its bytes.  The system calls round a length up to   *)
(* whole pages; copy_bytes does not.                                       *)
(***************************************************************************)
EXTENDS Naturals, FiniteSets

CONSTANTS Threads,
          Pages,    \* the pages, 1 .. n
          PageSize,
          Ranges,   \* the ranges of calls, [page, length]: from the first byte of a page
          Protections,
          Writes    \* what a program writes, [page, offset, value]

Prots == SUBSET {"R", "W", "X"}

ASSUME MprotectAssumption ==
    /\ Pages \subseteq Nat /\ PageSize \in Nat \ {0}
    /\ Ranges \subseteq [page : Pages, length : Nat \ {0}]
    /\ Protections \subseteq Prots
    /\ Writes \subseteq [page : Pages, offset : 0..(PageSize - 1), value : Nat]

VARIABLES mem,      \* [Pages -> page]
          scratch,  \* the scratch mapping of a call: [Threads -> bytes]
          mp        \* the call of a thread

mpvars == <<mem, scratch, mp>>

Offsets == 0..(PageSize - 1)
Zeros == [o \in Offsets |-> 0]

\* The place of a byte in a range.
Place(range, p, o) == (p - range.page) * PageSize + o

\* The bytes that length counts, and the pages that hold one of them.
Copied(range, p, o) == p >= range.page /\ Place(range, p, o) < range.length
PagesOf(range) == {p \in Pages : Copied(range, p, 0)}

NoScratch == <<>>
NoCopy == [at |-> "idle", range |-> [page |-> 0, length |-> 0], prot |-> {},
           before |-> <<>>, alone |-> TRUE, result |-> "none"]

MprotectInit ==
    /\ mem \in [Pages -> {[file |-> f, prot |-> {"R", "W"},
                           data |-> [o \in Offsets |-> 1]] : f \in BOOLEAN}]
    /\ scratch = [t \in Threads |-> NoScratch]
    /\ mp = [t \in Threads |-> NoCopy]

-----------------------------------------------------------------------------
(* The system calls (external)                                             *)

\* Protect the pages of a range in the order of their addresses, up to the
\* first that refuses to be executable.
raw_mprotect(m, range, prot) ==
    LET refuses(p) == m[p].file /\ "X" \in prot
        pages == PagesOf(range)
        done == {p \in pages : \A q \in pages : q <= p => ~refuses(q)}
    IN  [mem |-> [p \in Pages |-> IF p \in done THEN [m[p] EXCEPT !.prot = prot] ELSE m[p]],
         ok  |-> done = pages]

\* Put zeroed anonymous pages in the place of a range.
raw_mmap_fixed(m, range) ==
    [p \in Pages |-> IF p \in PagesOf(range)
                     THEN [file |-> FALSE, prot |-> {"R", "W"}, data |-> Zeros] ELSE m[p]]

\* The pages m, with the bytes of a range from n.
copy_bytes(m, n, range) ==
    [p \in DOMAIN m |-> [o \in Offsets |-> IF Copied(range, p, o) THEN n[p][o] ELSE m[p][o]]]

Data == [p \in Pages |-> mem[p].data]

-----------------------------------------------------------------------------
(* The calls                                                               *)

Busy(t) == mp[t].at # "idle"

\* What t does to the pages P: another call for them that is under way is no
\* longer alone, and one that is over is forgotten.
Disturb(t, P) ==
    [u \in Threads |-> IF u = t \/ PagesOf(mp[u].range) \intersect P = {} THEN mp[u]
                       ELSE IF Busy(u) THEN [mp[u] EXCEPT !.alone = FALSE, !.before = <<>>]
                       ELSE NoCopy]

Overlaps(t, range) ==
    \E u \in Threads \ {t} : Busy(u) /\ PagesOf(mp[u].range) \intersect PagesOf(range) # {}

Advance(t, at) == mp' = [mp EXCEPT ![t].at = at]

\* A call that is over; one that was not alone is forgotten.
Over(c, result) ==
    IF c.alone THEN [c EXCEPT !.at = "idle", !.result = result] ELSE NoCopy

Return(t, result) == mp' = [mp EXCEPT ![t] = Over(@, result)]

\* mprotect: the system call, and the copy when EACCES refuses PROT_EXEC.
Mprotect(t, range, prot) ==
    /\ ~Busy(t)
    /\ LET raw  == raw_mprotect(mem, range, prot)
           this == [at |-> "readable", range |-> range, prot |-> prot,
                    before |-> [p \in PagesOf(range) |-> mem[p]],
                    alone |-> ~Overlaps(t, range), result |-> "none"]
       IN  \/ /\ mem' = raw.mem
              /\ mp' = [Disturb(t, PagesOf(range)) EXCEPT ![t] =
                         IF raw.ok THEN Over(this, "ok") ELSE this]
           \/ /\ UNCHANGED mem    \* out of memory for the mappings
              /\ mp' = [Disturb(t, PagesOf(range)) EXCEPT ![t] =
                         Over(this, "error")]
    /\ UNCHANGED scratch

readable_protection(prot) == {"R"} \union (prot \intersect {"W"})

\* make_anonymous_executable_copy, one system call or copy a step.
MakeReadable(t) ==
    /\ mp[t].at = "readable"
    /\ \/ /\ mem' = raw_mprotect(mem, mp[t].range, readable_protection(mp[t].prot)).mem
          /\ Advance(t, "scratch")
       \/ UNCHANGED mem /\ Return(t, "error")
    /\ UNCHANGED scratch

MapScratch(t) ==
    /\ mp[t].at = "scratch"
    /\ \/ scratch' = [scratch EXCEPT ![t] = [p \in PagesOf(mp[t].range) |-> Zeros]] /\ Advance(t, "save")
       \/ UNCHANGED scratch /\ Return(t, "error")
    /\ UNCHANGED mem

Save(t) ==
    /\ mp[t].at = "save"
    /\ scratch' = [scratch EXCEPT ![t] = copy_bytes(@, Data, mp[t].range)]
    /\ Advance(t, "replace")
    /\ UNCHANGED mem

raw_munmap(t) == scratch' = [scratch EXCEPT ![t] = NoScratch]

Replace(t) ==
    /\ mp[t].at = "replace"
    /\ \/ mem' = raw_mmap_fixed(mem, mp[t].range) /\ Advance(t, "restore") /\ UNCHANGED scratch
       \/ raw_munmap(t) /\ Return(t, "error") /\ UNCHANGED mem

\* A build that protects the new pages and never fills them.
skip_restore(t) ==
    mp[t].at = "restore" /\ Advance(t, "protect") /\ UNCHANGED <<mem, scratch>>

Restore(t) ==
    /\ mp[t].at = "restore"
    /\ LET restored == copy_bytes(Data, scratch[t], mp[t].range)
       IN  mem' = [p \in Pages |-> [mem[p] EXCEPT !.data = restored[p]]]
    /\ Advance(t, "protect")
    /\ UNCHANGED scratch

Protect(t) ==
    /\ mp[t].at = "protect"
    /\ LET raw == raw_mprotect(mem, mp[t].range, mp[t].prot)
       IN  \/ mem' = raw.mem /\ Return(t, IF raw.ok THEN "ok" ELSE "error")
           \/ UNCHANGED mem /\ Return(t, "error")
    /\ raw_munmap(t)

\* A thread outside a call writes to memory it may write to.
Store(t, w) ==
    /\ ~Busy(t)
    /\ "W" \in mem[w.page].prot
    /\ mem' = [mem EXCEPT ![w.page].data[w.offset] = w.value]
    /\ mp' = [Disturb(t, {w.page}) EXCEPT ![t] = NoCopy]
    /\ UNCHANGED scratch

MprotectNext ==
    \E t \in Threads :
      \/ \E range \in Ranges, prot \in Protections : Mprotect(t, range, prot)
      \/ MakeReadable(t) \/ MapScratch(t) \/ Save(t) \/ Replace(t)
      \/ Restore(t) \/ Protect(t)
      \/ \E w \in Writes : Store(t, w)

-----------------------------------------------------------------------------
(* Properties                                                              *)

\* A call that is over and that no other thread has interfered with.
Undisturbed(t) == ~Busy(t) /\ mp[t].result # "none" /\ mp[t].alone

\* The copy is byte-identical as far as length goes: a call no other thread
\* interferes with leaves every byte it is made for as it was, whether it succeeds
\* or fails after any of its system calls.  When it succeeds every page has the
\* protection asked for.  When it fails, a page may have lost the one it had, but
\* then all of them are readable, and writable if that was asked for, or nothing
\* was copied yet and they have the old protection or the new one.
ByteIdentical ==
    \A t \in Threads : Undisturbed(t) =>
      LET c == mp[t]
          pages == PagesOf(c.range)
      IN  /\ \A p \in pages, o \in Offsets :
                Copied(c.range, p, o) => mem[p].data[o] = c.before[p].data[o]
          /\ c.result = "ok" => \A p \in pages : mem[p].prot = c.prot
          /\ c.result = "error" =>
               \/ \A p \in pages : mem[p].prot \in {c.before[p].prot, c.prot}
               \/ \A p \in pages : mem[p].prot = readable_protection(c.prot)
               \/ \A p \in pages : mem[p].prot = {"R", "W"}

\* The anonymous mapping that make_anonymous_executable_copy puts in the place of a
\* refused range is byte-identical, all of it: also the bytes of its last page that
\* length does not count, which mmap replaces and copy_bytes leaves out.
MappingIdentical ==
    \A t \in Threads : Undisturbed(t) =>
      \A p \in PagesOf(mp[t].range) : mem[p].data = mp[t].before[p].data

=============================================================================
