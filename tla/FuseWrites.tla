------------------------------ MODULE FuseWrites ------------------------------
(***************************************************************************)
(* Writes through the mount (fuse.rs): the kernel's calls on file handles, *)
(* the buffer each written handle keeps, and the whole-file writes its     *)
(* closes send to the VFS.                                                 *)
(*                                                                         *)
(* Every call is a task of its own.  What it does under the lock of the    *)
(* buffers is one step; each awaited VFS operation is a step of its own,   *)
(* at the moment it takes effect, and other calls come in between.  The    *)
(* kernel is external: it numbers nothing, sends a handle's release after  *)
(* the handle's other calls, and passes the path it knows a handle's file  *)
(* by, which a rename changes when it is answered.                         *)
(*                                                                         *)
(* A file is a sequence of bytes, a byte the number of the call that wrote *)
(* it; 0 is what an extension fills in.                                    *)
(***************************************************************************)
EXTENDS Integers, Sequences

CONSTANTS
  Name,       \* the paths
  Nowhere,    \* no file, no path
  MaxHandles, \* bound: file handles given out
  Call,       \* calls of the kernel that may be under way at once
  Extent,     \* bound: the length of a file
  MaxIssued   \* bound: calls issued

ASSUME NowhereAssumption == Nowhere \notin Name
ASSUME HandleAssumption == MaxHandles \in Nat
ASSUME ExtentAssumption == Extent \in Nat \ {0}

VARIABLES
  stored,   \* the VFS: the content of every path
  given,    \* handles given out so far
  known,    \* the kernel's path for each of them
  buffer,   \* the write buffers, by handle
  call,     \* what each call is doing
  issued,   \* calls issued so far
  acked,    \* history: by handle, the bytes answered for since a truncation
  excused,  \* history: handles whose file may differ from their last commit
  raced     \* history: handles whose first write overlapped a rename

Handle == 1..MaxHandles

fuseVars == <<stored, given, known, buffer, call, issued, acked, excused, raced>>

Done == [pc |-> "done"]

Empty == [x \in {} |-> x]

Without(f, x) == [y \in DOMAIN f \ {x} |-> f[y]]

\* Vec::resize with zeros.
Resized(data, n) == [i \in 1..n |-> IF i <= Len(data) THEN data[i] ELSE 0]

\* One byte written at an offset, past the end as well.
Spliced(data, i, byte) ==
  [Resized(data, IF i > Len(data) THEN i ELSE Len(data)) EXCEPT ![i] = byte]

On(h) == {c \in Call : call[c] # Done /\ "fh" \in DOMAIN call[c] /\ call[c].fh = h}

\* The kernel uses a handle it has been given and is not giving up.
Usable(h) ==
  /\ h \in 1..given
  /\ \A c \in On(h) : call[c].pc # "create" /\ (call[c].pc = "store" => ~call[c].closing)

\* It holds a directory while a name in it is made, moved or removed.
NamesAtRest == \A c \in Call : call[c].pc \notin {"create", "retarget"}

Issue(c, state) ==
  /\ call[c] = Done
  /\ issued < MaxIssued
  /\ issued' = issued + 1
  /\ call' = [call EXCEPT ![c] = state]

Goes(c, state) == call' = [call EXCEPT ![c] = state] /\ UNCHANGED issued

\* Where a handle's file is: a rename that is under way may have moved it.
Paths(h) ==
  {buffer[h].path} \union
    {call[c].path : c \in {d \in Call : call[d].pc = "retarget" /\ call[d].from = buffer[h].path}}

\* The handles but h whose file is at one of these paths, which something else
\* than a commit of theirs changes.
Upset(paths, h) == {g \in DOMAIN buffer \ {h} : Paths(g) \intersect paths # {}}

FuseInit ==
  /\ stored \in [Name -> {<<0>>, Nowhere}]
  /\ given = 0
  /\ known = [h \in Handle |-> Nowhere]
  /\ buffer = Empty
  /\ call = [c \in Call |-> Done]
  /\ issued = 0
  /\ acked = [h \in Handle |-> Empty]
  /\ excused = {}
  /\ raced = {}

-----------------------------------------------------------------------------
new_fh == given + 1

\* Opened to truncate, the buffer is there at once and dirty.
Open(p, truncate) ==
  /\ new_fh \in Handle
  /\ stored[p] # Nowhere
  /\ given' = new_fh
  /\ known' = [known EXCEPT ![new_fh] = p]
  /\ buffer' = IF truncate
               THEN [h \in DOMAIN buffer \union {new_fh} |->
                       IF h = new_fh THEN [path |-> p, data |-> <<>>, dirty |-> TRUE]
                       ELSE buffer[h]]
               ELSE buffer
  /\ UNCHANGED <<stored, call, issued, acked, excused, raced>>

\* An empty file is written, then its handle made.
BeginCreate(c, p) ==
  /\ new_fh \in Handle
  /\ NamesAtRest
  /\ Issue(c, [pc |-> "create", fh |-> new_fh, path |-> p])
  /\ given' = new_fh
  /\ known' = [known EXCEPT ![new_fh] = p]
  /\ stored' = [stored EXCEPT ![p] = <<>>]
  /\ excused' = excused \union Upset({p}, 0)
  /\ UNCHANGED <<buffer, acked, raced>>

EndCreate(c) ==
  LET h == call[c].fh
      p == call[c].path
  IN  /\ call[c].pc = "create"
      /\ Goes(c, Done)
      /\ buffer' = [g \in DOMAIN buffer \union {h} |->
                      IF g = h THEN [path |-> p, data |-> <<>>, dirty |-> FALSE]
                      ELSE buffer[g]]
      /\ excused' = IF stored[p] = <<>> THEN excused ELSE excused \union {h}
      /\ UNCHANGED <<stored, given, known, acked, raced>>

-----------------------------------------------------------------------------
(* write.                                                                  *)

Splice(h, bufs, i, byte) ==
  /\ buffer' = [bufs EXCEPT ![h] =
       [path |-> @.path, data |-> Spliced(@.data, i, byte), dirty |-> TRUE]]
  /\ acked' = [acked EXCEPT ![h] =
       [j \in DOMAIN @ \union {i} |-> IF j = i THEN byte ELSE @[j]]]

\* A handle with a buffer is written to at once.
WriteBuffered(c, h, i) ==
  /\ h \in DOMAIN buffer
  /\ Usable(h)
  /\ Issue(c, Done)
  /\ Splice(h, buffer, i, issued')
  /\ UNCHANGED <<stored, given, known, excused, raced>>

\* The first write of a handle reads what the file holds, if there is one.
ReadForWrite(c, h, i) ==
  /\ Usable(h)
  /\ h \notin DOMAIN buffer
  /\ known[h] # Nowhere
  /\ LET current == IF stored[known[h]] = Nowhere THEN <<>> ELSE stored[known[h]]
     IN  Issue(c, [pc |-> "insert", fh |-> h, path |-> known[h], data |-> current,
                   at |-> i, byte |-> issued'])
  /\ UNCHANGED <<stored, given, known, buffer, acked, excused, raced>>

InsertedAnew(h, fresh) ==
  [g \in DOMAIN buffer \union {h} |-> IF g = h THEN fresh ELSE buffer[g]]

\* A buffer that another write put there meanwhile stays.
or_insert(h, fresh) ==
  [g \in DOMAIN buffer \union {h} |-> IF g \in DOMAIN buffer THEN buffer[g] ELSE fresh]

InsertAndWrite(c) ==
  LET w == call[c]
      fresh == [path |-> w.path, data |-> w.data, dirty |-> FALSE]
  IN  /\ w.pc = "insert"
      /\ Goes(c, Done)
      /\ Splice(w.fh, or_insert(w.fh, fresh), w.at, w.byte)
      /\ UNCHANGED <<stored, given, known, excused, raced>>

-----------------------------------------------------------------------------
(* commit: the buffer is taken under the lock, then written to the VFS.    *)

\* Something else of this file's is under way: a commit of the handle, or a
\* rename the buffers have not followed.
Overlaps(h) ==
  \/ \E c \in On(h) : call[c].pc = "store"
  \/ \E c \in Call : /\ call[c].pc = "retarget"
                     /\ {call[c].from, call[c].path} \intersect {buffer[h].path, known[h]} # {}

TakePending(c, h, closing) ==
  /\ buffer[h].dirty
  /\ Issue(c, [pc |-> "store", fh |-> h, closing |-> closing,
               path |-> buffer[h].path, data |-> buffer[h].data])
  /\ buffer' = [buffer EXCEPT ![h].dirty = FALSE]
  /\ excused' = IF Overlaps(h) THEN excused \union {h} ELSE excused \ {h}

\* flush, fsync.
Flush(c, h) ==
  /\ h \in DOMAIN buffer
  /\ Usable(h)
  /\ TakePending(c, h, FALSE)
  /\ UNCHANGED <<stored, given, known, acked, raced>>

\* What is left of a handle once it is closed.
Forget(h, bufs) ==
  /\ buffer' = Without(bufs, h)
  /\ acked' = [acked EXCEPT ![h] = Empty]
  /\ known' = [known EXCEPT ![h] = Nowhere]

ReleaseUncommitted(c, h) ==
  /\ h \in DOMAIN buffer
  /\ On(h) = {}
  /\ Issue(c, Done)
  /\ Forget(h, buffer)
  /\ UNCHANGED <<stored, given, excused, raced>>

\* release commits first; a handle with nothing to commit is gone at once.
Release(c, h) ==
  /\ h \in DOMAIN buffer
  /\ On(h) = {}
  /\ IF buffer[h].dirty
     THEN TakePending(c, h, TRUE) /\ UNCHANGED <<known, acked>>
     ELSE Issue(c, Done) /\ Forget(h, buffer) /\ UNCHANGED excused
  /\ UNCHANGED <<stored, given, raced>>

\* The VFS writes the file, or fails; either way a release goes on.
Store(c, written) ==
  LET w == call[c]
  IN  /\ w.pc = "store"
      /\ Goes(c, Done)
      /\ stored' = IF written THEN [stored EXCEPT ![w.path] = w.data] ELSE stored
      /\ excused' = IF written THEN excused \union Upset({w.path}, w.fh)
                    ELSE excused \union {w.fh}
      /\ IF w.closing THEN Forget(w.fh, buffer) ELSE UNCHANGED <<known, buffer, acked>>
      /\ UNCHANGED <<given, raced>>

-----------------------------------------------------------------------------
(* setattr to a size: in the handle's buffer, or by reading and writing.   *)

TruncateBuffer(c, h, size) ==
  /\ h \in DOMAIN buffer
  /\ Usable(h)
  /\ known[h] = buffer[h].path
  /\ Issue(c, Done)
  /\ buffer' = [buffer EXCEPT ![h].data = Resized(@, size), ![h].dirty = TRUE]
  /\ acked' = [acked EXCEPT ![h] = Empty]
  /\ UNCHANGED <<stored, given, known, excused, raced>>

ReadForTruncate(c, p, size) ==
  /\ stored[p] # Nowhere
  /\ Issue(c, [pc |-> "resize", path |-> p, data |-> Resized(stored[p], size)])
  /\ UNCHANGED <<stored, given, known, buffer, acked, excused, raced>>

StoreTruncated(c) ==
  /\ call[c].pc = "resize"
  /\ Goes(c, Done)
  /\ stored' = [stored EXCEPT ![call[c].path] = call[c].data]
  /\ excused' = excused \union Upset({call[c].path}, 0)
  /\ UNCHANGED <<given, known, buffer, acked, raced>>

-----------------------------------------------------------------------------
(* rename: the VFS moves the file, then the buffers follow.                *)

Moving(p) == {h \in DOMAIN buffer : \E c \in On(h) : call[c].pc = "store" /\ call[c].path = p}

Rename(c, p, q) ==
  /\ p # q
  /\ NamesAtRest
  /\ stored[p] # Nowhere
  /\ Issue(c, [pc |-> "retarget", from |-> p, path |-> q])
  /\ stored' = [stored EXCEPT ![q] = stored[p], ![p] = Nowhere]
  /\ excused' = excused \union Upset({q}, 0) \union Moving(p)
  /\ UNCHANGED <<given, known, buffer, acked, raced>>

RetargetedDirty(from, to) ==
  [h \in DOMAIN buffer |->
     IF buffer[h].path = from /\ buffer[h].dirty THEN [buffer[h] EXCEPT !.path = to]
     ELSE buffer[h]]

Retargeted(from, to) ==
  [h \in DOMAIN buffer |->
     IF buffer[h].path = from THEN [buffer[h] EXCEPT !.path = to] ELSE buffer[h]]

\* The kernel forgets what the moved file replaced.
Retarget(c) ==
  LET from == call[c].from
      to == call[c].path
      Loading == {h \in Handle : \E d \in On(h) :
                    call[d].pc \in {"insert", "create"} /\ call[d].path = from}
  IN  /\ call[c].pc = "retarget"
      /\ Goes(c, Done)
      /\ buffer' = Retargeted(from, to)
      /\ known' = [h \in Handle |-> IF known[h] = from THEN to
                                    ELSE IF known[h] = to THEN Nowhere
                                    ELSE known[h]]
      /\ raced' = raced \union Loading
      /\ UNCHANGED <<stored, given, acked, excused>>

\* Open handles of a file that is removed have no path any more.
Unlink(c, p) ==
  /\ NamesAtRest
  /\ stored[p] # Nowhere
  /\ Issue(c, Done)
  /\ stored' = [stored EXCEPT ![p] = Nowhere]
  /\ known' = [h \in Handle |-> IF known[h] = p THEN Nowhere ELSE known[h]]
  /\ excused' = excused \union Upset({p}, 0)
  /\ UNCHANGED <<given, buffer, acked, raced>>

-----------------------------------------------------------------------------
FuseNext ==
  \/ \E p \in Name, truncate \in BOOLEAN : Open(p, truncate)
  \/ \E c \in Call, p \in Name : BeginCreate(c, p)
  \/ \E c \in Call : EndCreate(c)
  \/ \E c \in Call, h \in Handle, i \in 1..Extent : WriteBuffered(c, h, i)
  \/ \E c \in Call, h \in Handle, i \in 1..Extent : ReadForWrite(c, h, i)
  \/ \E c \in Call : InsertAndWrite(c)
  \/ \E c \in Call, h \in Handle : Flush(c, h)
  \/ \E c \in Call, h \in Handle : Release(c, h)
  \/ \E c \in Call, written \in BOOLEAN : Store(c, written)
  \/ \E c \in Call, h \in Handle, size \in 0..Extent : TruncateBuffer(c, h, size)
  \/ \E c \in Call, p \in Name, size \in 0..Extent : ReadForTruncate(c, p, size)
  \/ \E c \in Call : StoreTruncated(c)
  \/ \E c \in Call, p \in Name, q \in Name : Rename(c, p, q)
  \/ \E c \in Call : Retarget(c)
  \/ \E c \in Call, p \in Name : Unlink(c, p)

FuseSpec == FuseInit /\ [][FuseNext]_fuseVars

-----------------------------------------------------------------------------
\* Every write the kernel was answered for is in its handle's buffer, whatever
\* other calls of the handle were under way, until a truncation.
BufferHoldsWrites ==
  \A h \in DOMAIN buffer : \A i \in DOMAIN acked[h] :
    i \in DOMAIN buffer[h].data /\ buffer[h].data[i] = acked[h][i]

\* A handle that is closed leaves in its file what its buffer holds, except
\* when a commit of it failed or overlapped another or a rename, or the file
\* was changed through something else since.
CloseStores ==
  [][\A h \in DOMAIN buffer \ DOMAIN buffer' :
       h \in excused' \/ h \in raced \/ known[h] = Nowhere
         \/ \E p \in Paths(h) : stored'[p] = buffer[h].data]_fuseVars

\* rename in fuse.rs: "a file still open under its old name keeps writing to it
\* at its new one", but for a handle whose first write was reading its file
\* while the rename went through.
FollowUnlessRaced ==
  \A h \in DOMAIN buffer : known[h] # Nowhere /\ h \notin raced => buffer[h].path = known[h]
=============================================================================
