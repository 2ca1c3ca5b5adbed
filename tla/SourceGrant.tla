------------------------------ MODULE SourceGrant ------------------------------
(****************************************************************************)
(* PathGrant of sources.rs: a person's grant freezes the fingerprints of    *)
(* one file, or of all the files below a directory, and each later read is  *)
(* refused unless they are still the same.  Any other program may change    *)
(* the files between two system calls.                                      *)
(*                                                                          *)
(* A granted file is read through the one handle the grant holds: clones of *)
(* it share its offset, so two reads at once move each other's.  Files in a *)
(* granted directory are opened anew by every read.                         *)
(*                                                                          *)
(* Contents are sequences of cells.  Every change to a file, and every loss *)
(* of one of its names, gives its inode a new stamp (mtime and ctime): the  *)
(* clock of the file system is taken to be fine enough to tell them apart.  *)
(* A subdirectory is one more place for names, enumerated when it is        *)
(* reached; the names here are those of one directory.                      *)
(****************************************************************************)
EXTENDS Integers, Sequences

CONSTANTS
  Kind,           \* "file" or "directory": what was granted
  Names,          \* a sequence: the names that may exist, in byte order
  Granted,        \* the names that exist at first
  Alias,          \* [names -> folded name]
  Bytes,          \* the values of a cell
  FirstCells,     \* the contents the files may have at first
  Readers,        \* the threads that read through the grant
  MaxEdits,       \* a bound on the changes other programs make
  MaxBytes,       \* a bound on what one read collects while others seek back
  None, Link      \* no entry under a name; a symbolic link or a special file

NameSet == {Names[i] : i \in DOMAIN Names}

Limits ==
  /\ Kind \in {"file", "directory"} /\ Granted \subseteq NameSet
  /\ Kind = "file" => \E n \in NameSet : Granted = {n}
  /\ Names \in Seq(NameSet) /\ FirstCells \subseteq Seq(Bytes) /\ MaxEdits \in Nat
  /\ {None, Link} \cap Nat = {}

\* Byte order; the inode in a name's place is the one it has at first, if any.
Place(n) == CHOOSE i \in DOMAIN Names : Names[i] = n

VARIABLES
  disk,           \* the inodes: a sequence of [cells, stamp]
  entries,        \* [NameSet -> inode, None or Link]
  clock,          \* the number of changes so far
  offset,         \* of the shared handle and of each reader's own
  frozen,         \* the grant: a function from names to fingerprints, or None
  readers,        \* one record for each of Readers
  versions        \* ghost: every <<inode, stamp, cells>> that ever existed

vars == <<disk, entries, clock, offset, frozen, readers, versions>>

Cells == [1 .. 2 -> Bytes]

Idle == [pass |-> "idle", pc |-> "none", want |-> None, todo |-> {}, inode |-> 0,
         stamp |-> 0, bytes |-> <<>>, found |-> <<>>, kept |-> <<>>, seen |-> <<>>]

Shared == "root"

Init ==
  \E cells \in FirstCells :
    /\ disk = [i \in DOMAIN Names |-> [cells |-> cells, stamp |-> 0]]
    /\ entries = [n \in NameSet |-> IF n \in Granted THEN Place(n) ELSE None]
    /\ clock = 0
    /\ offset = [h \in Readers \cup {Shared} |-> 0]
    /\ frozen = None
    /\ readers = [r \in Readers |-> Idle]
    /\ versions = {<<i, 0, cells>> : i \in DOMAIN Names}

(****************************************************************************)
(* Other programs.                                                          *)
(****************************************************************************)
Inode(n) == entries[n] \in DOMAIN disk

Changed(newDisk) ==
  /\ clock < MaxEdits
  /\ clock' = clock + 1
  /\ disk' = newDisk
  /\ versions' = versions \cup {<<i, newDisk[i].stamp, newDisk[i].cells>> : i \in DOMAIN newDisk}
  /\ UNCHANGED <<offset, frozen, readers>>

Stamped(i, cells) == [disk EXCEPT ![i] = [cells |-> cells, stamp |-> clock + 1]]

Overwrite(n, i, v) ==
  /\ Inode(n)
  /\ i \in DOMAIN disk[entries[n]].cells
  /\ Changed(Stamped(entries[n], [disk[entries[n]].cells EXCEPT ![i] = v]))
  /\ UNCHANGED entries

Extend(n, v) ==
  /\ Inode(n)
  /\ Changed(Stamped(entries[n], Append(disk[entries[n]].cells, v)))
  /\ UNCHANGED entries

Truncate(n) ==
  /\ Inode(n)
  /\ disk[entries[n]].cells # <<>>
  /\ LET cells == disk[entries[n]].cells
     IN  Changed(Stamped(entries[n], SubSeq(cells, 1, Len(cells) - 1)))
  /\ UNCHANGED entries

\* The inode a name loses is stamped: its number of links changed.
Unlinked(n) == IF Inode(n) THEN Stamped(entries[n], disk[entries[n]].cells) ELSE disk

Replace(n, cells) ==
  /\ Changed(Append(Unlinked(n), [cells |-> cells, stamp |-> clock + 1]))
  /\ entries' = [entries EXCEPT ![n] = Len(disk) + 1]

Unlink(n) ==
  /\ entries[n] # None
  /\ Changed(Unlinked(n))
  /\ entries' = [entries EXCEPT ![n] = None]

PutLink(n) ==
  /\ Changed(Unlinked(n))
  /\ entries' = [entries EXCEPT ![n] = Link]

Edit ==
  \E n \in NameSet :
    \/ \E i \in 1 .. 3, v \in Bytes : Overwrite(n, i, v)
    \/ \E v \in Bytes : Extend(n, v)
    \/ Truncate(n)
    \/ \E cells \in Cells : Replace(n, cells)
    \/ Unlink(n)
    \/ PutLink(n)

(****************************************************************************)
(* One pass over files: enumerate, then open, read and fingerprint each.    *)
(****************************************************************************)
Step(r, record) ==
  /\ readers' = [readers EXCEPT ![r] = record]
  /\ UNCHANGED <<disk, entries, clock, versions>>

Refused(r) == [Idle EXCEPT !.pass = "refused"]

Refuse(r) == Step(r, Refused(r)) /\ UNCHANGED <<offset, frozen>>

Begin(record, pass) == [record EXCEPT !.pass = pass, !.pc = "enumerate"]

Handle(r) == IF Kind = "file" THEN Shared ELSE r

Present == {n \in NameSet : entries[n] # None}

\* A link, a special file or two names that differ in case only reject the whole directory.
Unacceptable ==
  \/ \E n \in NameSet : entries[n] = Link
  \/ \E m, n \in NameSet : m # n /\ entries[m] # None /\ entries[n] # None /\ Alias[m] = Alias[n]

Enumerate(r) ==
  /\ readers[r].pc = "enumerate"
  /\ IF Kind = "directory" /\ Unacceptable
     THEN Refuse(r)
     ELSE /\ Step(r, [readers[r] EXCEPT
               !.pc = "open",
               !.todo = IF Kind = "file" THEN Granted ELSE Present])
          /\ UNCHANGED <<offset, frozen>>

\* The grant of a file holds it open under whatever name.
HeldInode == Place(CHOOSE n \in Granted : TRUE)

\* The next file, in byte order.
First(names) == CHOOSE n \in names : \A m \in names : Place(n) <= Place(m)

Open(r) ==
  /\ readers[r].pc = "open"
  /\ readers[r].todo # {}
  /\ LET n == First(readers[r].todo)
     IN  IF Kind = "directory" /\ ~Inode(n)
         THEN Refuse(r)
         ELSE /\ Step(r, [readers[r] EXCEPT
                   !.pc = "stat",
                   !.inode = IF Kind = "file" THEN HeldInode ELSE entries[n]])
              /\ UNCHANGED <<offset, frozen>>

Stat(r) ==
  /\ readers[r].pc = "stat"
  /\ Step(r, [readers[r] EXCEPT
       !.pc = "read", !.stamp = disk[readers[r].inode].stamp, !.bytes = <<>>])
  /\ offset' = [offset EXCEPT ![Handle(r)] = 0]
  /\ UNCHANGED frozen

Rest(r) ==
  LET cells == disk[readers[r].inode].cells
  IN  SubSeq(cells, offset[Handle(r)] + 1, Len(cells))

\* One call of read returns any part of what is left.
ReadSome(r) ==
  /\ readers[r].pc = "read"
  /\ \E k \in 1 .. Len(Rest(r)) :
       /\ Len(readers[r].bytes) + k <= MaxBytes
       /\ Step(r, [readers[r] EXCEPT !.bytes = @ \o SubSeq(Rest(r), 1, k)])
       /\ offset' = [offset EXCEPT ![Handle(r)] = @ + k]
  /\ UNCHANGED frozen

Fingerprint(record) == [sha256 |-> record.bytes, inode |-> record.inode, stamp |-> record.stamp]

Insert(found, n, fingerprint) ==
  [m \in DOMAIN found \cup {n} |-> IF m = n THEN fingerprint ELSE found[m]]

\* Mutant: what was written while it was read shows in the length alone.
SameLength(record) == Len(disk[record.inode].cells) = Len(record.bytes)

\* The file is the same before and after it was read.
Unchanged(record) ==
  /\ disk[record.inode].stamp = record.stamp
  /\ Len(disk[record.inode].cells) = Len(record.bytes)

ReadEnd(r) ==
  /\ readers[r].pc = "read"
  /\ Rest(r) = <<>>
  /\ LET n == First(readers[r].todo)
     IN  IF Unchanged(readers[r])
         THEN /\ Step(r, [readers[r] EXCEPT
                   !.pc = "open",
                   !.kept = IF readers[r].pass = "file" THEN readers[r].bytes ELSE @,
                   !.todo = @ \ {n}, !.inode = 0, !.stamp = 0, !.bytes = <<>>,
                   !.found = Insert(@, n, Fingerprint(readers[r]))])
              /\ UNCHANGED <<offset, frozen>>
         ELSE Refuse(r)

PassDone(r) == readers[r].pc = "open" /\ readers[r].todo = {}

(****************************************************************************)
(* freeze.                                                                  *)
(****************************************************************************)
\* What happened before the grant was opened does not matter.
Freeze(r) ==
  /\ frozen = None
  /\ clock = 0
  /\ \A s \in Readers : readers[s].pass = "idle"
  /\ Step(r, Begin(Idle, "freeze"))
  /\ UNCHANGED <<offset, frozen>>

Frozen(r) ==
  /\ readers[r].pass = "freeze"
  /\ PassDone(r)
  /\ frozen' = readers[r].found
  /\ Step(r, Idle)
  /\ UNCHANGED offset

(****************************************************************************)
(* read_file: the set is compared, the file read and compared, and the set  *)
(* compared once more.                                                      *)
(****************************************************************************)
ReadFile(r, n) ==
  /\ frozen # None
  /\ readers[r].pass \in {"idle", "returned", "refused"}
  /\ Step(r, Begin([Idle EXCEPT !.want = n], "before"))
  /\ UNCHANGED <<offset, frozen>>

SameSet(r) == readers[r].found = frozen

SameFile(r) == readers[r].found[readers[r].want] = frozen[readers[r].want]

Validated(r) ==
  /\ readers[r].pass = "before"
  /\ PassDone(r)
  /\ IF SameSet(r) /\ readers[r].want \in DOMAIN frozen
     THEN /\ Step(r, [readers[r] EXCEPT !.pass = "file", !.pc = "open",
                                        !.todo = {readers[r].want}, !.found = <<>>])
          /\ UNCHANGED <<offset, frozen>>
     ELSE Refuse(r)

\* What the granted names hold now: a granted file is known by its handle.
Current(n) ==
  LET i == IF Kind = "file" THEN HeldInode ELSE entries[n]
  IN  IF i \in DOMAIN disk THEN <<i, disk[i].stamp>> ELSE <<0, 0>>

FileRead(r) ==
  /\ readers[r].pass = "file"
  /\ PassDone(r)
  /\ IF SameFile(r)
     THEN /\ Step(r, [Begin(readers[r], "after") EXCEPT
               !.found = <<>>,
               !.seen = [n \in NameSet |-> Current(n)]])
          /\ UNCHANGED <<offset, frozen>>
     ELSE Refuse(r)

\* The bytes are kept apart from those the last comparison reads.
Returned(r) ==
  /\ readers[r].pass = "after"
  /\ PassDone(r)
  /\ IF SameSet(r)
     THEN /\ Step(r, [readers[r] EXCEPT !.pass = "returned", !.pc = "none", !.found = <<>>])
          /\ UNCHANGED <<offset, frozen>>
     ELSE Refuse(r)

Next ==
  \/ Edit
  \/ \E r \in Readers :
       \/ Freeze(r) \/ Frozen(r)
       \/ \E n \in NameSet : ReadFile(r, n)
       \/ Enumerate(r) \/ Open(r) \/ Stat(r) \/ ReadSome(r) \/ ReadEnd(r)
       \/ Validated(r) \/ FileRead(r) \/ Returned(r)

Spec == Init /\ [][Next]_vars

(****************************************************************************)
(* Properties.                                                              *)
(****************************************************************************)
TypeOK ==
  /\ \A i \in DOMAIN disk : disk[i].cells \in Seq(Bytes) /\ disk[i].stamp \in 0 .. clock
  /\ entries \in [NameSet -> (DOMAIN disk) \cup {None, Link}]
  /\ clock \in 0 .. MaxEdits
  /\ \A h \in DOMAIN offset : offset[h] \in Nat
  /\ frozen = None \/ DOMAIN frozen \subseteq NameSet
  /\ \A r \in Readers :
       /\ readers[r].pass \in {"idle", "freeze", "before", "file", "after", "returned", "refused"}
       /\ readers[r].pc \in {"none", "enumerate", "open", "stat", "read"}
       /\ readers[r].pc \in {"stat", "read"} => readers[r].todo # {}
       /\ readers[r].pc = "none" <=> readers[r].pass \in {"idle", "returned", "refused"}

Returning(r) == readers[r].pass = "returned"

\* sources.rs:1252-1294: whatever is written between the calls of the read, a grant never holds
\* a mixture of two versions of a file.
FrozenIsWhole ==
  frozen # None =>
    \A n \in DOMAIN frozen : <<frozen[n].inode, frozen[n].stamp, frozen[n].sha256>> \in versions

\* sources.rs:702-713: the bytes a read returns are those of the granted version, also when
\* other reads move the offset of the same handle meanwhile.
ReturnedIsGranted ==
  \A r \in Readers : Returning(r) =>
    LET n == readers[r].want
    IN  <<frozen[n].inode, frozen[n].stamp, readers[r].kept>> \in versions

\* sources.rs:782-801: when the last byte was read every granted file, not only the one that
\* was asked for, was still there and still the one that was granted.
GrantHeldWhenRead ==
  \A r \in Readers : Returning(r) =>
    \A n \in DOMAIN frozen : readers[r].seen[n] = <<frozen[n].inode, frozen[n].stamp>>
================================================================================
