----------------------------- MODULE FileSystem -----------------------------
(***************************************************************************)
(* The VFS of src/src/fs/vfs.cpp over the initial ramdisk of               *)
(* src/src/fs/initrd.cpp, on an image that src/tools/make_initrd.cpp has   *)
(* written, with the hash table of src/lib/hash.h that both keep their     *)
(* descriptors in.                                                         *)
(*                                                                         *)
(* Names and paths are sequences of characters.  A FileInfo* is the        *)
(* file's place in the list.  Calls come from one thread, one at a time.   *)
(***************************************************************************)
EXTENDS Integers, Sequences, SequencesExt

CONSTANTS
  Inputs,      \* what make_initrd is given: sequences of [name, size]
  Modules,     \* what the boot loader has loaded: sets of "initrd", "other"
  Paths,       \* the paths callers open
  Counts,      \* the counts callers read
  Offsets,     \* the offsets callers seek
  HeaderSize,  \* sizeof(FileHeader)
  TableSize,   \* of the hash tables
  Word,        \* 2^64
  MinFd, MaxFd,   \* bound: the values of cur_fd
  MinPos, MaxPos  \* bound: the positions callers seek

ASSUME SizesAssumption ==
  /\ HeaderSize \in Nat \ {0} /\ TableSize \in Nat \ {0} /\ Word \in Nat \ {0}
  /\ MinFd \in Int /\ MaxFd \in Nat /\ MinFd <= 0
  /\ MinPos \in Int /\ MaxPos \in Nat /\ MinPos <= 0
ASSUME CallsAssumption ==
  /\ \A path \in Paths : path # <<>>
  /\ Counts \subseteq Nat /\ Offsets \subseteq Int
ASSUME InputsAssumption ==
  \A in \in Inputs :
    /\ in # <<>> /\ Len(in) \in Nat /\ DOMAIN in = 1 .. Len(in)
    /\ \A i \in DOMAIN in : in[i].size \in Nat
\* Sizes have 32 bits of Word's 64, and no caller asks for so much that a
\* position at or above zero and the count have no sum.
ASSUME NumbersAssumption ==
  \A in \in Inputs : \A i \in DOMAIN in :
    /\ in[i].size - MinPos < Word
    /\ \A n \in Counts : n + MaxPos < Word /\ n + in[i].size < Word

Mountpoint == <<"/">>

VARIABLES
  phase,            \* "boot", "ready", "halted" or "garbage"
  mods,             \* the modules the boot loader reports
  input,            \* ghost: the files the image was made of
  files,            \* the ramdisk's list
  open_files,       \* Initrd's table: descriptor -> place in files
  openFilesystems,  \* VFS's table: descriptor -> file system
  cur_fd,
  reply,            \* what the last call returned
  got,              \* where in the image the last call read, and from which file
  orderly           \* ghost: each close so far was of the newest open descriptor

vars == <<phase, mods, input, files, open_files, openFilesystems, cur_fd, reply, got, orderly>>
boot == <<phase, mods, input>>
tables == <<open_files, openFilesystems>>

-----------------------------------------------------------------------------
(* src/lib/hash.h: a chain of entries for each hash value *)

Hash(k) == (k % Word) % TableSize

EmptyTable == [h \in 0 .. (TableSize - 1) |-> <<>>]

\* The place of k in its chain, 0 if it has none.
Place(t, k) == SelectInSeq(t[Hash(k)], LAMBDA e : e.key = k)

has(t, k) == Place(t, k) # 0
get(t, k) == t[Hash(k)][Place(t, k)].value

\* Wrong on purpose: put does not look for the key.
putTwice(t, k, v) == [t EXCEPT ![Hash(k)] = Append(@, [key |-> k, value |-> v])]

put(t, k, v) ==
  IF has(t, k)
  THEN [t EXCEPT ![Hash(k)][Place(t, k)].value = v]
  ELSE [t EXCEPT ![Hash(k)] = Append(@, [key |-> k, value |-> v])]

\* Wrong on purpose: what was behind the entry is lost with it.
removeTail(t, k) ==
  IF has(t, k) THEN [t EXCEPT ![Hash(k)] = SubSeq(@, 1, Place(t, k) - 1)] ELSE t

remove(t, k) ==
  IF has(t, k) THEN [t EXCEPT ![Hash(k)] = RemoveAt(@, Place(t, k))] ELSE t

Keys(t) == UNION {{e.key : e \in ToSet(t[h])} : h \in DOMAIN t}

-----------------------------------------------------------------------------
(* make_initrd, and the list the ramdisk makes of its image *)

\* Wrong on purpose: the count in front of the headers is forgotten.
DataStartNoCount(in) == HeaderSize * Len(in)

\* The image begins with the count of files and a header for each.
DataStart(in) == HeaderSize * Len(in) + 4

\* All headers have the same offset: the one of the first file's bytes.
Headers(in) ==
  [i \in DOMAIN in |-> [offs |-> DataStart(in), size |-> in[i].size, name |-> in[i].name]]

\* The bytes behind the headers, each named for the file it comes from.
FileBytes(in) == FlattenSeq([i \in DOMAIN in |-> [k \in 1 .. in[i].size |-> <<i, k>>]])
ByteAt(in, x) ==
  LET k == x - (HeaderSize * Len(in) + 4) + 1
  IN  IF k \in DOMAIN FileBytes(in) THEN FileBytes(in)[k] ELSE <<0, 0>>

FileInfos(in) ==
  [i \in DOMAIN in |-> [name |-> Headers(in)[i].name, size |-> Headers(in)[i].size,
                        data |-> Headers(in)[i].offs, cur_pos |-> 0]]

\* strncmp stops at the end of either string, and takes them as equal there.
SameTo(s, t) == IsPrefix(s, t) \/ IsPrefix(t, s)

-----------------------------------------------------------------------------
(* VFS::Initialize with the constructor of Initrd *)

Nothing == [file |-> 0, at |-> 0, count |-> 0]

Init ==
  /\ phase = "boot"
  /\ mods \in Modules
  /\ input \in Inputs
  /\ files = <<>>
  /\ open_files = EmptyTable /\ openFilesystems = EmptyTable
  /\ cur_fd = 0
  /\ reply = 0 /\ got = Nothing /\ orderly = TRUE

Mount ==
  /\ phase = "boot" /\ "initrd" \in mods
  /\ phase' = "ready"
  /\ files' = FileInfos(input)
  /\ UNCHANGED <<mods, input, tables, cur_fd, reply, got, orderly>>

\* No module at all; or none of that name, and initrd_module, which nothing
\* has set, happens to be null.
NoModules ==
  /\ phase = "boot" /\ "initrd" \notin mods
  /\ phase' = "halted"
  /\ UNCHANGED <<mods, input, files, tables, cur_fd, reply, got, orderly>>

\* ... or happens not to be null: whatever it points to is taken for the image.
MountGarbage ==
  /\ phase = "boot" /\ "initrd" \notin mods /\ mods # {}
  /\ phase' = "garbage"
  /\ UNCHANGED <<mods, input, files, tables, cur_fd, reply, got, orderly>>

-----------------------------------------------------------------------------
(* Calls *)

Fds == MinFd .. MaxFd

\* What calls other than read deliver.
Replies(r) == reply' = r /\ got' = Nothing

\* A call on a descriptor VFS or Initrd does not know.
Unknown(fd) == ~has(openFilesystems, fd) \/ ~has(open_files, fd)
Refused(fd) ==
  /\ phase = "ready"
  /\ Unknown(fd)
  /\ Replies(-1)

\* The descriptor's file, once both have found it.
Known(fd) == phase = "ready" /\ ~Unknown(fd)
FileOf(fd) == get(open_files, fd)

\* VFS::open: is the path under the mountpoint, and what follows it.
Mounted(path) == SameTo(Mountpoint, path)
Below(path) == SubSeq(path, Len(Mountpoint) + 1, Len(path))

Found(path) == SelectInSeq(files, LAMBDA f : SameTo(f.name, Below(path)))

OpenOutside(path) ==
  /\ phase = "ready"
  /\ ~Mounted(path)
  /\ Replies(-1)
  /\ UNCHANGED <<boot, files, tables, cur_fd, orderly>>

\* VFS notes even the descriptor of a failed open.
OpenMissing(path) ==
  /\ phase = "ready"
  /\ Mounted(path) /\ Found(path) = 0
  /\ openFilesystems' = put(openFilesystems, -1, "initrd")
  /\ Replies(-1)
  /\ UNCHANGED <<boot, files, open_files, cur_fd, orderly>>

\* Wrong on purpose: the counter has moved already.
OpenedAhead == cur_fd + 1

\* The descriptor open notes and returns.
Opened == cur_fd

Open(path) ==
  /\ phase = "ready" /\ cur_fd < MaxFd
  /\ Mounted(path) /\ Found(path) # 0
  /\ files' = [files EXCEPT ![Found(path)].cur_pos = 0]
  /\ open_files' = put(open_files, Opened, Found(path))
  /\ openFilesystems' = put(openFilesystems, Opened, "initrd")
  /\ cur_fd' = cur_fd + 1
  /\ Replies(Opened)
  /\ UNCHANGED <<boot, orderly>>

\* Wrong on purpose: only what is asked for is held against the size.
FitsFromStart(f, n) == n <= f.size

\* The check of read: the sum is unsigned.
Fits(f, n) == (n + f.cur_pos) % Word <= f.size

ReadRefused(fd, n) ==
  /\ Known(fd)
  /\ ~Fits(files[FileOf(fd)], n)
  /\ Replies(-1)
  /\ UNCHANGED <<boot, files, tables, cur_fd, orderly>>

Read(fd, n) ==
  /\ Known(fd)
  /\ LET i == FileOf(fd)
         f == files[i]
     IN  /\ Fits(f, n)
         /\ files' = [files EXCEPT ![i].cur_pos = @ + n]
         /\ reply' = n
         /\ got' = [file |-> i, at |-> f.data + f.cur_pos, count |-> n]
  /\ UNCHANGED <<boot, tables, cur_fd, orderly>>

Sought(f, offset, whence) ==
  CASE whence = "SEEK_SET" -> offset
    [] whence = "SEEK_CUR" -> f.cur_pos + offset
    [] whence = "SEEK_END" -> f.size - offset

lseek(fd, offset, whence) ==
  /\ Known(fd)
  /\ LET i == FileOf(fd)
         p == Sought(files[i], offset, whence)
     IN  /\ p \in MinPos .. MaxPos
         /\ files' = [files EXCEPT ![i].cur_pos = p]
         /\ Replies(p)
  /\ UNCHANGED <<boot, tables, cur_fd, orderly>>

tell(fd) ==
  /\ Known(fd)
  /\ Replies(files[FileOf(fd)].cur_pos)
  /\ UNCHANGED <<boot, files, tables, cur_fd, orderly>>

ReadUnknown(fd) ==
  /\ Refused(fd)
  /\ UNCHANGED <<boot, files, tables, cur_fd, orderly>>

\* Initrd counts down before it knows the descriptor.
CountDown == cur_fd > MinFd /\ cur_fd' = cur_fd - 1

close(fd) ==
  /\ Known(fd)
  /\ CountDown
  /\ open_files' = remove(open_files, fd)
  /\ orderly' = (orderly /\ fd = cur_fd - 1)
  /\ Replies(0)
  /\ UNCHANGED <<boot, files, openFilesystems>>

\* VFS keeps descriptors for ever, so a second close reaches Initrd as well.
CloseUnknown(fd) ==
  /\ Refused(fd)
  /\ \/ has(openFilesystems, fd) /\ CountDown /\ orderly' = FALSE
     \/ ~has(openFilesystems, fd) /\ UNCHANGED <<cur_fd, orderly>>
  /\ UNCHANGED <<boot, files, tables>>

Next ==
  \/ Mount
  \/ NoModules
  \/ MountGarbage
  \/ \E path \in Paths : OpenOutside(path) \/ OpenMissing(path) \/ Open(path)
  \/ \E fd \in Fds, n \in Counts : ReadRefused(fd, n) \/ Read(fd, n)
  \/ \E fd \in Fds, o \in Offsets, w \in {"SEEK_SET", "SEEK_CUR", "SEEK_END"} : lseek(fd, o, w)
  \/ \E fd \in Fds : tell(fd) \/ ReadUnknown(fd) \/ close(fd) \/ CloseUnknown(fd)

Spec == Init /\ [][Next]_vars

-----------------------------------------------------------------------------
(* Properties *)

InUse == Keys(open_files)
Fresh == orderly => InUse = 0 .. (cur_fd - 1)

\* As long as callers close the newest descriptor first and none twice, the
\* descriptors in use are exactly those below cur_fd, so that open never
\* hands out one that is in use.  The first close that is not of the newest, or the
\* second of one descriptor, leaves cur_fd at a descriptor in use, which open hands
\* out next, or below zero, which open returns for a failure
\* (initrd.cpp:110-112, 133-144).
DescriptorsFresh ==
  [][/\ Fresh'
     /\ orderly /\ ~orderly' => cur_fd' < 0 \/ cur_fd' \in InUse']_vars

KeptOnce(t) ==
  \A h \in DOMAIN t : \A i, j \in DOMAIN t[h] :
    /\ Hash(t[h][i].key) = h
    /\ t[h][i].key = t[h][j].key => i = j

\* Every descriptor Initrd knows can be reached through VFS, and the tables
\* hold a key once, in the chain of its hash value (hash.h:61-131,
\* vfs.cpp:47-48).
TablesWhole ==
  /\ Keys(open_files) \subseteq Keys(openFilesystems)
  /\ KeptOnce(open_files)
  /\ KeptOnce(openFilesystems)

Extent(i) == files[i].data .. (files[i].data + files[i].size - 1)

\* A read that succeeds lies inside its file, unless lseek has set a position
\* below zero and the read reaches back over it: the sum in read's check wraps
\* (initrd.cpp:121-127).
ReadsStayInside ==
  got.count > 0 =>
    LET bytes == got.at .. (got.at + got.count - 1)
    IN  IF got.at >= files[got.file].data
        THEN bytes \subseteq Extent(got.file)
        ELSE files[got.file].data - 1 \in bytes

\* What read delivers of a file, from its position on, are that file's bytes exactly
\* if no file before it has any: all headers have the offset of the first file's
\* bytes, and so every other file reads as bytes of those before it
\* (make_initrd.cpp:23-45, initrd.cpp:79-91, 127).
FilesReadBackIffFirst ==
  got.count > 0 /\ got.at >= files[got.file].data =>
    \A x \in got.at .. (got.at + got.count - 1) :
      ByteAt(input, x) = <<got.file, x - files[got.file].data + 1>>
        <=> \A j \in 1 .. (got.file - 1) : input[j].size = 0

\* What Initrd's constructor prints when it finds no ramdisk, "No modules
\* detected! Unable to mount initrd", before it halts (initrd.cpp:73-77): no
\* other memory is taken for one.
NoInitrdHalts == phase # "garbage"

-----------------------------------------------------------------------------
(* What callers see *)

Access == INSTANCE FileAccess WITH
  Files       <- UNION {DOMAIN in : in \in Inputs},
  Descriptors <- Fds,
  opened      <- [d \in Keys(open_files) |-> get(open_files, d)],
  pos         <- [i \in UNION {DOMAIN in : in \in Inputs} |->
                    IF i \in DOMAIN files THEN files[i].cur_pos ELSE 0]

\* Through both tables and all their chains, a call moves the position of the
\* file its descriptor was opened for and of no other, and calls on
\* descriptors that are not open change nothing (vfs.cpp:24-86,
\* initrd.cpp:94-176).
ImplementsFileAccess == Access!Spec
=============================================================================
