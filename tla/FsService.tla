----------------------------- MODULE FsService -----------------------------
(***************************************************************************)
(* The ext4 file service (ext4-srv): service_loop of main.rs, FsService of  *)
(* service.rs and the object store of lwext4-task (EXT4FSImpl).             *)
(*                                                                         *)
(* One thread serves one request at a time: it receives, decodes MR0..MR4  *)
(* and the payload, runs the handler and replies.  A client may send any   *)
(* request with any descriptor, so every action below is enabled whenever  *)
(* the service is alive.  An unwrap() on an error of the ext4 library      *)
(* panics; the panic handler spins, so the client is never answered.       *)
(*                                                                         *)
(* File contents are abstracted to their length, and byte offsets (usize)  *)
(* to integers: a negative offset stands for its two's complement.  The    *)
(* path and flags kept in a FileEntry are never read and are left out, and *)
(* so is the mode the library opened a file in: it may refuse any access.  *)
(***************************************************************************)
EXTENDS Integers, FiniteSets

CONSTANTS
    Paths,      \* path names clients use
    Root,       \* the one that is a directory on the image ("/")
    StoreCap,   \* STORE_CAP: files the ext4 layer holds open
    MaxFd,      \* bound: the largest descriptor handed out
    MaxSize,    \* blocks left on the disk: a file cannot grow beyond
    MaxOff,     \* bound: offsets an lseek may reach, in either direction
    Counts,     \* byte counts of read, write and getdents64
    Requests    \* the request types clients send

Fds == 0..MaxFd
Stores == 0..(StoreCap - 1)
Offsets == (-MaxOff)..MaxOff

\* The empty path, which no file has.
Empty == ""

AllRequests == {"open", "read", "write", "close", "stat", "getdents64", "mkdir",
                "unlink", "access", "file_size", "lseek", "other"}

ASSUME FsAssumption ==
    /\ Root \in Paths /\ Empty \notin Paths /\ "closed" \notin Paths
    /\ Paths \subseteq STRING /\ IsFiniteSet(Paths)
    /\ StoreCap \in Nat \ {0}
    /\ MaxFd \in Nat /\ MaxFd >= 2
    /\ MaxSize \in Nat /\ MaxOff \in Nat
    /\ Counts \subseteq Nat
    /\ Requests \subseteq AllRequests

VARIABLES
    fd_table,   \* FsService.fd_table
    next_fd,
    stores,     \* EXT4FSImpl.stores: the open Ext4File objects
    files,      \* the ext4 image: what each path names and how long it is
    alive,      \* FALSE once the service has panicked
    resp        \* the last reply, with the request it answers

vars == <<fd_table, next_fd, stores, files, alive, resp>>

state == <<fd_table, next_fd, stores, files>>

NoEntry == [inode |-> -1, size |-> 0, offset |-> 0]

Entries == [inode : Stores, size : Nat, offset : Int]

NoFile == [path |-> "closed", kind |-> "none"]

Handles == [path : Paths, kind : {"dir", "reg"}]

Nodes == [kind : {"none", "dir", "reg"}, size : Nat]

Responses == [op : AllRequests, path : Paths \cup {Empty}, fd : Fds,
              arg : Int, status : {"ok", "err"}, val : Int]

\* No request has been answered yet, or the last one never will be.
NoReply == [op |-> "other", path |-> Empty, fd |-> 0, arg |-> 0, status |-> "err", val |-> -38]

\* FsService::new: descriptors 0-2 are reserved, the image holds files.
Init ==
    /\ fd_table = [fd \in Fds |-> NoEntry]
    /\ next_fd = 3
    /\ stores = [i \in Stores |-> NoFile]
    /\ files \in [Paths -> [kind : {"none", "reg"}, size : {0, MaxSize}] \cup
                           {[kind |-> "dir", size |-> 0]}]
    /\ \A p \in Paths : /\ files[p].kind = "dir" <=> p = Root
                        /\ files[p].kind = "none" => files[p].size = 0
    /\ alive = TRUE
    /\ resp = NoReply

Opened(fd) == fd_table[fd] # NoEntry

(***************************************************************************)
(* The ext4 library and FlattenObjects (external), from how they are used. *)
(***************************************************************************)
FreeStores == {i \in Stores : stores[i] = NoFile}

Node(i) == files[stores[i].path]

\* file_seek succeeds within the file; elsewhere, and on a directory or a file
\* removed in the meantime, it may fail.
SeekOk(i, off) == stores[i].kind = "reg" /\ Node(i).kind = "reg" /\ off \in 0..Node(i).size

Smaller(m, n) == IF m < n THEN m ELSE n

(***************************************************************************)
(* Replies (write_response, write_response_maybe_data) and panics.          *)
(***************************************************************************)
Send(op, p, fd, n, status, v) ==
    /\ alive /\ op \in Requests
    /\ alive' = TRUE
    /\ resp' = [op |-> op, path |-> p, fd |-> fd, arg |-> n, status |-> status, val |-> v]

ReplyTo(op, p, fd, status, v) == Send(op, p, fd, 0, status, v)

Panic(op) ==
    /\ alive /\ op \in Requests
    /\ alive' = FALSE
    /\ resp' = NoReply
    /\ UNCHANGED state

Refuse(op, p, fd, e) == ReplyTo(op, p, fd, "err", e) /\ UNCHANGED state

(***************************************************************************)
(* Requests that carry a path.                                             *)
(***************************************************************************)
\* EINVAL for an empty path.
EmptyPath == \E op \in {"open", "stat", "mkdir", "unlink", "access"} : Refuse(op, Empty, 0, -22)

\* EXT4FSImpl::open after O_CREAT: the file is created, or truncated.
Created(p) == [files EXCEPT ![p] = [kind |-> "reg", size |-> 0]]

\* handle_open_with_path: the handle goes into a free store and the descriptor
\* after the last one gets an entry.
NextFd_Reused == IF \E fd \in 3..MaxFd : ~Opened(fd) THEN CHOOSE fd \in 3..MaxFd : ~Opened(fd) ELSE next_fd

NextFd == next_fd

Install(p, fs) ==
    /\ next_fd <= MaxFd
    /\ \E i \in FreeStores :
          /\ stores' = [stores EXCEPT ![i] = [path |-> p, kind |-> fs[p].kind]]
          /\ fd_table' = [fd_table EXCEPT ![NextFd] =
                              [inode |-> i, size |-> fs[p].size, offset |-> 0]]
    /\ next_fd' = next_fd + 1
    /\ files' = fs
    /\ ReplyTo("open", p, NextFd, "ok", NextFd)

\* A handle that finds no free store: EPERM, but what O_CREAT did stays done.
StoresFull(p, fs) ==
    /\ FreeStores = {}
    /\ files' = fs
    /\ ReplyTo("open", p, 0, "err", -1)
    /\ UNCHANGED <<fd_table, next_fd, stores>>

\* Without O_CREAT: a directory, or a regular file.
Open(p) ==
    /\ files[p].kind # "none"
    /\ Install(p, files) \/ StoresFull(p, files)

OpenMissing(p) == files[p].kind = "none" /\ Refuse("open", p, 0, -2)

\* With O_CREAT: file_open(path, flags | O_TRUNC).
OpenCreate(p) ==
    /\ files[p].kind # "dir"
    /\ Install(p, Created(p)) \/ StoresFull(p, Created(p))

\* O_CREAT with the O_DIRECTORY bit.
OpenCreateDir(p) == Refuse("open", p, 0, -1)

\* file_open fails: the library's (positive) error number is passed on.
OpenFails(p) == Refuse("open", p, 0, 5)

\* handle_stat_with_path and handle_access_with_path open the file, which takes a
\* free store, and close it again.  stat answers with 20 bytes of payload.
Borrow_Kept(p) ==
    \E i \in FreeStores : stores' = [stores EXCEPT ![i] = [path |-> p, kind |-> files[p].kind]]

Borrow(p) == FreeStores # {} /\ UNCHANGED stores

\* check_inode_exist; file_open of a file that exists, with flags 0, succeeds.
Found(p) == files[p].kind # "none"

Stat(p) ==
    /\ Found(p) /\ Borrow(p)
    /\ ReplyTo("stat", p, 0, "ok", 20)
    /\ UNCHANGED <<fd_table, next_fd, files>>

StatFails(p) ==
    \/ ~Found(p) /\ Refuse("stat", p, 0, -2)
    \/ Found(p) /\ FreeStores = {} /\ Refuse("stat", p, 0, -1)

Access(p) ==
    /\ Found(p) /\ Borrow(p)
    /\ ReplyTo("access", p, 0, "ok", 0)
    /\ UNCHANGED <<fd_table, next_fd, files>>

\* Any failure to open is reported as ENOENT.
AccessFails(p) == (~Found(p) \/ FreeStores = {}) /\ Refuse("access", p, 0, -2)

\* dir_mk(path).unwrap(): an existing name is an error.
Mkdir(p) ==
    /\ ~Found(p)
    /\ files' = [files EXCEPT ![p] = [kind |-> "dir", size |-> 0]]
    /\ ReplyTo("mkdir", p, 0, "ok", 0)
    /\ UNCHANGED <<fd_table, next_fd, stores>>

MkdirPanics(p) == Found(p) /\ Panic("mkdir")

\* file_remove(path).unwrap(): only an existing regular file can be removed.
Unlink(p) ==
    /\ files[p].kind = "reg"
    /\ files' = [files EXCEPT ![p] = [kind |-> "none", size |-> 0]]
    /\ ReplyTo("unlink", p, 0, "ok", 0)
    /\ UNCHANGED <<fd_table, next_fd, stores>>

UnlinkPanics(p) == files[p].kind # "reg" /\ Panic("unlink")

(***************************************************************************)
(* Requests that name a descriptor.                                        *)
(***************************************************************************)
FdReply(op, fd, n, status, v) == Send(op, Empty, fd, n, status, v)

\* What the handlers answer for 0-2 and for a descriptor without an entry.
FdRefuse(op, fd, e) == FdReply(op, fd, 0, "err", e) /\ UNCHANGED state

BadFd(fd) == fd > 2 /\ ~Opened(fd)

ReadSpecial(fd, n) ==
    \/ fd = 0 /\ FdReply("read", fd, n, "ok", 0) /\ UNCHANGED state
    \/ fd \in {1, 2} /\ FdRefuse("read", fd, -9)
    \/ BadFd(fd) /\ FdRefuse("read", fd, -9)

\* handle_read: seek(offset).unwrap(), read.unwrap(), offset += bytes_read.
Read(fd, n) ==
    LET e == fd_table[fd]
        k == Smaller(n, Node(e.inode).size - e.offset) IN
    /\ Opened(fd) /\ SeekOk(e.inode, e.offset)
    /\ fd_table' = [fd_table EXCEPT ![fd].offset = @ + k]
    /\ FdReply("read", fd, n, "ok", k)
    /\ UNCHANGED <<next_fd, stores, files>>

\* An unwrap() fails, or a seek astray is accepted and nothing is there.
ReadAstray(fd, n) ==
    /\ Opened(fd)
    /\ \/ Panic("read")
       \/ /\ ~SeekOk(fd_table[fd].inode, fd_table[fd].offset)
          /\ FdReply("read", fd, n, "ok", 0)
          /\ UNCHANGED state

\* The payload of a write is decoded as text (from_utf8_lossy): a stray byte and a
\* cut sequence of two or three bytes each become the three bytes of U+FFFD.
Lossy(n) == {m \in n..(3 * n) :
                \E a, b \in 0..n : a + 2 * b <= n /\ m = n + 2 * a + b}

WriteSpecial(fd, n) ==
    \/ fd = 0 /\ FdRefuse("write", fd, -9)
    \/ /\ fd \in {1, 2}
       /\ \E len \in Lossy(n) : FdReply("write", fd, n, "ok", len)
       /\ UNCHANGED state
    \/ BadFd(fd) /\ FdRefuse("write", fd, -9)

Fits_Unchecked(end) == TRUE

Fits(end) == end <= MaxSize

\* handle_write_with_data: the entry's offset and size stay as they are.
Write(fd, n) ==
    LET e == fd_table[fd] IN
    /\ Opened(fd) /\ SeekOk(e.inode, e.offset)
    /\ \E len \in Lossy(n) :
          /\ Fits(e.offset + len)
          /\ files' = [files EXCEPT ![stores[e.inode].path].size =
                          IF e.offset + len > @ THEN e.offset + len ELSE @]
          /\ FdReply("write", fd, n, "ok", len)
    /\ UNCHANGED <<fd_table, next_fd, stores>>

\* An unwrap() fails, or nothing is written: a seek astray, a full disk.
WriteAstray(fd, n) ==
    LET e == fd_table[fd] IN
    /\ Opened(fd)
    /\ \/ Panic("write")
       \/ /\ \/ ~SeekOk(e.inode, e.offset)
             \/ \E len \in Lossy(n) : ~Fits(e.offset + len)
          /\ FdReply("write", fd, n, "ok", 0)
          /\ UNCHANGED state

\* handle_lseek.
LseekSpecial(fd) ==
    \/ fd <= 2 /\ FdRefuse("lseek", fd, -29)
    \/ BadFd(fd) /\ FdRefuse("lseek", fd, -9)

SeekTo(fd, off) ==
    /\ Opened(fd) /\ off \in Offsets
    /\ fd_table' = [fd_table EXCEPT ![fd].offset = off]
    /\ FdReply("lseek", fd, 0, "ok", off)
    /\ UNCHANGED <<next_fd, stores, files>>

LseekSet(fd, off) == off >= 0 /\ SeekTo(fd, off)

LseekCur(fd, off) == SeekTo(fd, fd_table[fd].offset + off)

LseekEnd(fd, off) == off <= 0 /\ SeekTo(fd, fd_table[fd].size + off)

\* A negative SEEK_SET, a positive SEEK_END or an unknown whence.
LseekInvalid(fd) == Opened(fd) /\ FdRefuse("lseek", fd, -22)

\* Entries lwext4_dir_entries finds: the image is one flat directory.
DirEntries(p) == IF p = Root THEN Cardinality({q \in Paths \ {Root} : Found(q)}) ELSE 0

\* handle_getdents64: entries from the offset on, as many as fit; skip() of a
\* negative (huge) offset skips them all.
Getdents(fd, n) ==
    LET e == fd_table[fd]
        left == DirEntries(stores[e.inode].path) - e.offset
        k == IF e.offset < 0 \/ left < 0 THEN 0 ELSE Smaller(n, left) IN
    /\ Opened(fd) /\ stores[e.inode].kind = "dir"
    /\ fd_table' = [fd_table EXCEPT ![fd].offset = @ + k]
    /\ FdReply("getdents64", fd, n, "ok", k)
    /\ UNCHANGED <<next_fd, stores, files>>

\* lwext4_dir_entries().unwrap() on a regular file.
GetdentsPanics(fd) ==
    Opened(fd) /\ stores[fd_table[fd].inode].kind = "reg" /\ Panic("getdents64")

GetdentsBad(fd) == ~Opened(fd) /\ FdRefuse("getdents64", fd, -9)

\* handle_file_size: the size when the file was opened.
FileSize(fd) == Opened(fd) /\ FdReply("file_size", fd, 0, "ok", fd_table[fd].size) /\ UNCHANGED state

FileSizeBad(fd) == ~Opened(fd) /\ FdRefuse("file_size", fd, -9)

\* handle_close: the store and the entry are freed together.
Close(fd) ==
    /\ Opened(fd)
    /\ stores' = [stores EXCEPT ![fd_table[fd].inode] = NoFile]
    /\ fd_table' = [fd_table EXCEPT ![fd] = NoEntry]
    /\ FdReply("close", fd, 0, "ok", 0)
    /\ UNCHANGED <<next_fd, files>>

CloseOther(fd) ==
    \/ fd <= 2 /\ FdReply("close", fd, 0, "ok", 0) /\ UNCHANGED state
    \/ BadFd(fd) /\ FdRefuse("close", fd, -9)

\* A request type the loop does not know: 38, not -38.
Unknown == FdRefuse("other", 0, 38)

(***************************************************************************)
(* Specification.                                                          *)
(***************************************************************************)
PathNext(p) ==
    \/ Open(p) \/ OpenMissing(p) \/ OpenCreate(p) \/ OpenCreateDir(p) \/ OpenFails(p)
    \/ Stat(p) \/ StatFails(p) \/ Access(p) \/ AccessFails(p)
    \/ Mkdir(p) \/ MkdirPanics(p) \/ Unlink(p) \/ UnlinkPanics(p)

FdNext(fd) ==
    \/ \E n \in Counts :
          \/ ReadSpecial(fd, n) \/ Read(fd, n) \/ ReadAstray(fd, n)
          \/ WriteSpecial(fd, n) \/ Write(fd, n) \/ WriteAstray(fd, n)
          \/ Getdents(fd, n)
    \/ \E off \in Offsets : LseekSet(fd, off) \/ LseekCur(fd, off) \/ LseekEnd(fd, off)
    \/ LseekSpecial(fd) \/ LseekInvalid(fd)
    \/ GetdentsPanics(fd) \/ GetdentsBad(fd)
    \/ FileSize(fd) \/ FileSizeBad(fd)
    \/ Close(fd) \/ CloseOther(fd)

\* The panic handler spins for ever.
Spin == ~alive /\ UNCHANGED vars

Next ==
    \/ \E p \in Paths : PathNext(p)
    \/ \E fd \in Fds : FdNext(fd)
    \/ EmptyPath
    \/ Unknown
    \/ Spin

Spec == Init /\ [][Next]_vars

(***************************************************************************)
(* Properties.                                                             *)
(***************************************************************************)
\* Every variable has its type, and no file outgrows the disk.
TypeOK ==
    /\ fd_table \in [Fds -> Entries \cup {NoEntry}]
    /\ next_fd \in 3..(MaxFd + 1)
    /\ stores \in [Stores -> Handles \cup {NoFile}]
    /\ files \in [Paths -> Nodes]
    /\ \A p \in Paths : files[p].size <= MaxSize
    /\ alive \in BOOLEAN
    /\ resp \in Responses

\* Open descriptors and occupied stores correspond one to one: no request, failed
\* or not, leaks one of the STORE_CAP stores or shares one between descriptors.
StoresMatch ==
    /\ \A fd \in Fds : Opened(fd) => fd \in 3..(next_fd - 1) /\ stores[fd_table[fd].inode] # NoFile
    /\ \A f, g \in Fds : Opened(f) /\ Opened(g) /\ fd_table[f].inode = fd_table[g].inode => f = g
    /\ \A i \in Stores : stores[i] # NoFile => \E fd \in Fds : Opened(fd) /\ fd_table[fd].inode = i

\* The file a descriptor designates, looked up through its store.
FileOf(fd) == IF Opened(fd) THEN stores[fd_table[fd].inode].path ELSE "closed"

OF == INSTANCE OpenFiles
        WITH Closed <- "closed", file <- [fd \in Fds |-> FileOf(fd)], used <- 3..(next_fd - 1)

\* A descriptor designates the file it was opened on until it is closed and is
\* never handed out again, whatever happens to the stores in between.
OpenFilesSpec == OF!Spec
=============================================================================
