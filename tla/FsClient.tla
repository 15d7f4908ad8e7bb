------------------------------ MODULE FsClient ------------------------------
(***************************************************************************)
(* The file system calls of the Linux compatible layer (syscall/fs.rs),    *)
(* the client they go through (fs/ipc_client.rs) and the message layout    *)
(* the service loop of ext4-srv decodes and answers (ext4-srv/main.rs).    *)
(* What the service does with a request is module FsService; here it is    *)
(* any answer its handlers can give.                                       *)
(*                                                                         *)
(* A message register holds WordBytes = 2 bytes instead of 8, a byte is    *)
(* 0..Base-1, a field of stat's payload is half a register as in the code. *)
(* Bytes of text are those that from_utf8_lossy leaves alone.              *)
(*                                                                         *)
(* carried is the set of message registers that seL4_Call and seL4_Reply   *)
(* carry from buffer to buffer.  do_call and service_loop are written for  *)
(* all of them; the wrappers of sel4-sys leave MR0..MR3, which the kernel  *)
(* passes in CPU registers, out (InRegisters).  Both are explored.         *)
(***************************************************************************)
EXTENDS Integers, Sequences, FiniteSets

CONSTANTS Base,
          NMR,          \* IPC_BUFFER_MSG_REGS, 120 in the code
          FirstDev,     \* 10: descriptors of /dev/null, /dev/zero, /dev/urandom
          MaxFd,        \* bound: the last descriptor the client hands out
          PathNames,    \* byte sequences
          Payloads,     \* byte sequences: file contents, directory entries
          Counts, Seeks, Flags,
          StatPayload   \* <<mode, size_lo, size_hi, ino, nlink>>

ASSUME FsClientConstants ==
  /\ Base \in Nat \ {0} /\ NMR \in Nat /\ NMR > 6
  /\ FirstDev \in Nat /\ FirstDev > 3 /\ MaxFd \in Nat /\ MaxFd > 3
  /\ PathNames \cup Payloads \cup {StatPayload} \subseteq Seq(0..(Base - 1))
  /\ Counts \subseteq Nat /\ Seeks \subseteq Int /\ Flags \subseteq Nat /\ Len(StatPayload) = 5

VARIABLES fd_table, next_fd,   \* FsClient: remote descriptors by local one, 0 for None
          carried,
          cbuf, sbuf,          \* message registers of the client and of the service
          len,                 \* length of the message under way
          pc,                  \* idle, sent, replied, hung
          cur,                 \* its descriptor in the client's numbering
          asked,               \* the request the client means
          got,                 \* the request the service decoded
          answer,              \* the service's FsResponse
          remote, remote_next, \* descriptors open at the service, the next one
          out                  \* what the program saw of its last call
client == <<fd_table, next_fd>>
server == <<sbuf, got, answer, remote, remote_next>>
vars == <<fd_table, next_fd, carried, cbuf, sbuf, len, pc, cur, asked, got,
          answer, remote, remote_next, out>>

MRs == 0..(NMR - 1)
InRegisters == 0..3
Locals == 3..MaxFd
PATH_MR_START == 5
DATA_MR_START == 2

\* Mutant: as many bytes as the buffer has.
MAX_PATH_IPC_All == NMR * 2

\* A path and data fill the registers from their start to the last.
MAX_PATH_IPC == (NMR - PATH_MR_START) * 2
MAX_DATA_IPC == (NMR - DATA_MR_START) * 2
DevNull == FirstDev
DevZero == FirstDev + 1
Devices == FirstDev..(FirstDev + 2)
Lesser(m, n) == IF m < n THEN m ELSE n

\* REQ_OPEN .. REQ_LSEEK.
Code == [open |-> 1, read |-> 2, write |-> 3, close |-> 4, stat |-> 5, getdents64 |-> 6,
         mkdir |-> 7, unlink |-> 8, access |-> 9, file_size |-> 10, lseek |-> 11]
PathOps == {"open", "stat", "mkdir", "unlink", "access"}

(***************************************************************************)
(* Bytes and registers: encode_bytes_to_mrs, decode_bytes_from_mrs and     *)
(* their twins in the service.  Registers past the last are dropped on     *)
(* writing and read as 0.                                                  *)
(***************************************************************************)
Words(n) == (n + 1) \div 2
ByteAt(bytes, k) == IF k \in DOMAIN bytes THEN bytes[k] ELSE 0
Encode(buf, bytes, start) ==
  [m \in MRs |-> LET k == 2 * (m - start) + 1 IN
     IF m \in start..(start + Words(Len(bytes)) - 1)
     THEN ByteAt(bytes, k) + Base * ByteAt(bytes, k + 1) ELSE buf[m]]

Decode(buf, start, n) ==
  [k \in 1..n |-> LET m == start + (k - 1) \div 2
                      w == IF m \in MRs THEN buf[m] ELSE 0
                  IN IF k % 2 = 1 THEN w % Base ELSE (w \div Base) % Base]

(***************************************************************************)
(* Requests.  n is the flags of open, the count of read and getdents64,    *)
(* the whence of lseek.                                                    *)
(***************************************************************************)
Request(op, fd, path, data, off, n) ==
  [op |-> op, fd |-> fd, path |-> path, data |-> data, off |-> off, n |-> n]
NoRequest == Request("none", 0, <<>>, <<>>, 0, 0)

\* Mutant: the path is put where the data of a write goes.
PayloadStart_Data(r) == DATA_MR_START

PayloadStart(r) == IF r.op = "write" THEN DATA_MR_START ELSE PATH_MR_START

\* The registers MR0..MR4, then the payload over them; a write's payload covers
\* its count in MR3.
Marshal(r) ==
  LET bytes == IF r.op = "write" THEN r.data ELSE r.path
      mr == <<r.fd, IF r.op \in PathOps THEN Len(r.path) ELSE r.off,
              IF r.op = "write" THEN Len(r.data) ELSE r.n, 0>>
      head == [m \in MRs |-> IF m = 0 THEN Code[r.op] ELSE IF m < 5 THEN mr[m] ELSE cbuf[m]]
  IN Encode(head, bytes, PayloadStart(r))
MsgLen(r) == IF r.op \in PathOps THEN PATH_MR_START + Words(Len(r.path))
             ELSE IF r.op = "write" THEN DATA_MR_START + Words(Len(r.data)) ELSE 5

\* The client's half of do_call: the buffer is filled and the kernel called.
Ask(fd, r) ==
  /\ pc' = "sent" /\ cur' = fd /\ asked' = r
  /\ cbuf' = Marshal(r) /\ len' = MsgLen(r)
  /\ UNCHANGED <<client, carried, server, out>>

(***************************************************************************)
(* System calls, entered when the program is idle.  What the layer answers *)
(* itself never reaches the client.                                        *)
(***************************************************************************)
Answer(op, rax, data) ==
  /\ pc = "idle"
  /\ out' = [op |-> op, rax |-> rax, data |-> data]
  /\ UNCHANGED <<client, carried, server, cbuf, len, pc, cur, asked>>

Known(fd) == fd \in Locals /\ fd_table[fd] # 0

\* A path longer than MAX_PATH_IPC is ENAMETOOLONG.
PathCall(op, path, flags) ==
  /\ pc = "idle"
  /\ Len(path) <= MAX_PATH_IPC
  /\ op = "open" => next_fd <= MaxFd
  /\ Ask(0, Request(op, 0, path, <<>>, 0, flags))
PathTooLong(op, path) == Len(path) > MAX_PATH_IPC /\ Answer(op, -36, <<>>)

\* sys_openat of a device.
OpenDevice(fd) == Answer("open", fd, <<>>)

FdCall(op, fd, data, off, n) ==
  /\ pc = "idle" /\ Known(fd)
  /\ Ask(fd, Request(op, fd_table[fd], <<>>, data, off, n))
BadFd(op, fd) == ~Known(fd) /\ Answer(op, -9, <<>>)

ReadHere == {0, 1, 2, DevNull, DevZero}
sys_read(fd, n) ==
  \/ fd \in {0, DevNull} /\ Answer("read", 0, <<>>)
  \/ fd \in {1, 2} /\ Answer("read", -9, <<>>)
  \/ fd = DevZero /\ Answer("read", n, [k \in 1..n |-> 0])
  \/ fd \notin ReadHere
     /\ (FdCall("read", fd, <<>>, 0, Lesser(n, MAX_DATA_IPC)) \/ BadFd("read", fd))

\* EFAULT when the program has no page at the buffer's address.
sys_write(fd, data) ==
  \/ fd = 0 /\ Answer("write", -9, <<>>)
  \/ fd \in ReadHere \ {0} /\ Answer("write", Len(data), <<>>)
  \/ fd \notin ReadHere
     /\ \/ FdCall("write", fd, SubSeq(data, 1, Lesser(Len(data), MAX_DATA_IPC)), 0, 0)
        \/ BadFd("write", fd)
        \/ Answer("write", -14, <<>>)

\* The standard and the device descriptors, whoever opened them.
ClosedHere(fd) == fd <= 2 \/ fd \in Devices

sys_close(fd) ==
  \/ ClosedHere(fd) /\ Answer("close", 0, <<>>)
  \/ ~ClosedHere(fd) /\ (FdCall("close", fd, <<>>, 0, 0) \/ BadFd("close", fd))

sys_lseek(fd, off, whence) ==
  \/ ClosedHere(fd) /\ Answer("lseek", -29, <<>>)
  \/ ~ClosedHere(fd) /\ (FdCall("lseek", fd, <<>>, off, whence) \/ BadFd("lseek", fd))

sys_fstat(fd) ==
  \/ ClosedHere(fd) /\ Answer("file_size", 0, <<>>)
  \/ ~ClosedHere(fd) /\ (FdCall("file_size", fd, <<>>, 0, 0) \/ BadFd("file_size", fd))

sys_getdents64(fd, n) ==
  FdCall("getdents64", fd, <<>>, 0, Lesser(n, MAX_DATA_IPC)) \/ BadFd("getdents64", fd)

\* fcntl, ioctl, renameat, ftruncate, readv ...: 0; pipe2, dup, dup3: ENOSYS;
\* mount and umount2: EPERM.
SysStub == \E rax \in {0, -38, -1} : Answer("stub", rax, <<>>)

(***************************************************************************)
(* The service.                                                            *)
(***************************************************************************)
\* Registers the message does not reach keep what they held; the first four
\* are stored from CPU registers (seL4_Recv), whatever is in them.
Deliver(to, from, junk) ==
  [m \in MRs |-> IF m < len /\ m \in carried THEN from[m]
                 ELSE IF m \in InRegisters THEN junk ELSE to[m]]

\* service_loop: MR0..MR4 and the payload.
OpOf(code) == IF \E op \in DOMAIN Code : Code[op] = code
              THEN CHOOSE op \in DOMAIN Code : Code[op] = code ELSE "other"
Unmarshal(buf) ==
  LET op == OpOf(buf[0])
      path == IF op \in PathOps THEN Decode(buf, PATH_MR_START, buf[2]) ELSE <<>>
      data == IF op = "write" THEN Decode(buf, DATA_MR_START, buf[3]) ELSE <<>>
      fd   == IF op \in PathOps \cup {"other"} THEN 0 ELSE buf[1]
      n    == IF op \in {"open", "read", "getdents64", "lseek"} THEN buf[3] ELSE 0
  IN Request(op, fd, path, data, IF op = "lseek" THEN buf[2] ELSE 0, n)

Ok(v)         == [kind |-> "ok", val |-> v, data |-> <<>>, extra |-> 0]
Err(e)        == [kind |-> "err", val |-> e, data |-> <<>>, extra |-> 0]
WithData(d)   == [kind |-> "data", val |-> Len(d), data |-> d, extra |-> 0]
WithData2(d, x) == [kind |-> "data2", val |-> Len(d), data |-> d, extra |-> x]

Fitting(n) == {d \in Payloads : Len(d) <= n}
\* The answers the handlers of service.rs have for a request.  -9 is EBADF; open
\* may pass on a positive error of the ext4 library.
Answers(r) ==
  LET live == r.fd \in remote IN
  IF r.op \in PathOps /\ r.path = <<>> THEN {Err(-22)} ELSE
  CASE r.op = "open"                      -> {Ok(remote_next), Err(-2), Err(5)}
    [] r.op = "stat"                      -> {WithData(StatPayload), Err(-2)}
    [] r.op = "access"                    -> {Ok(0), Err(-2)}
    [] r.op \in {"mkdir", "unlink"}       -> {Ok(0)}
    [] r.op = "close"                     -> {IF live \/ r.fd <= 2 THEN Ok(0) ELSE Err(-9)}
    [] r.op = "read"                      -> IF live THEN {WithData(d) : d \in Fitting(r.n)}
                                             ELSE {IF r.fd = 0 THEN Ok(0) ELSE Err(-9)}
    [] r.op = "write"                     -> {IF live \/ r.fd \in {1, 2} THEN Ok(Len(r.data)) ELSE Err(-9)}
    [] r.op = "getdents64"                -> IF live THEN {WithData2(d, 1) : d \in Fitting(r.n)} ELSE {Err(-9)}
    [] r.op = "file_size"                 -> {IF live THEN Ok(7) ELSE Err(-9)}
    [] r.op = "lseek"                     -> IF live THEN {Ok(7), Err(-22)}
                                             ELSE {Err(IF r.fd <= 2 THEN -29 ELSE -9)}
    [] OTHER                              -> {Err(38)}

\* Mutant: every payload starts after the offset.
ReplyStart_Late(a) == 3

\* write_response, write_response_maybe_data: the directory offset of getdents64
\* comes before the payload.
ReplyStart(a) == IF a.kind = "data2" THEN 3 ELSE DATA_MR_START
WriteResponse(buf, a) ==
  Encode([m \in MRs |-> CASE m = 0 -> IF a.kind = "err" THEN 1 ELSE 0
                          [] m = 1 -> a.val
                          [] m = 2 /\ a.kind = "data2" -> a.extra
                          [] OTHER -> buf[m]],
         a.data, ReplyStart(a))
ReplyLen(a) == IF a.kind = "data2" THEN 3 + Words(Len(a.data)) ELSE 2 + Words(Len(a.data))

\* seL4_Reply hands the length over in the wrong CPU register, so that with
\* the wrappers as they are the kernel sees any length.
Whole == carried = MRs

Serve ==
  /\ pc = "sent"
  /\ \E junk \in {0, 1} :
       LET buf == Deliver(sbuf, cbuf, junk)
           r == Unmarshal(buf) IN
       \E a \in Answers(r) :
         /\ r.op = "open" /\ a.kind = "ok" => remote_next <= MaxFd + 1
         /\ got' = r /\ answer' = a
         /\ sbuf' = WriteResponse(buf, a)
         /\ len' \in {ReplyLen(a)} \cup (IF Whole THEN {} ELSE {NMR})
         /\ IF r.op = "open" /\ a.kind = "ok"
            THEN remote' = remote \cup {remote_next} /\ remote_next' = remote_next + 1
            ELSE /\ remote' = IF r.op = "close" THEN remote \ {r.fd} ELSE remote
                 /\ UNCHANGED remote_next
  /\ pc' = "replied"
  /\ UNCHANGED <<client, carried, cbuf, cur, asked, out>>

\* An unwrap in the ext4 layer: the service spins and the caller waits for ever.
ServerPanics ==
  /\ pc = "sent" /\ pc' = "hung"
  /\ UNCHANGED <<client, carried, server, cbuf, len, cur, asked, out>>

(***************************************************************************)
(* The client's second half: the registers of the reply are read back.     *)
(***************************************************************************)
\* The caller's first four registers are not stored by seL4_Call.
Received == [m \in MRs |-> IF m < len /\ m \in carried THEN sbuf[m] ELSE cbuf[m]]

\* Mutant: the entry is kept.
AfterClose_Kept(ok) == fd_table

\* close forgets the descriptor once the service has closed its own.
AfterClose(ok) == IF ok THEN [fd_table EXCEPT ![cur] = 0] ELSE fd_table

\* What the call returns: an error of the client is negated twice on its way to
\* rax.  stat takes its fields from MR1..MR5.
ReturnValue(mr, ok) ==
  IF ~ok THEN mr[1] ELSE
  CASE asked.op = "open"                                   -> next_fd
    [] asked.op \in {"read", "write", "getdents64", "lseek"} -> mr[1]
    [] OTHER                                               -> 0
ReturnData(mr, ok) ==
  CASE ok /\ asked.op = "stat" -> <<mr[1], mr[2], mr[3], mr[4], mr[5]>>
    [] ok /\ asked.op \in {"read", "getdents64"} ->
         Decode(mr, DATA_MR_START, Lesser(mr[1], asked.n))
    [] OTHER -> <<>>

Finish ==
  /\ pc = "replied"
  /\ LET mr == Received
         ok == mr[0] = 0 IN
       /\ cbuf' = mr
       /\ out' = [op |-> asked.op, rax |-> ReturnValue(mr, ok), data |-> ReturnData(mr, ok)]
       /\ IF asked.op = "open" /\ ok
          THEN /\ fd_table' = [fd_table EXCEPT ![next_fd] = mr[1]]
               /\ next_fd' = next_fd + 1
          ELSE /\ fd_table' = IF asked.op = "close" THEN AfterClose(ok) ELSE fd_table
               /\ UNCHANGED next_fd
  /\ pc' = "idle"
  /\ UNCHANGED <<carried, server, len, cur, asked>>

Hung == pc = "hung" /\ UNCHANGED vars

Init ==
  /\ fd_table = [f \in Locals |-> 0] /\ next_fd = 3
  /\ carried \in {MRs, MRs \ InRegisters}
  /\ cbuf = [m \in MRs |-> 0] /\ sbuf = [m \in MRs |-> 0] /\ len = 0
  /\ pc = "idle" /\ cur = 0 /\ asked = NoRequest /\ got = NoRequest /\ answer = Ok(0)
  /\ remote = {} /\ remote_next = 3
  /\ out = [op |-> "none", rax |-> 0, data |-> <<>>]

Fds == 0..MaxFd \cup Devices
Calls ==
  \/ \E path \in PathNames :
       \/ \E flags \in Flags : PathCall("open", path, flags)
       \/ \E op \in PathOps \ {"open"} : PathCall(op, path, 0)
       \/ \E op \in PathOps : PathTooLong(op, path)
  \/ \E fd \in Devices : OpenDevice(fd)
  \/ \E fd \in Fds :
       \/ \E n \in Counts : sys_read(fd, n) \/ sys_getdents64(fd, n)
       \/ \E data \in Payloads : sys_write(fd, data)
       \/ \E off \in Seeks : sys_lseek(fd, off, 1)
       \/ sys_close(fd) \/ sys_fstat(fd)
  \/ SysStub

Next == Calls \/ Serve \/ ServerPanics \/ Finish \/ Hung

Spec == Init /\ [][Next]_vars

(***************************************************************************)
(* Properties.                                                             *)
(***************************************************************************)
\* A request fits the registers; the entries of a directory may be one register
\* too many for the reply.
TypeOK ==
  /\ fd_table \in [Locals -> Nat] /\ next_fd \in 3..(MaxFd + 1)
  /\ cbuf \in [MRs -> Int] /\ sbuf \in [MRs -> Int] /\ len \in 0..(NMR + 1)
  /\ pc = "sent" => len <= NMR
  /\ pc \in {"idle", "sent", "replied", "hung"}
  /\ remote \subseteq 3..(remote_next - 1)

\* The service decodes every request the client marshals as the client meant
\* it, whatever earlier messages left in the registers -- except write, whose
\* count is not what arrives in MR3 (ipc_client.rs 136-436; ext4-srv/main.rs
\* 155-237).
Understood ==
  Whole /\ pc = "replied" /\ asked.op # "write" => got = asked

Finishes == pc = "replied" /\ pc' = "idle"

\* The program gets the service's answer: the value or the error, the bytes
\* read, and a descriptor that stands for the service's (ipc_client.rs 136-304,
\* 340-436; ext4-srv/main.rs 254-329).
Answered ==
  [][Finishes /\ Whole =>
       /\ IF answer.kind = "err" THEN out'.rax = answer.val
          ELSE CASE asked.op = "open"  -> out'.rax = next_fd /\ fd_table'[next_fd] = answer.val
                 [] asked.op \in {"read", "getdents64", "write", "lseek"} -> out'.rax = answer.val
                 [] OTHER              -> out'.rax = 0
       /\ answer.kind = "data" /\ asked.op = "read" => out'.data = answer.data]_vars

\* The client's table and the service's agree between calls: the entries are
\* distinct, open at the service, and nothing is open there that no entry names
\* (ipc_client.rs 155-170, 277-304).
TablesAgree ==
  Whole /\ pc = "idle" =>
    /\ \A f, g \in Locals : fd_table[f] # 0 /\ fd_table[f] = fd_table[g] => f = g
    /\ {fd_table[f] : f \in Locals} \ {0} = remote

(***************************************************************************)
(* What the comments promise and the code does not do.                     *)
(***************************************************************************)
\* "Server returns: MR1=mode, MR2=size_lo, MR3=size_hi, MR4=ino, MR5=nlink"
\* (ipc_client.rs 194): the program gets the fields the service sent.
StatFields ==
  [][Finishes /\ Whole /\ asked.op = "stat" /\ answer.kind = "data"
       => out'.data = answer.data]_vars

\* "For data-returning operations: MR2+ = payload bytes" (ipc_client.rs 14): the
\* program gets the directory entries the service sent.
EntriesArrive ==
  [][Finishes /\ Whole /\ asked.op = "getdents64" /\ answer.kind = "data2"
       => out'.data = answer.data]_vars

\* "Write: arg1=fd, arg2=unused, arg3=count, MR2+=data" (ext4-srv/main.rs 208):
\* the service gets the bytes the program wrote.
WriteArrives ==
  Whole /\ pc = "replied" /\ asked.op = "write" => got.data = asked.data

\* "10..=12 => Ok(0), // Device files - always OK" (syscall/fs.rs 131): a number
\* that close takes for a device's is no open file's.
DevicesOnly == \A f \in Locals \cap Devices : fd_table[f] = 0

\* "calls `seL4_Call`, and returns `(MR0, MR1, MR2)` from the server's reply"
\* (ipc_client.rs 122-123), with the registers the wrappers carry.
ReplyReturned ==
  [][Finishes => \A m \in 0..2 : m < ReplyLen(answer) => cbuf'[m] = sbuf[m]]_vars
=============================================================================
