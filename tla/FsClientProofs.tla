--------------------------- MODULE FsClientProofs ---------------------------
(***************************************************************************)
(* Theorems about the file system client and the message layout it shares  *)
(* with the service, for every size of the buffer, every path and payload  *)
(* that fits, and every sequence of calls and answers.                     *)
(***************************************************************************)
EXTENDS FsClient, SequenceTheorems, TLAPS

Bytes == 0..(Base - 1)
Regs == [MRs -> Int]

(***************************************************************************)
(* The inductive invariant.  Requests are what the calls can ask; while    *)
(* one is under way the client's registers hold it and, once it is         *)
(* answered, the service's hold the answer.  The two tables differ only    *)
(* between the service's step and the client's.                            *)
(***************************************************************************)
FdOps == {"read", "write", "close", "getdents64", "file_size", "lseek"}
IsRequest(r) ==
  /\ r = Request(r.op, r.fd, r.path, r.data, r.off, r.n)
  /\ r.op \in PathOps \cup FdOps
  /\ r.fd \in Nat /\ r.path \in Seq(Bytes) /\ r.data \in Seq(Bytes)
  /\ r.off \in Int /\ r.n \in Nat
  /\ r.op \in PathOps => r.fd = 0 /\ Len(r.path) <= MAX_PATH_IPC
  /\ r.op \notin PathOps => r.path = <<>>
  /\ IF r.op = "write" THEN Len(r.data) <= MAX_DATA_IPC ELSE r.data = <<>>
  /\ r.op # "lseek" => r.off = 0
  /\ r.op \notin {"open", "read", "getdents64", "lseek"} => r.n = 0
  /\ r.op \in {"read", "getdents64"} => r.n <= MAX_DATA_IPC

\* The registers of a request, as far as the service reads them.
Holds(buf, r) ==
  /\ buf[0] = Code[r.op] /\ buf[1] = r.fd
  /\ r.op \in PathOps => /\ buf[2] = Len(r.path)
                         /\ Decode(buf, PATH_MR_START, Len(r.path)) = r.path
  /\ r.op = "lseek" => buf[2] = r.off
  /\ IF r.op = "write" THEN buf[3] \in Nat ELSE buf[3] = r.n

Kinds == {"ok", "err", "data", "data2"}
IsAnswer(a, r) ==
  /\ a.kind \in Kinds /\ a.val \in Int /\ a.data \in Seq(Bytes) /\ a.extra \in Int
  /\ a.kind \in {"data", "data2"} => a.val = Len(a.data)
  /\ a.kind = "data" => r.op \in {"read", "stat"}
  /\ a.kind = "data2" => r.op = "getdents64"
  /\ a.kind \in {"data", "data2"} /\ r.op # "stat" => Len(a.data) <= r.n
  /\ r.op = "stat" /\ a.kind = "data" => a.data = StatPayload
  /\ a.kind \notin {"data", "data2"} => a.data = <<>>

\* The registers of an answer, as far as the client reads them.
HoldsAnswer(buf, a) ==
  /\ buf[0] = (IF a.kind = "err" THEN 1 ELSE 0) /\ buf[1] = a.val
  /\ a.kind = "data" => Decode(buf, DATA_MR_START, Len(a.data)) = a.data

Entries == {fd_table[f] : f \in Locals} \ {0}
Distinct == \A f, g \in Locals : fd_table[f] # 0 /\ fd_table[f] = fd_table[g] => f = g
Opened == asked.op = "open" /\ answer.kind = "ok"
Asking == pc \in {"sent", "replied"}

TypeInv ==
  /\ carried \in {MRs, MRs \ InRegisters}
  /\ fd_table \in [Locals -> Nat] /\ next_fd \in 3..(MaxFd + 1)
  /\ cbuf \in Regs /\ sbuf \in Regs /\ len \in 0..(NMR + 1)
  /\ pc \in {"idle", "sent", "replied", "hung"}
  /\ remote_next \in Nat /\ remote_next >= 3 /\ remote \subseteq 3..(remote_next - 1)
  /\ \A f \in Locals : f >= next_fd => fd_table[f] = 0
AskInv ==
  Asking =>
    /\ IsRequest(asked)
    /\ asked.op = "open" => next_fd <= MaxFd
    /\ asked.op \in FdOps => cur \in Locals /\ fd_table[cur] # 0 /\ asked.fd = fd_table[cur]
    /\ asked.op = "close" => ~ClosedHere(cur)
    /\ Holds(cbuf, asked)
    /\ pc = "sent" => len = MsgLen(asked)
AnswerInv ==
  Whole /\ pc = "replied" =>
    /\ IsAnswer(answer, asked) /\ HoldsAnswer(sbuf, answer)
    /\ len = ReplyLen(answer)
    /\ asked.op # "write" => got = asked
TableInv ==
  Whole =>
    /\ Distinct
    /\ pc \in {"idle", "sent"} => remote = Entries
    /\ pc = "replied" =>
         /\ Opened => /\ answer.val \in remote /\ answer.val \notin Entries
                      /\ remote = Entries \cup {answer.val}
         /\ asked.op = "close" => remote = Entries \ {asked.fd} /\ answer.kind = "ok"
         /\ ~Opened /\ asked.op # "close" => remote = Entries
LostInv == ~Whole => \A f \in Locals : fd_table[f] = 0
IInv == TypeInv /\ AskInv /\ AnswerInv /\ TableInv /\ LostInv


-----------------------------------------------------------------------------
(***************************************************************************)
(* Bytes in registers.                                                     *)
(***************************************************************************)
\* The two bytes of a register are read back.
LEMMA SplitWord ==
    ASSUME NEW x \in Bytes, NEW y \in Bytes
    PROVE  /\ (x + Base * y) % Base = x
           /\ ((x + Base * y) \div Base) % Base = y
           /\ x + Base * y \in Nat
<1> DEFINE a == x + Base * y
<1> DEFINE q == a \div Base
<1> DEFINE r == a % Base
<1>1. x \in Nat /\ y \in Nat /\ x < Base /\ y < Base /\ Base \in Nat /\ Base > 0
  BY FsClientConstants DEF Bytes
<1>2. a \in Nat /\ a = x + Base * y
  BY <1>1
<1> HIDE DEF a
<1>3. q \in Nat /\ r \in Nat /\ r < Base /\ a = q * Base + r
  BY <1>1, <1>2
<1> HIDE DEF q, r
<1>4. q = y
  <2>1. CASE q < y
    <3>1. q + 1 <= y
      BY <1>1, <1>3, <2>1
    <3>2. (q + 1) * Base <= y * Base
      BY <1>1, <1>3, <3>1
    <3> QED
      BY <1>1, <1>2, <1>3, <3>2
  <2>2. CASE q > y
    <3>1. y + 1 <= q
      BY <1>1, <1>3, <2>2
    <3>2. (y + 1) * Base <= q * Base
      BY <1>1, <1>3, <3>1
    <3> QED
      BY <1>1, <1>2, <1>3, <3>2
  <2> QED
    BY <1>1, <1>3, <2>1, <2>2
<1>5. r = x
  BY <1>1, <1>2, <1>3, <1>4
<1>6. y % Base = y
  <2>1. \A n \in Nat : n < Base => n % Base = n
    BY <1>1
  <2> QED
    BY <1>1, <2>1
<1> QED
  BY <1>2, <1>4, <1>5, <1>6 DEF a, q, r

\* Registers needed for n bytes, and the one that holds the k-th.
LEMMA WordFacts ==
    ASSUME NEW n \in Nat
    PROVE  /\ Words(n) \in Nat /\ 2 * Words(n) >= n /\ 2 * Words(n) <= n + 1
           /\ \A k \in 1..n : /\ (k - 1) \div 2 \in 0..(Words(n) - 1)
                              /\ k % 2 = 1 => 2 * ((k - 1) \div 2) + 1 = k
                              /\ k % 2 # 1 => 2 * ((k - 1) \div 2) + 2 = k
  BY DEF Words

\* What is encoded is a word of bytes.
LEMMA ByteFacts ==
    ASSUME NEW bytes \in Seq(Bytes), NEW k \in Int
    PROVE  ByteAt(bytes, k) \in Bytes
<1>1. 0 \in Bytes
  BY FsClientConstants DEF Bytes
<1> QED
  BY <1>1 DEF ByteAt

\* Encoding fills the registers and leaves the others.
LEMMA EncodeFacts ==
    ASSUME NEW buf \in Regs, NEW bytes \in Seq(Bytes), NEW start \in Nat
    PROVE  /\ Encode(buf, bytes, start) \in Regs
           /\ \A m \in MRs : m \notin start..(start + Words(Len(bytes)) - 1) =>
                 Encode(buf, bytes, start)[m] = buf[m]
           /\ \A m \in MRs : m \in start..(start + Words(Len(bytes)) - 1) =>
                 /\ Encode(buf, bytes, start)[m] =
                       ByteAt(bytes, 2 * (m - start) + 1)
                         + Base * ByteAt(bytes, 2 * (m - start) + 1 + 1)
                 /\ Encode(buf, bytes, start)[m] \in Nat
<1> DEFINE W(m) == ByteAt(bytes, 2 * (m - start) + 1)
                     + Base * ByteAt(bytes, 2 * (m - start) + 1 + 1)
<1>1. ASSUME NEW m \in MRs
      PROVE  W(m) \in Nat
  <2>1. 2 * (m - start) + 1 \in Int /\ 2 * (m - start) + 1 + 1 \in Int
    BY FsClientConstants DEF MRs
  <2> QED
    BY <2>1, ByteFacts, SplitWord
<1>2. Encode(buf, bytes, start) =
        [m \in MRs |-> IF m \in start..(start + Words(Len(bytes)) - 1) THEN W(m) ELSE buf[m]]
  BY DEF Encode
<1> HIDE DEF W
<1>3. Encode(buf, bytes, start) \in Regs
  BY <1>1, <1>2 DEF Regs
<1>4. \A m \in MRs : m \in start..(start + Words(Len(bytes)) - 1) =>
         Encode(buf, bytes, start)[m] = W(m) /\ Encode(buf, bytes, start)[m] \in Nat
  BY <1>1, <1>2
<1>5. \A m \in MRs : m \notin start..(start + Words(Len(bytes)) - 1) =>
         Encode(buf, bytes, start)[m] = buf[m]
  BY <1>2
<1> QED
  BY <1>3, <1>4, <1>5 DEF W

\* A byte is read back from a buffer that agrees with the encoded one on the payload's
\* registers, also when the reader's start is one register too low: it then finds each
\* byte two places later.
LEMMA ReadByte ==
    ASSUME NEW buf \in Regs, NEW bytes \in Seq(Bytes), NEW start \in Nat,
           start + Words(Len(bytes)) <= NMR + 1, NEW late \in {0, 1}, start >= late,
           NEW got1 \in Regs,
           \A m \in MRs : m \in start..(start + Words(Len(bytes)) - 1) =>
              got1[m] = Encode(buf, bytes, start)[m],
           NEW n \in Nat, NEW k \in 1..n, k - 2 * late \in 1..Len(bytes),
           start + (k - 2 * late - 1) \div 2 \in MRs
    PROVE  Decode(got1, start - late, n)[k] = bytes[k - 2 * late]
<1> DEFINE j == k - 2 * late
<1> DEFINE h == (j - 1) \div 2
<1> DEFINE m == start + h
<1>1. j \in 1..Len(bytes) /\ Len(bytes) \in Nat /\ j \in Nat /\ k \in Nat
  OBVIOUS
<1>2. start - late + (k - 1) \div 2 = m /\ (k % 2 = 1 <=> j % 2 = 1) /\ h \in Nat
  BY <1>1
<1>3. m \in MRs
  OBVIOUS
<1> HIDE DEF j
<1>4. /\ h \in 0..(Words(Len(bytes)) - 1)
      /\ j % 2 = 1 => 2 * h + 1 = j
      /\ j % 2 # 1 => 2 * h + 2 = j
  BY <1>1, WordFacts
<1> HIDE DEF h, m
<1>5. m \in start..(start + Words(Len(bytes)) - 1) /\ m - start = h
  <2> DEFINE e == Words(Len(bytes))
  <2>1. e \in Nat /\ h \in 0..(e - 1)
    BY <1>1, <1>4, WordFacts
  <2> HIDE DEF e
  <2>2. start + h \in start..(start + e - 1) /\ (start + h) - start = h
    BY <2>1
  <2> QED
    BY <2>2 DEF m, e
<1> DEFINE w == got1[m]
<1>6. w = ByteAt(bytes, 2 * h + 1) + Base * ByteAt(bytes, 2 * h + 1 + 1)
  BY <1>3, <1>5, EncodeFacts
<1>7. Decode(got1, start - late, n)[k] = IF j % 2 = 1 THEN w % Base ELSE (w \div Base) % Base
  BY <1>2, <1>3 DEF Decode
<1>8. /\ ByteAt(bytes, 2 * h + 1) \in Bytes /\ ByteAt(bytes, 2 * h + 1 + 1) \in Bytes
  BY <1>2, ByteFacts
<1> HIDE DEF w
<1>9. w % Base = ByteAt(bytes, 2 * h + 1) /\ (w \div Base) % Base = ByteAt(bytes, 2 * h + 1 + 1)
  BY <1>6, <1>8, SplitWord
<1>10. 2 * h + 1 + 1 = 2 * h + 2
  BY <1>2
<1>11. ByteAt(bytes, j) = bytes[j]
  BY <1>1 DEF ByteAt
<1> QED
  BY <1>4, <1>7, <1>9, <1>10, <1>11 DEF j


\* A payload that fits is read back whole.
LEMMA DecodeEncoded ==
    ASSUME NEW buf \in Regs, NEW bytes \in Seq(Bytes), NEW start \in Nat,
           start + Words(Len(bytes)) <= NMR, NEW got1 \in Regs,
           \A m \in MRs : m \in start..(start + Words(Len(bytes)) - 1) =>
              got1[m] = Encode(buf, bytes, start)[m]
    PROVE  Decode(got1, start, Len(bytes)) = bytes
<1>1. Len(bytes) \in Nat /\ DOMAIN bytes = 1..Len(bytes)
  OBVIOUS
<1>2. ASSUME NEW k \in 1..Len(bytes)
      PROVE  Decode(got1, start, Len(bytes))[k] = bytes[k]
  <2>1. start + (k - 1) \div 2 \in MRs
    <3> DEFINE e == Words(Len(bytes))
    <3> DEFINE h == (k - 1) \div 2
    <3>1. e \in Nat /\ h \in 0..(e - 1)
      BY <1>1, WordFacts
    <3> HIDE DEF e, h
    <3>2. start + e <= NMR
      BY DEF e
    <3>3. start + h \in MRs
      BY <3>1, <3>2, FsClientConstants DEF MRs
    <3> QED
      BY <3>3 DEF h
  <2>2. k - 2 * 0 = k /\ start - 0 = start /\ k \in Nat
    BY <1>1
  <2>3. Words(Len(bytes)) \in Nat
    BY <1>1, WordFacts
  <2>4. start + Words(Len(bytes)) <= NMR + 1
    BY <2>3, FsClientConstants
  <2>5. Decode(got1, start - 0, Len(bytes))[k] = bytes[k - 2 * 0]
    BY <1>1, <2>1, <2>2, <2>4, ReadByte
  <2> QED
    BY <2>2, <2>5
<1>3. DOMAIN Decode(got1, start, Len(bytes)) = 1..Len(bytes)
  BY DEF Decode
<1>4. Decode(got1, start, Len(bytes))
        = [k \in 1..Len(bytes) |-> Decode(got1, start, Len(bytes))[k]]
  BY DEF Decode
<1>5. bytes = [k \in 1..Len(bytes) |-> bytes[k]]
  OBVIOUS
<1> QED
  BY <1>2, <1>4, <1>5

\* What is decoded from any buffer is a sequence.
LEMMA DecodeType ==
    ASSUME NEW buf \in Regs, NEW start \in Nat, NEW n \in Nat
    PROVE  Decode(buf, start, n) \in Seq(Int) /\ Len(Decode(buf, start, n)) = n
<1> DEFINE v(k) == LET m == start + (k - 1) \div 2
                       w == IF m \in MRs THEN buf[m] ELSE 0
                   IN IF k % 2 = 1 THEN w % Base ELSE (w \div Base) % Base
<1>1. \A k \in 1..n : v(k) \in Int
  <2>1. \A w \in Int : w % Base \in Int /\ (w \div Base) % Base \in Int
    BY FsClientConstants
  <2> QED
    BY <2>1 DEF Regs
<1>2. Decode(buf, start, n) = [k \in 1..n |-> v(k)]
  BY DEF Decode
<1> HIDE DEF v
<1>3. Decode(buf, start, n) \in [1..n -> Int]
  BY <1>1, <1>2
<1>4. \A m \in Nat : \A f \in [1..m -> Int] : f \in Seq(Int) /\ Len(f) = m
  OBVIOUS
<1> QED
  BY <1>3, <1>4


\* Decoding looks at the payload's registers only.
LEMMA DecodeSame ==
    ASSUME NEW b1 \in Regs, NEW b2 \in Regs, NEW start \in Nat, NEW n \in Nat,
           \A m \in MRs : m \in start..(start + Words(n) - 1) => b1[m] = b2[m]
    PROVE  Decode(b1, start, n) = Decode(b2, start, n)
<1> DEFINE v(b, k) == LET m == start + (k - 1) \div 2
                          w == IF m \in MRs THEN b[m] ELSE 0
                      IN IF k % 2 = 1 THEN w % Base ELSE (w \div Base) % Base
<1>1. ASSUME NEW k \in 1..n
      PROVE  v(b1, k) = v(b2, k)
  <2> DEFINE m == start + (k - 1) \div 2
  <2>1. m \in start..(start + Words(n) - 1)
    <3> DEFINE e == Words(n)
    <3> DEFINE h == (k - 1) \div 2
    <3>1. e \in Nat /\ h \in 0..(e - 1)
      BY WordFacts
    <3> HIDE DEF e, h
    <3>2. start + h \in start..(start + e - 1)
      BY <3>1
    <3> QED
      BY <3>2 DEF e, h
  <2>2. m \in MRs => b1[m] = b2[m]
    BY <2>1
  <2> QED
    BY <2>2
<1>2. Decode(b1, start, n) = [k \in 1..n |-> v(b1, k)]
  BY DEF Decode
<1>3. Decode(b2, start, n) = [k \in 1..n |-> v(b2, k)]
  BY DEF Decode
<1> HIDE DEF v
<1> QED
  BY <1>1, <1>2, <1>3

-----------------------------------------------------------------------------
(***************************************************************************)
(* Requests.                                                               *)
(***************************************************************************)
Ops == PathOps \cup FdOps

\* Request numbers name the request.
LEMMA CodeFacts ==
    ASSUME NEW op \in Ops
    PROVE  Code[op] \in 1..11 /\ OpOf(Code[op]) = op /\ op # "other"
<1>1. /\ DOMAIN Code = Ops
      /\ \A x \in Ops : Code[x] \in 1..11 /\ x # "other"
  BY DEF Code, Ops, PathOps, FdOps
<1>2. \A x, y \in Ops : Code[x] = Code[y] => x = y
  BY DEF Code, Ops, PathOps, FdOps
<1> DEFINE c == Code[op]
<1>3. op \in DOMAIN Code /\ Code[op] = c
  BY <1>1
<1>4. \A x \in DOMAIN Code : Code[x] = c => x = op
  BY <1>1, <1>2
<1> HIDE DEF c
<1>5. OpOf(c) = op
  BY <1>3, <1>4 DEF OpOf
<1> QED
  BY <1>1, <1>5 DEF c

\* The registers of the layout exist, and a payload that fits ends at the last.
LEMMA LayoutFacts ==
    /\ PATH_MR_START = 5 /\ DATA_MR_START = 2 /\ NMR \in Nat /\ NMR > 6
    /\ {0, 1, 2, 3, 4, 5} \subseteq MRs
    /\ MRs \subseteq Nat /\ \A m \in MRs : m < NMR
    /\ \A n \in Nat : n <= MAX_PATH_IPC => 5 + Words(n) <= NMR
    /\ \A n \in Nat : n <= MAX_DATA_IPC => 2 + Words(n) <= NMR
  BY FsClientConstants DEF PATH_MR_START, DATA_MR_START, MRs, MAX_PATH_IPC, MAX_DATA_IPC, Words

\* do_call's message holds the request and is long enough for what the service reads.
LEMMA MarshalFacts ==
    ASSUME cbuf \in Regs, NEW r, IsRequest(r)
    PROVE  /\ Marshal(r) \in Regs /\ Holds(Marshal(r), r)
           /\ MsgLen(r) \in 0..NMR /\ MsgLen(r) >= 2
           /\ r.op # "write" => MsgLen(r) >= 5
           /\ r.op \in PathOps => MsgLen(r) = 5 + Words(Len(r.path))
<1> DEFINE bytes == IF r.op = "write" THEN r.data ELSE r.path
<1> DEFINE mr == <<r.fd, IF r.op \in PathOps THEN Len(r.path) ELSE r.off,
                   IF r.op = "write" THEN Len(r.data) ELSE r.n, 0>>
<1> DEFINE head == [m \in MRs |-> IF m = 0 THEN Code[r.op] ELSE IF m < 5 THEN mr[m] ELSE cbuf[m]]
<1> DEFINE start == PayloadStart(r)
<1>1. /\ r.op \in Ops /\ r.fd \in Nat /\ r.path \in Seq(Bytes) /\ r.data \in Seq(Bytes)
      /\ r.off \in Int /\ r.n \in Nat
  BY DEF IsRequest, Ops
<1>2. Marshal(r) = Encode(head, bytes, start)
  BY DEF Marshal
<1>3. bytes \in Seq(Bytes) /\ Len(bytes) \in Nat /\ Len(r.path) \in Nat /\ Len(r.data) \in Nat
  BY <1>1
<1>4. start = (IF r.op = "write" THEN 2 ELSE 5) /\ start \in Nat
  BY LayoutFacts DEF PayloadStart
<1>5. start + Words(Len(bytes)) <= NMR /\ Words(Len(bytes)) \in Nat
  <2>1. CASE r.op = "write"
    BY <1>3, <1>4, <2>1, LayoutFacts, WordFacts DEF IsRequest
  <2>2. CASE r.op \in PathOps
    <3>1. r.op # "write"
      BY <2>2 DEF PathOps
    <3> QED
      BY <1>3, <1>4, <2>2, <3>1, LayoutFacts, WordFacts DEF IsRequest
  <2>3. CASE r.op \notin PathOps /\ r.op # "write"
    <3>1. bytes = <<>> /\ Len(bytes) = 0
      BY <2>3 DEF IsRequest
    <3>2. Words(0) = 0
      BY DEF Words
    <3> QED
      BY <1>4, <2>3, <3>1, <3>2, LayoutFacts
  <2> QED
    BY <2>1, <2>2, <2>3
<1>6. head \in Regs
  <2>0. Code[r.op] \in 1..11
    BY <1>1, CodeFacts
  <2>1. Code[r.op] \in Int
    BY <2>0
  <2>2. mr[1] \in Int /\ mr[2] \in Int /\ mr[3] \in Int /\ mr[4] \in Int
    BY <1>1, <1>3
  <2>3. \A m \in MRs : m # 0 /\ m < 5 => m \in {1, 2, 3, 4}
    BY LayoutFacts
  <2> HIDE DEF mr
  <2>4. \A m \in MRs : m # 0 /\ m < 5 => mr[m] \in Int
    BY <2>2, <2>3
  <2> QED
    BY <2>1, <2>4 DEF Regs
<1>7. /\ head[0] = Code[r.op] /\ head[1] = r.fd
      /\ head[2] = (IF r.op \in PathOps THEN Len(r.path) ELSE r.off)
      /\ head[3] = (IF r.op = "write" THEN Len(r.data) ELSE r.n)
  BY LayoutFacts
<1> HIDE DEF head, mr, start
<1> DEFINE b == Encode(head, bytes, start)
<1>8a. /\ b \in Regs
       /\ \A m \in MRs : m \notin start..(start + Words(Len(bytes)) - 1) => b[m] = head[m]
       /\ \A m \in MRs : m \in start..(start + Words(Len(bytes)) - 1) => b[m] \in Nat
  <2> HIDE DEF bytes
  <2> QED
    BY <1>3, <1>4, <1>6, EncodeFacts
<1>8. b \in Regs
  BY <1>8a
<1>9. \A m \in MRs : m < start => b[m] = head[m]
  <2>1. \A m \in MRs : m < start => m \notin start..(start + Words(Len(bytes)) - 1)
    BY <1>4, <1>5, LayoutFacts
  <2> HIDE DEF b, bytes
  <2> QED
    BY <1>8a, <2>1
<1>10. b[0] = Code[r.op] /\ b[1] = r.fd
  BY <1>4, <1>7, <1>9, LayoutFacts
<1>11. r.op # "write" => b[2] = head[2] /\ b[3] = head[3]
  BY <1>4, <1>9, LayoutFacts
<1>12. r.op = "write" => b[3] \in Nat
  <2> SUFFICES ASSUME r.op = "write" PROVE b[3] \in Nat
    OBVIOUS
  <2>1. 3 \in MRs /\ head[3] \in Nat
    BY <1>3, <1>7, LayoutFacts
  <2> HIDE DEF b, bytes
  <2> QED
    BY <1>8a, <2>1
<1>13. r.op \in PathOps => Decode(b, PATH_MR_START, Len(r.path)) = r.path
  <2> SUFFICES ASSUME r.op \in PathOps PROVE Decode(b, 5, Len(r.path)) = r.path
    BY LayoutFacts
  <2>1. r.op # "write" /\ bytes = r.path /\ start = 5
    BY <1>4 DEF PathOps
  <2> HIDE DEF bytes
  <2>2. Decode(b, start, Len(bytes)) = bytes
    BY <1>3, <1>4, <1>5, <1>6, <1>8, DecodeEncoded
  <2> QED
    BY <2>1, <2>2
<1>14. Holds(b, r)
  <2>1. r.op \in PathOps => r.op # "write"
    BY DEF PathOps
  <2>2. r.op = "lseek" => r.op # "write" /\ r.op \notin PathOps
    BY DEF PathOps
  <2> HIDE DEF b
  <2> QED
    BY <1>7, <1>10, <1>11, <1>12, <1>13, <2>1, <2>2 DEF Holds
<1>15. /\ MsgLen(r) = IF r.op \in PathOps \cup {"write"} THEN start + Words(Len(bytes)) ELSE 5
       /\ r.op # "write" => start = 5
  BY <1>4, LayoutFacts DEF MsgLen, PathOps
<1>16. /\ MsgLen(r) \in 0..NMR /\ MsgLen(r) >= 2 /\ (r.op # "write" => MsgLen(r) >= 5)
  BY <1>4, <1>5, <1>15, LayoutFacts
<1>17. r.op \in PathOps => MsgLen(r) = 5 + Words(Len(r.path))
  BY LayoutFacts DEF MsgLen
<1> QED
  BY <1>2, <1>8, <1>14, <1>16, <1>17


\* The service's registers hold the request when the message is carried whole, whatever
\* they held before.
LEMMA DeliverFacts ==
    ASSUME TypeInv, NEW junk \in {0, 1}
    PROVE  LET b == Deliver(sbuf, cbuf, junk) IN
           /\ b \in Regs
           /\ Whole /\ IsRequest(asked) /\ Holds(cbuf, asked) /\ len = MsgLen(asked)
                => Holds(b, asked)
           /\ ~Whole => b[0] = junk /\ b[2] = junk /\ b[3] = junk
<1> DEFINE b == Deliver(sbuf, cbuf, junk)
<1>1. cbuf \in Regs /\ sbuf \in Regs /\ carried \in {MRs, MRs \ InRegisters} /\ len \in Int
  BY FsClientConstants DEF TypeInv
<1>2. b \in Regs
  BY <1>1 DEF Deliver, Regs
<1>3. /\ Whole => \A m \in MRs : m < len => b[m] = cbuf[m]
      /\ \A m \in MRs : m \in InRegisters =>
           b[m] = IF m < len /\ m \in carried THEN cbuf[m] ELSE junk
  BY DEF Deliver, Whole
<1> HIDE DEF b
<1>4. ASSUME Whole, IsRequest(asked), Holds(cbuf, asked), len = MsgLen(asked)
      PROVE  Holds(b, asked)
  <2>1. /\ len >= 2 /\ (asked.op # "write" => len >= 5)
        /\ asked.op \in PathOps => len = 5 + Words(Len(asked.path))
    BY <1>1, <1>4, MarshalFacts
  <2>2. b[0] = cbuf[0] /\ b[1] = cbuf[1]
    BY <1>1, <1>3, <1>4, <2>1, LayoutFacts
  <2>3. asked.op # "write" => b[2] = cbuf[2] /\ b[3] = cbuf[3]
    BY <1>1, <1>3, <1>4, <2>1, LayoutFacts
  <2>4. asked.op = "write" => b[3] \in Nat
    <3>1. 3 \in MRs /\ 3 \in InRegisters
      BY LayoutFacts DEF InRegisters
    <3> QED
      BY <1>3, <1>4, <3>1 DEF Holds
  <2>5. asked.op \in PathOps => Decode(b, PATH_MR_START, Len(asked.path)) = asked.path
    <3> SUFFICES ASSUME asked.op \in PathOps
                 PROVE  Decode(b, 5, Len(asked.path)) = Decode(cbuf, 5, Len(asked.path))
      BY <1>4, LayoutFacts DEF Holds
    <3> DEFINE n == Len(asked.path)
    <3>1. n \in Nat
      BY <1>4 DEF IsRequest
    <3> HIDE DEF n
    <3>2. Words(n) \in Nat /\ len = 5 + Words(n)
      BY <2>1, <3>1, WordFacts DEF n
    <3>3. \A m \in MRs : m \in 5..(5 + Words(n) - 1) => m < len
      BY <3>2, LayoutFacts
    <3>4. \A m \in MRs : m \in 5..(5 + Words(n) - 1) => b[m] = cbuf[m]
      BY <1>3, <1>4, <3>3
    <3>5. Decode(b, 5, n) = Decode(cbuf, 5, n)
      BY <1>1, <1>2, <3>1, <3>4, DecodeSame
    <3> QED
      BY <3>5 DEF n
  <2>6. asked.op = "lseek" => asked.op # "write"
    OBVIOUS
  <2>7. asked.op \in PathOps => asked.op # "write"
    BY DEF PathOps
  <2> QED
    BY <1>4, <2>2, <2>3, <2>4, <2>5, <2>6, <2>7 DEF Holds
<1>5. ASSUME ~Whole
      PROVE  b[0] = junk /\ b[2] = junk /\ b[3] = junk
  <2>1. carried = MRs \ InRegisters
    BY <1>1, <1>5 DEF Whole
  <2> QED
    BY <1>3, <2>1, LayoutFacts DEF InRegisters
<1>6. b = Deliver(sbuf, cbuf, junk)
  BY DEF b
<1> QED
  BY <1>2, <1>4, <1>5, <1>6

\* What the service decodes from registers that hold a request is that request; of a
\* write it decodes the descriptor, and some data.
LEMMA UnmarshalFacts ==
    ASSUME NEW b \in Regs, NEW r, IsRequest(r), Holds(b, r)
    PROVE  LET u == Unmarshal(b) IN
           /\ u.op = r.op /\ u.fd = r.fd /\ u.n = r.n
           /\ r.op # "write" => u = r
           /\ Len(u.data) \in Nat
<1> DEFINE op == OpOf(b[0])
<1>1. r.op \in Ops /\ b[0] = Code[r.op] /\ b[1] = r.fd
  BY DEF IsRequest, Holds, Ops
<1>2. op = r.op /\ op # "other"
  BY <1>1, CodeFacts
<1> DEFINE path == IF op \in PathOps THEN Decode(b, PATH_MR_START, b[2]) ELSE <<>>
<1> DEFINE data == IF op = "write" THEN Decode(b, DATA_MR_START, b[3]) ELSE <<>>
<1> DEFINE fd == IF op \in PathOps \cup {"other"} THEN 0 ELSE b[1]
<1> DEFINE n == IF op \in {"open", "read", "getdents64", "lseek"} THEN b[3] ELSE 0
<1> DEFINE off == IF op = "lseek" THEN b[2] ELSE 0
<1>3. Unmarshal(b) = Request(op, fd, path, data, off, n)
  BY DEF Unmarshal
<1> HIDE DEF op
<1>4. fd = r.fd
  BY <1>1, <1>2 DEF IsRequest
<1>5. path = r.path
  BY <1>2 DEF IsRequest, Holds
<1>6. off = r.off
  BY <1>2 DEF IsRequest, Holds
<1>7. n = r.n
  BY <1>2 DEF IsRequest, Holds
<1>8. r.op # "write" => data = r.data
  BY <1>2 DEF IsRequest
<1>9. Len(data) \in Nat
  <2>1. CASE op = "write"
    <3>1. b[3] \in Nat /\ 2 \in Nat
      BY <1>2, <2>1 DEF Holds
    <3>2. Len(Decode(b, 2, b[3])) = b[3]
      BY <3>1, DecodeType
    <3> QED
      BY <2>1, <3>1, <3>2, LayoutFacts
  <2>2. CASE op # "write"
    BY <2>2
  <2> QED
    BY <2>1, <2>2
<1> HIDE DEF path, data, fd, n, off
<1>10. r = Request(r.op, r.fd, r.path, r.data, r.off, r.n)
  BY DEF IsRequest
<1>11. /\ Unmarshal(b).op = op /\ Unmarshal(b).fd = fd /\ Unmarshal(b).n = n
       /\ Unmarshal(b).data = data
  BY <1>3 DEF Request
<1>12. r.op # "write" => Unmarshal(b) = r
  BY <1>2, <1>3, <1>4, <1>5, <1>6, <1>7, <1>8, <1>10
<1> QED
  BY <1>2, <1>4, <1>7, <1>9, <1>11, <1>12

-----------------------------------------------------------------------------
(***************************************************************************)
(* Answers.                                                                *)
(***************************************************************************)
\* What the handlers answer fits the request.
LEMMA AnswerFacts ==
    ASSUME TypeInv, NEW r, r.op \in Ops \cup {"other"}, r.n \in Nat, Len(r.data) \in Nat,
           NEW a \in Answers(r)
    PROVE  /\ IsAnswer(a, r)
           /\ r.op = "open" /\ a.kind = "ok" => a.val = remote_next
           /\ r.op = "close" /\ r.fd \in remote => a.kind = "ok"
<1>1. remote_next \in Nat
  BY DEF TypeInv
<1>2. /\ \A v \in Int : IsAnswer(Ok(v), r) /\ IsAnswer(Err(v), r)
      /\ \A v : Ok(v).kind = "ok" /\ Ok(v).val = v /\ Err(v).kind = "err"
  <2>1. <<>> \in Seq(Bytes)
    OBVIOUS
  <2> QED
    BY <2>1 DEF IsAnswer, Ok, Err, Kinds
<1>3. Payloads \subseteq Seq(Bytes) /\ StatPayload \in Seq(Bytes)
  BY FsClientConstants DEF Bytes
<1>4. \A d : WithData(d).kind = "data" /\ WithData2(d, 1).kind = "data2"
  BY DEF WithData, WithData2
<1>5. r.op = "read" => \A d \in Fitting(r.n) : IsAnswer(WithData(d), r)
  BY <1>3 DEF Fitting, IsAnswer, WithData, Kinds
<1>6. r.op = "getdents64" => \A d \in Fitting(r.n) : IsAnswer(WithData2(d, 1), r)
  BY <1>3 DEF Fitting, IsAnswer, WithData2, Kinds
<1>7. r.op = "stat" => IsAnswer(WithData(StatPayload), r)
  BY <1>3 DEF IsAnswer, WithData, Kinds
<1> DEFINE live == r.fd \in remote
<1>8. CASE r.op \in PathOps /\ r.path = <<>>
  <2>1. a = Err(-22)
    BY <1>8 DEF Answers
  <2>2. r.op # "close"
    BY <1>8 DEF PathOps
  <2> QED
    BY <1>2, <2>1, <2>2
<1>9. CASE ~(r.op \in PathOps /\ r.path = <<>>)
  <2>1. CASE r.op = "open"
    <3>1. a \in {Ok(remote_next), Err(-2), Err(5)}
      BY <1>9, <2>1 DEF Answers
    <3> QED
      BY <1>1, <1>2, <2>1, <3>1
  <2>2. CASE r.op = "stat"
    <3>1. a \in {WithData(StatPayload), Err(-2)}
      BY <1>9, <2>2 DEF Answers
    <3> QED
      BY <1>2, <1>7, <2>2, <3>1
  <2>3. CASE r.op \in {"access", "mkdir", "unlink"}
    <3>1. a \in {Ok(0), Err(-2)}
      BY <1>9, <2>3 DEF Answers
    <3> QED
      BY <1>2, <2>3, <3>1
  <2>4. CASE r.op = "close"
    <3>1. a = IF live \/ r.fd <= 2 THEN Ok(0) ELSE Err(-9)
      BY <1>9, <2>4 DEF Answers
    <3> QED
      BY <1>2, <2>4, <3>1
  <2>5. CASE r.op = "read"
    <3>1. a \in {WithData(d) : d \in Fitting(r.n)} \cup {Ok(0), Err(-9)}
      BY <1>9, <2>5 DEF Answers
    <3> QED
      BY <1>2, <1>4, <1>5, <2>5, <3>1
  <2>6. CASE r.op = "write"
    <3>1. a \in {Ok(Len(r.data)), Err(-9)}
      BY <1>9, <2>6 DEF Answers
    <3> QED
      BY <1>2, <2>6, <3>1
  <2>7. CASE r.op = "getdents64"
    <3>1. a \in {WithData2(d, 1) : d \in Fitting(r.n)} \cup {Err(-9)}
      BY <1>9, <2>7 DEF Answers
    <3> QED
      BY <1>2, <1>4, <1>6, <2>7, <3>1
  <2>8. CASE r.op = "file_size"
    <3>1. a \in {Ok(7), Err(-9)}
      BY <1>9, <2>8 DEF Answers
    <3> QED
      BY <1>2, <2>8, <3>1
  <2>9. CASE r.op = "lseek"
    <3>1. a \in {Ok(7), Err(-22), Err(-29), Err(-9)}
      BY <1>9, <2>9 DEF Answers
    <3> QED
      BY <1>2, <2>9, <3>1
  <2>10. CASE r.op = "other"
    <3>1. a = Err(38)
      BY <1>9, <2>10 DEF Answers
    <3> QED
      BY <1>2, <2>10, <3>1
  <2> QED
    BY <2>1, <2>2, <2>3, <2>4, <2>5, <2>6, <2>7, <2>8, <2>9, <2>10 DEF Ops, PathOps, FdOps
<1> QED
  BY <1>8, <1>9


\* How long a payload can be.
LEMMA PayloadFits ==
    ASSUME NEW a, NEW r, IsAnswer(a, r),
           r.op \in {"read", "getdents64"} => r.n \in Nat /\ r.n <= MAX_DATA_IPC
    PROVE  /\ Len(a.data) \in Nat /\ Words(Len(a.data)) \in Nat
           /\ 2 + Words(Len(a.data)) <= NMR /\ Len(a.data) <= MAX_DATA_IPC
           /\ ReplyLen(a) = ReplyStart(a) + Words(Len(a.data))
           /\ ReplyStart(a) = IF a.kind = "data2" THEN 3 ELSE 2
<1>1. Len(a.data) \in Nat
  BY DEF IsAnswer
<1>2. MAX_DATA_IPC = (NMR - 2) * 2 /\ MAX_DATA_IPC \in Nat /\ MAX_DATA_IPC >= 10
  BY LayoutFacts DEF MAX_DATA_IPC
<1>3. Len(a.data) <= MAX_DATA_IPC
  <2>1. CASE a.kind \notin {"data", "data2"}
    <3>1. Len(a.data) = 0
      BY <2>1 DEF IsAnswer
    <3> QED
      BY <1>2, <3>1
  <2>2. CASE a.kind = "data" /\ r.op = "stat"
    <3>1. Len(a.data) = 5
      BY <2>2, FsClientConstants DEF IsAnswer
    <3> QED
      BY <1>2, <3>1
  <2>3. CASE a.kind \in {"data", "data2"} /\ r.op # "stat"
    <3>1. r.op \in {"read", "getdents64"} /\ Len(a.data) <= r.n
      BY <2>3 DEF IsAnswer
    <3> QED
      BY <1>1, <1>2, <3>1
  <2>4. a.kind = "data2" => r.op # "stat"
    BY DEF IsAnswer
  <2> QED
    BY <2>1, <2>2, <2>3, <2>4
<1>4. Words(Len(a.data)) \in Nat /\ 2 + Words(Len(a.data)) <= NMR
  BY <1>1, <1>3, LayoutFacts, WordFacts
<1>5. /\ ReplyLen(a) = ReplyStart(a) + Words(Len(a.data))
      /\ ReplyStart(a) = IF a.kind = "data2" THEN 3 ELSE 2
  BY LayoutFacts DEF ReplyLen, ReplyStart
<1> QED
  BY <1>1, <1>3, <1>4, <1>5

\* The service's buffer holds its answer.
LEMMA ResponseFacts ==
    ASSUME NEW buf \in Regs, NEW a, NEW r, IsAnswer(a, r),
           r.op \in {"read", "getdents64"} => r.n \in Nat /\ r.n <= MAX_DATA_IPC
    PROVE  /\ WriteResponse(buf, a) \in Regs
           /\ HoldsAnswer(WriteResponse(buf, a), a)
           /\ ReplyLen(a) \in 0..(NMR + 1)
<1> DEFINE L == Len(a.data)
<1> DEFINE s == ReplyStart(a)
<1> DEFINE head == [m \in MRs |-> CASE m = 0 -> IF a.kind = "err" THEN 1 ELSE 0
                                    [] m = 1 -> a.val
                                    [] m = 2 /\ a.kind = "data2" -> a.extra
                                    [] OTHER -> buf[m]]
<1>1. a.val \in Int /\ a.extra \in Int /\ a.data \in Seq(Bytes)
  BY DEF IsAnswer
<1>2. /\ L \in Nat /\ Words(L) \in Nat /\ 2 + Words(L) <= NMR /\ L <= MAX_DATA_IPC
      /\ s = (IF a.kind = "data2" THEN 3 ELSE 2) /\ s \in Nat /\ ReplyLen(a) = s + Words(L)
  BY PayloadFits
<1>3. head \in Regs
  BY <1>1 DEF Regs
<1>4. head[0] = (IF a.kind = "err" THEN 1 ELSE 0) /\ head[1] = a.val
  BY LayoutFacts
<1> DEFINE W == Encode(head, a.data, s)
<1>5. WriteResponse(buf, a) = W
  BY DEF WriteResponse
<1> HIDE DEF head, s
<1>6. W \in Regs
  BY <1>1, <1>2, <1>3, EncodeFacts
<1>7. W[0] = head[0] /\ W[1] = head[1]
  <2>1. 0 \in MRs /\ 1 \in MRs /\ 0 \notin s..(s + Words(L) - 1) /\ 1 \notin s..(s + Words(L) - 1)
    BY <1>2, LayoutFacts
  <2>2. \A m \in MRs : m \notin s..(s + Words(Len(a.data)) - 1) => W[m] = head[m]
    BY <1>1, <1>2, <1>3, EncodeFacts
  <2> HIDE DEF W
  <2> QED
    BY <2>1, <2>2
<1>8. a.kind = "data" => Decode(W, DATA_MR_START, L) = a.data
  <2> SUFFICES ASSUME a.kind = "data" PROVE Decode(W, s, Len(a.data)) = a.data
    BY <1>2, LayoutFacts
  <2>1. s + Words(Len(a.data)) <= NMR
    BY <1>2
  <2> HIDE DEF L
  <2> QED
    BY <1>1, <1>2, <1>3, <1>6, <2>1, DecodeEncoded
<1>9. HoldsAnswer(W, a)
  <2> HIDE DEF W
  <2> QED
    BY <1>4, <1>7, <1>8 DEF HoldsAnswer
<1>10. ReplyLen(a) \in 0..(NMR + 1)
  BY <1>2, LayoutFacts
<1> QED
  BY <1>5, <1>6, <1>9, <1>10

\* The client's registers hold the answer when the reply is carried whole.
LEMMA ReceivedFacts ==
    ASSUME IInv, pc = "replied"
    PROVE  /\ Received \in Regs
           /\ Whole => HoldsAnswer(Received, answer)
           /\ ~Whole => Received[0] = cbuf[0] /\ Received[1] = cbuf[1]
<1>1. cbuf \in Regs /\ sbuf \in Regs /\ carried \in {MRs, MRs \ InRegisters}
  BY DEF IInv, TypeInv
<1>2. Received \in Regs
  BY <1>1 DEF Received, Regs
<1>3. ASSUME ~Whole
      PROVE  Received[0] = cbuf[0] /\ Received[1] = cbuf[1]
  BY <1>1, <1>3, LayoutFacts DEF Whole, Received, InRegisters
<1>4. ASSUME Whole
      PROVE  HoldsAnswer(Received, answer)
  <2> DEFINE L == Len(answer.data)
  <2>1. /\ HoldsAnswer(sbuf, answer) /\ IsAnswer(answer, asked) /\ len = ReplyLen(answer)
        /\ IsRequest(asked)
    BY <1>4 DEF IInv, AnswerInv, AskInv, Asking
  <2>2. /\ L \in Nat /\ Words(L) \in Nat /\ 2 + Words(L) <= NMR
        /\ len = (IF answer.kind = "data2" THEN 3 ELSE 2) + Words(L)
    BY <2>1, PayloadFits DEF IsRequest
  <2>3. \A m \in MRs : m < len => Received[m] = sbuf[m]
    BY <1>4 DEF Received, Whole
  <2>4. \A m \in MRs : m \in 2..(2 + Words(L) - 1) => m < len
    BY <2>2, LayoutFacts
  <2>5. Decode(Received, 2, L) = Decode(sbuf, 2, L)
    <3> HIDE DEF L
    <3> QED
      BY <1>1, <1>2, <2>2, <2>3, <2>4, DecodeSame
  <2>6. Received[0] = sbuf[0] /\ Received[1] = sbuf[1]
    BY <2>2, <2>3, LayoutFacts
  <2> QED
    BY <2>1, <2>5, <2>6, LayoutFacts DEF HoldsAnswer
<1> QED
  BY <1>2, <1>3, <1>4


-----------------------------------------------------------------------------
(***************************************************************************)
(* The steps.                                                              *)
(***************************************************************************)
\* A request the client may send for the descriptor fd.
MayAsk(fd, r) ==
  /\ pc = "idle" /\ IsRequest(r)
  /\ r.op = "open" => next_fd <= MaxFd
  /\ r.op \in FdOps => fd \in Locals /\ fd_table[fd] # 0 /\ r.fd = fd_table[fd]
  /\ r.op = "close" => ~ClosedHere(fd)

\* A call with a path asks for it.
LEMMA PathCallAsks ==
    ASSUME NEW op \in PathOps, NEW path \in PathNames, NEW flags \in Nat,
           op # "open" => flags = 0, PathCall(op, path, flags)
    PROVE  \E fd, r : MayAsk(fd, r) /\ Ask(fd, r)
<1> DEFINE r == Request(op, 0, path, <<>>, 0, flags)
<1>1. path \in Seq(Bytes) /\ <<>> \in Seq(Bytes) /\ Len(path) <= MAX_PATH_IPC
  BY FsClientConstants DEF Bytes, PathCall
<1>2. IsRequest(r)
  BY <1>1 DEF IsRequest, Request, PathOps, FdOps
<1>3. r.op = op /\ op \notin FdOps
  BY DEF Request, PathOps, FdOps
<1>4. MayAsk(0, r) /\ Ask(0, r)
  BY <1>2, <1>3 DEF MayAsk, PathCall, FdOps
<1> QED
  BY <1>4

\* A call with a known descriptor asks for the service's.
LEMMA FdCallAsks ==
    ASSUME TypeInv, NEW op \in FdOps, NEW fd, NEW data \in Seq(Bytes), NEW off \in Int,
           NEW n \in Nat,
           IF op = "write" THEN Len(data) <= MAX_DATA_IPC ELSE data = <<>>,
           op # "lseek" => off = 0,
           op \notin {"read", "getdents64", "lseek"} => n = 0,
           op \in {"read", "getdents64"} => n <= MAX_DATA_IPC,
           op = "close" => ~ClosedHere(fd),
           FdCall(op, fd, data, off, n)
    PROVE  \E f, r : MayAsk(f, r) /\ Ask(f, r)
<1> DEFINE r == Request(op, fd_table[fd], <<>>, data, off, n)
<1>1. pc = "idle" /\ fd \in Locals /\ fd_table[fd] # 0 /\ fd_table[fd] \in Nat /\ Ask(fd, r)
  BY DEF FdCall, Known, TypeInv
<1>2. <<>> \in Seq(Bytes) /\ op \notin PathOps
  BY DEF PathOps, FdOps
<1>3. /\ r.op = op /\ r.fd = fd_table[fd] /\ r.path = <<>> /\ r.data = data
      /\ r.off = off /\ r.n = n
  BY DEF Request
<1>4. r = Request(r.op, r.fd, r.path, r.data, r.off, r.n)
  BY <1>3
<1> HIDE DEF r
<1>5. IsRequest(r)
  <2>1. r.n # 0 => r.op \in {"read", "getdents64", "lseek"}
    BY <1>3
  <2> QED
    BY <1>1, <1>2, <1>3, <1>4, <2>1 DEF IsRequest
<1>6. MayAsk(fd, r)
  <2>1. r.op # "open"
    BY <1>3 DEF FdOps
  <2> QED
    BY <1>1, <1>3, <1>5, <2>1 DEF MayAsk
<1> QED
  BY <1>1, <1>6

\* A system call answers at once or asks the service.
LEMMA CallShape ==
    ASSUME TypeInv, Calls
    PROVE  \/ \E op, rax, data : Answer(op, rax, data)
           \/ \E fd, r : MayAsk(fd, r) /\ Ask(fd, r)
<1> DEFINE P == \/ \E op, rax, data : Answer(op, rax, data)
                \/ \E fd, r : MayAsk(fd, r) /\ Ask(fd, r)
<1>1. /\ MAX_DATA_IPC \in Nat /\ <<>> \in Seq(Bytes) /\ 0 \in Int /\ 0 \in Nat
      /\ <<>> = <<>>
  BY LayoutFacts DEF MAX_DATA_IPC
<1>2. ASSUME NEW path \in PathNames,
             \/ \E flags \in Flags : PathCall("open", path, flags)
             \/ \E op \in PathOps \ {"open"} : PathCall(op, path, 0)
             \/ \E op \in PathOps : PathTooLong(op, path)
      PROVE  P
  <2>1. ASSUME NEW flags \in Flags, PathCall("open", path, flags)
        PROVE  P
    <3>1. "open" \in PathOps /\ flags \in Nat
      BY FsClientConstants DEF PathOps
    <3> QED
      BY <2>1, <3>1, PathCallAsks
  <2>2. ASSUME NEW op \in PathOps \ {"open"}, PathCall(op, path, 0)
        PROVE  P
    BY <1>1, <2>2, PathCallAsks
  <2>3. ASSUME NEW op \in PathOps, PathTooLong(op, path)
        PROVE  P
    BY <2>3 DEF PathTooLong
  <2> QED
    BY <1>2, <2>1, <2>2, <2>3
<1>3. ASSUME NEW n \in Counts
      PROVE  Lesser(n, MAX_DATA_IPC) \in Nat /\ Lesser(n, MAX_DATA_IPC) <= MAX_DATA_IPC
  BY <1>1, FsClientConstants DEF Lesser
<1>4. ASSUME NEW fd \in Fds, NEW n \in Counts, sys_read(fd, n) \/ sys_getdents64(fd, n)
      PROVE  P
  <2>1. "read" \in FdOps /\ "getdents64" \in FdOps
    BY DEF FdOps
  <2>2. CASE FdCall("read", fd, <<>>, 0, Lesser(n, MAX_DATA_IPC))
    BY <1>1, <1>3, <2>1, <2>2, FdCallAsks
  <2>3. CASE FdCall("getdents64", fd, <<>>, 0, Lesser(n, MAX_DATA_IPC))
    BY <1>1, <1>3, <2>1, <2>3, FdCallAsks
  <2>4. CASE \E op, rax, data : Answer(op, rax, data)
    BY <2>4
  <2> QED
    BY <1>4, <2>2, <2>3, <2>4 DEF sys_read, sys_getdents64, BadFd
<1>5. ASSUME NEW fd \in Fds, NEW data \in Payloads, sys_write(fd, data)
      PROVE  P
  <2> DEFINE d == SubSeq(data, 1, Lesser(Len(data), MAX_DATA_IPC))
  <2>1. "write" \in FdOps
    BY DEF FdOps
  <2>2. d \in Seq(Bytes) /\ Len(d) <= MAX_DATA_IPC
    <3>1. data \in Seq(Bytes) /\ Len(data) \in Nat
      BY FsClientConstants DEF Bytes
    <3> DEFINE e == Lesser(Len(data), MAX_DATA_IPC)
    <3>2. e \in Nat /\ e <= Len(data) /\ e <= MAX_DATA_IPC
      BY <1>1, <3>1 DEF Lesser
    <3> HIDE DEF e
    <3>3. SubSeq(data, 1, e) \in Seq(Bytes) /\ Len(SubSeq(data, 1, e)) = e
      BY <3>1, <3>2
    <3> QED
      BY <3>2, <3>3 DEF e
  <2> HIDE DEF d
  <2>3. CASE FdCall("write", fd, d, 0, 0)
    BY <1>1, <2>1, <2>2, <2>3, FdCallAsks
  <2>4. CASE \E op, rax, dd : Answer(op, rax, dd)
    BY <2>4
  <2> QED
    BY <1>5, <2>3, <2>4 DEF sys_write, BadFd, d
<1>6. ASSUME NEW fd \in Fds, NEW off \in Seeks, sys_lseek(fd, off, 1)
      PROVE  P
  <2>1. "lseek" \in FdOps /\ off \in Int /\ 1 \in Nat
    BY FsClientConstants DEF FdOps
  <2>2. CASE FdCall("lseek", fd, <<>>, off, 1)
    BY <1>1, <2>1, <2>2, FdCallAsks
  <2>3. CASE \E op, rax, data : Answer(op, rax, data)
    BY <2>3
  <2> QED
    BY <1>6, <2>2, <2>3 DEF sys_lseek, BadFd
<1>7. ASSUME NEW fd \in Fds, sys_close(fd) \/ sys_fstat(fd)
      PROVE  P
  <2>1. "close" \in FdOps /\ "file_size" \in FdOps
    BY DEF FdOps
  <2>2. CASE FdCall("close", fd, <<>>, 0, 0) /\ ~ClosedHere(fd)
    BY <1>1, <2>1, <2>2, FdCallAsks
  <2>3. CASE FdCall("file_size", fd, <<>>, 0, 0)
    BY <1>1, <2>1, <2>3, FdCallAsks
  <2>4. CASE \E op, rax, data : Answer(op, rax, data)
    BY <2>4
  <2> QED
    BY <1>7, <2>2, <2>3, <2>4 DEF sys_close, sys_fstat, BadFd
<1>8. ASSUME \E fd \in Devices : OpenDevice(fd)
      PROVE  P
  BY <1>8 DEF OpenDevice
<1>9. ASSUME SysStub
      PROVE  P
  BY <1>9 DEF SysStub
<1> HIDE DEF P
<1>10. P
  BY <1>2, <1>4, <1>5, <1>6, <1>7, <1>8, <1>9 DEF Calls
<1> QED
  BY <1>10 DEF P


\* The invariant does not mention what the program saw last.
LEMMA SameKeeps ==
    ASSUME IInv, UNCHANGED <<fd_table, next_fd, carried, cbuf, sbuf, len, pc, cur, asked,
                             got, answer, remote, remote_next>>
    PROVE  IInv'
  BY DEF IInv, TypeInv, AskInv, AnswerInv, TableInv, LostInv, Whole, Asking, Opened, Entries,
         Distinct, ClosedHere

\* Sending a request.
LEMMA AskKeeps ==
    ASSUME IInv, NEW fd, NEW r, MayAsk(fd, r), Ask(fd, r)
    PROVE  IInv'
<1>1. /\ pc' = "sent" /\ cur' = fd /\ asked' = r /\ cbuf' = Marshal(r) /\ len' = MsgLen(r)
      /\ UNCHANGED <<fd_table, next_fd, carried, sbuf, got, answer, remote, remote_next>>
  BY DEF Ask, client, server
<1>2. IsRequest(r) /\ pc = "idle" /\ cbuf \in Regs
  BY DEF MayAsk, IInv, TypeInv
<1>3. cbuf' \in Regs /\ Holds(cbuf', asked') /\ len' \in 0..NMR
  BY <1>1, <1>2, MarshalFacts
<1>4. TypeInv'
  BY <1>1, <1>3, FsClientConstants DEF IInv, TypeInv
<1>5. AskInv'
  BY <1>1, <1>2, <1>3 DEF AskInv, MayAsk, ClosedHere
<1>6. AnswerInv' /\ LostInv'
  BY <1>1 DEF IInv, AnswerInv, LostInv, Whole
<1>7. TableInv'
  BY <1>1, <1>2 DEF IInv, TableInv, Whole, Distinct, Entries
<1> QED
  BY <1>4, <1>5, <1>6, <1>7 DEF IInv

\* What the service's step does.
Served(r, a) ==
  /\ IsAnswer(a, r)
  /\ r.op = "open" /\ a.kind = "ok" => a.val = remote_next
  /\ r.op = "close" /\ r.fd \in remote => a.kind = "ok"
  /\ Whole => /\ r.op = asked.op /\ r.fd = asked.fd /\ r.n = asked.n
              /\ asked.op # "write" => r = asked
              /\ len' = ReplyLen(a)
  /\ got' = r /\ answer' = a
  /\ sbuf' \in Regs /\ HoldsAnswer(sbuf', a) /\ len' \in 0..(NMR + 1)
  /\ IF r.op = "open" /\ a.kind = "ok"
     THEN remote' = remote \cup {remote_next} /\ remote_next' = remote_next + 1
     ELSE /\ remote' = IF r.op = "close" THEN remote \ {r.fd} ELSE remote
          /\ remote_next' = remote_next

\* It decodes the request -- or, with the wrappers as they are, some request to open or
\* an unknown one -- and answers it.
LEMMA ServeShape ==
    ASSUME IInv, Serve
    PROVE  \E r, a : Served(r, a)
<1>1. pc = "sent"
  BY DEF Serve
<1>2. TypeInv /\ IsRequest(asked) /\ Holds(cbuf, asked) /\ len = MsgLen(asked)
  BY <1>1 DEF IInv, AskInv, Asking
<1>3. PICK junk \in {0, 1} :
         LET b == Deliver(sbuf, cbuf, junk)
             r == Unmarshal(b) IN
         \E a \in Answers(r) :
           /\ got' = r /\ answer' = a /\ sbuf' = WriteResponse(b, a)
           /\ len' \in {ReplyLen(a)} \cup (IF Whole THEN {} ELSE {NMR})
           /\ IF r.op = "open" /\ a.kind = "ok"
              THEN remote' = remote \cup {remote_next} /\ remote_next' = remote_next + 1
              ELSE /\ remote' = IF r.op = "close" THEN remote \ {r.fd} ELSE remote
                   /\ remote_next' = remote_next
  BY DEF Serve
<1> DEFINE b == Deliver(sbuf, cbuf, junk)
<1> DEFINE r == Unmarshal(b)
<1>4. PICK a \in Answers(r) :
           /\ got' = r /\ answer' = a /\ sbuf' = WriteResponse(b, a)
           /\ len' \in {ReplyLen(a)} \cup (IF Whole THEN {} ELSE {NMR})
           /\ IF r.op = "open" /\ a.kind = "ok"
              THEN remote' = remote \cup {remote_next} /\ remote_next' = remote_next + 1
              ELSE /\ remote' = IF r.op = "close" THEN remote \ {r.fd} ELSE remote
                   /\ remote_next' = remote_next
  BY <1>3
<1>5. /\ b \in Regs /\ (Whole => Holds(b, asked))
      /\ ~Whole => b[0] = junk /\ b[2] = junk /\ b[3] = junk
  BY <1>2, DeliverFacts
<1> HIDE DEF b
<1>6. /\ r.op \in Ops \cup {"other"} /\ r.n \in Nat /\ Len(r.data) \in Nat
      /\ r.op \in {"read", "getdents64"} => r.n <= MAX_DATA_IPC
      /\ Whole => /\ r.op = asked.op /\ r.fd = asked.fd /\ r.n = asked.n
                  /\ asked.op # "write" => r = asked
  <2>1. CASE Whole
    <3>1. /\ r.op = asked.op /\ r.fd = asked.fd /\ r.n = asked.n
          /\ asked.op # "write" => r = asked
          /\ Len(r.data) \in Nat
      BY <1>2, <1>5, <2>1, UnmarshalFacts
    <3> HIDE DEF r
    <3> QED
      BY <1>2, <2>1, <3>1 DEF IsRequest, Ops
  <2>2. CASE ~Whole
    <3>1. b[0] \in {0, 1} /\ b[3] \in {0, 1}
      BY <1>5, <2>2
    <3>2. OpOf(b[0]) \in {"open", "other"}
      <4>1. "open" \in Ops /\ Code["open"] = 1
        BY DEF Ops, PathOps, Code
      <4>2. OpOf(1) = "open"
        BY <4>1, CodeFacts
      <4>3. OpOf(0) = "other"
        <5>1. DOMAIN Code = Ops
          BY DEF Code, Ops, PathOps, FdOps
        <5>2. \A op \in Ops : Code[op] # 0
          BY CodeFacts
        <5> QED
          BY <5>1, <5>2 DEF OpOf
      <4> QED
        BY <3>1, <4>2, <4>3
    <3>3. r.op = OpOf(b[0])
      BY DEF Unmarshal, Request
    <3>4. r.data = <<>>
      BY <3>2 DEF Unmarshal, Request
    <3>5. r.n \in {b[3], 0}
      BY DEF Unmarshal, Request
    <3> HIDE DEF r
    <3>6. r.op \in Ops \cup {"other"} /\ r.op \notin {"read", "getdents64"}
      BY <3>2, <3>3 DEF Ops, PathOps
    <3>7. Len(r.data) \in Nat /\ r.n \in Nat
      BY <3>1, <3>4, <3>5
    <3> QED
      BY <2>2, <3>6, <3>7
  <2> QED
    BY <2>1, <2>2
<1> HIDE DEF r
<1>7. /\ IsAnswer(a, r)
      /\ r.op = "open" /\ a.kind = "ok" => a.val = remote_next
      /\ r.op = "close" /\ r.fd \in remote => a.kind = "ok"
  BY <1>2, <1>6, AnswerFacts
<1>8. /\ sbuf' \in Regs /\ HoldsAnswer(sbuf', a) /\ ReplyLen(a) \in 0..(NMR + 1)
  BY <1>4, <1>5, <1>6, <1>7, ResponseFacts
<1>9. len' \in 0..(NMR + 1) /\ (Whole => len' = ReplyLen(a))
  BY <1>4, <1>8, LayoutFacts
<1>10. Served(r, a)
  BY <1>4, <1>6, <1>7, <1>8, <1>9 DEF Served
<1> QED
  BY <1>10

\* Serving a request.
LEMMA ServeKeeps ==
    ASSUME IInv, Serve
    PROVE  IInv'
<1>1. PICK r, a : Served(r, a)
  BY ServeShape
<1>2. /\ pc = "sent" /\ pc' = "replied"
      /\ UNCHANGED <<fd_table, next_fd, carried, cbuf, cur, asked>>
  BY DEF Serve, client
<1>3. TypeInv'
  <2>1. /\ remote_next' \in Nat /\ remote_next' >= 3 /\ remote' \subseteq 3..(remote_next' - 1)
    <3>1. remote_next \in Nat /\ remote_next >= 3 /\ remote \subseteq 3..(remote_next - 1)
      BY DEF IInv, TypeInv
    <3>2. \/ remote' = remote \cup {remote_next} /\ remote_next' = remote_next + 1
          \/ remote' \subseteq remote /\ remote_next' = remote_next
      BY <1>1 DEF Served
    <3>3. /\ (remote_next + 1) - 1 = remote_next /\ remote_next + 1 \in Nat
          /\ remote_next + 1 >= 3
          /\ remote \cup {remote_next} \subseteq 3..remote_next
      BY <3>1
    <3> QED
      BY <3>1, <3>2, <3>3
  <2>2. sbuf' \in Regs /\ len' \in 0..(NMR + 1)
    BY <1>1 DEF Served
  <2> QED
    BY <1>2, <2>1, <2>2 DEF IInv, TypeInv
<1>4. AskInv'
  BY <1>2 DEF IInv, AskInv, Asking, ClosedHere
<1>5. LostInv'
  BY <1>2 DEF IInv, LostInv, Whole
<1>6. CASE ~Whole
  BY <1>2, <1>3, <1>4, <1>5, <1>6 DEF IInv, AnswerInv, TableInv, Whole
<1>7. CASE Whole
  <2>1. /\ r.op = asked.op /\ r.fd = asked.fd /\ r.n = asked.n
        /\ asked.op # "write" => r = asked
        /\ len' = ReplyLen(a) /\ IsAnswer(a, r) /\ HoldsAnswer(sbuf', a)
        /\ got' = r /\ answer' = a
    BY <1>1, <1>7 DEF Served
  <2>2. IsAnswer(a, asked)
    BY <2>1 DEF IsAnswer
  <2>3. AnswerInv'
    BY <1>2, <2>1, <2>2 DEF AnswerInv
  <2>4. remote = Entries /\ Distinct /\ Entries' = Entries /\ Distinct'
    BY <1>2, <1>7 DEF IInv, TableInv, Entries, Distinct
  <2>5. asked.op = "close" => asked.fd \in Entries
    BY <1>2 DEF IInv, AskInv, Asking, Entries, FdOps
  <2>6. remote_next \notin remote
    BY DEF IInv, TypeInv
  <2>7. (Opened' <=> r.op = "open" /\ a.kind = "ok") /\ asked' = asked
    BY <1>2, <2>1 DEF Opened
  <2>8. CASE r.op = "open" /\ a.kind = "ok"
    <3>1. remote' = remote \cup {remote_next} /\ a.val = remote_next
      BY <1>1, <2>8 DEF Served
    <3> QED
      BY <1>2, <1>3, <1>4, <1>5, <2>1, <2>3, <2>4, <2>6, <2>7, <2>8, <3>1 DEF IInv, TableInv
  <2>9. CASE r.op = "close"
    <3>1. remote' = remote \ {r.fd} /\ a.kind = "ok"
      BY <1>1, <2>1, <2>4, <2>5, <2>9 DEF Served
    <3> QED
      BY <1>2, <1>3, <1>4, <1>5, <2>1, <2>3, <2>4, <2>7, <2>9, <3>1 DEF IInv, TableInv
  <2>10. CASE ~(r.op = "open" /\ a.kind = "ok") /\ r.op # "close"
    <3>1. remote' = remote
      BY <1>1, <2>10 DEF Served
    <3> QED
      BY <1>2, <1>3, <1>4, <1>5, <2>1, <2>3, <2>4, <2>7, <2>10, <3>1 DEF IInv, TableInv
  <2> QED
    BY <2>8, <2>9, <2>10
<1> QED
  BY <1>6, <1>7

\* A service that has panicked: the client waits for ever.
LEMMA PanicKeeps ==
    ASSUME IInv, ServerPanics
    PROVE  IInv'
<1>1. /\ pc' = "hung"
      /\ UNCHANGED <<fd_table, next_fd, carried, cbuf, sbuf, len, cur, asked, got, answer,
                     remote, remote_next>>
  BY DEF ServerPanics, client, server
<1> QED
  BY <1>1 DEF IInv, TypeInv, AskInv, AnswerInv, TableInv, LostInv, Whole, Asking, Entries,
              Distinct


\* What the client's second half does.
LEMMA FinishShape ==
    ASSUME IInv, Finish
    PROVE  /\ pc = "replied" /\ IsRequest(asked) /\ cbuf' \in Regs
           /\ Whole => /\ cbuf'[0] = (IF answer.kind = "err" THEN 1 ELSE 0)
                       /\ cbuf'[1] = answer.val /\ HoldsAnswer(cbuf', answer)
           /\ ~Whole => cbuf'[0] # 0 /\ cbuf'[1] = 0
           /\ out' = [op |-> asked.op, rax |-> ReturnValue(cbuf', cbuf'[0] = 0),
                      data |-> ReturnData(cbuf', cbuf'[0] = 0)]
           /\ IF asked.op = "open" /\ cbuf'[0] = 0
              THEN /\ fd_table' = [fd_table EXCEPT ![next_fd] = cbuf'[1]]
                   /\ next_fd' = next_fd + 1
              ELSE /\ fd_table' = IF asked.op = "close" /\ cbuf'[0] = 0
                                  THEN [fd_table EXCEPT ![cur] = 0] ELSE fd_table
                   /\ next_fd' = next_fd
<1>1. pc = "replied" /\ cbuf' = Received
  BY DEF Finish
<1>2. /\ IsRequest(asked) /\ Holds(cbuf, asked)
      /\ asked.op \in FdOps => cur \in Locals /\ fd_table[cur] # 0
  BY <1>1 DEF IInv, AskInv, Asking
<1>3. /\ cbuf' \in Regs /\ (Whole => HoldsAnswer(cbuf', answer))
      /\ ~Whole => cbuf'[0] = cbuf[0] /\ cbuf'[1] = cbuf[1]
  BY <1>1, ReceivedFacts
<1>4. ~Whole => cbuf'[0] # 0 /\ cbuf'[1] = 0
  <2> SUFFICES ASSUME ~Whole PROVE cbuf'[0] # 0 /\ cbuf'[1] = 0
    OBVIOUS
  <2>1. asked.op \in Ops /\ Code[asked.op] \in 1..11
    BY <1>2, CodeFacts DEF IsRequest, Ops
  <2>2. asked.op \notin FdOps
    BY <1>2 DEF IInv, LostInv
  <2>3. asked.fd = 0
    BY <1>2, <2>1, <2>2 DEF IsRequest, Ops
  <2> QED
    BY <1>2, <1>3, <2>1, <2>3 DEF Holds
<1>5. out' = [op |-> asked.op, rax |-> ReturnValue(cbuf', cbuf'[0] = 0),
              data |-> ReturnData(cbuf', cbuf'[0] = 0)]
  BY <1>1 DEF Finish
<1>6. IF asked.op = "open" /\ cbuf'[0] = 0
      THEN /\ fd_table' = [fd_table EXCEPT ![next_fd] = cbuf'[1]]
           /\ next_fd' = next_fd + 1
      ELSE /\ fd_table' = IF asked.op = "close" /\ cbuf'[0] = 0
                          THEN [fd_table EXCEPT ![cur] = 0] ELSE fd_table
           /\ next_fd' = next_fd
  BY <1>1 DEF Finish, AfterClose
<1> QED
  BY <1>1, <1>2, <1>3, <1>4, <1>5, <1>6 DEF HoldsAnswer

\* Reading the reply back.
LEMMA FinishKeeps ==
    ASSUME IInv, Finish
    PROVE  IInv'
<1>1. /\ pc = "replied" /\ pc' = "idle"
      /\ UNCHANGED <<carried, sbuf, got, answer, remote, remote_next, len, cur, asked>>
  BY DEF Finish, server
<1>2. /\ IsRequest(asked) /\ cbuf' \in Regs
      /\ Whole => /\ cbuf'[0] = (IF answer.kind = "err" THEN 1 ELSE 0)
                  /\ cbuf'[1] = answer.val
      /\ ~Whole => cbuf'[0] # 0
      /\ IF asked.op = "open" /\ cbuf'[0] = 0
         THEN /\ fd_table' = [fd_table EXCEPT ![next_fd] = cbuf'[1]]
              /\ next_fd' = next_fd + 1
         ELSE /\ fd_table' = IF asked.op = "close" /\ cbuf'[0] = 0
                             THEN [fd_table EXCEPT ![cur] = 0] ELSE fd_table
              /\ next_fd' = next_fd
  BY FinishShape
<1>3. AskInv' /\ AnswerInv'
  BY <1>1 DEF AskInv, AnswerInv, Asking
<1>4. Whole' = Whole
  BY <1>1 DEF Whole
<1>5. /\ fd_table \in [Locals -> Nat] /\ next_fd \in 3..(MaxFd + 1)
      /\ \A f \in Locals : f >= next_fd => fd_table[f] = 0
      /\ remote \subseteq 3..(remote_next - 1) /\ remote_next \in Nat
  BY DEF IInv, TypeInv
<1>6. ASSUME fd_table' \in [Locals -> Nat], next_fd' \in 3..(MaxFd + 1),
             \A f \in Locals : f >= next_fd' => fd_table'[f] = 0
      PROVE  TypeInv'
  BY <1>1, <1>2, <1>6 DEF IInv, TypeInv
<1>7. CASE fd_table' = fd_table /\ next_fd' = next_fd
           /\ (Whole => ~Opened /\ asked.op # "close")
  <2>1. TypeInv'
    BY <1>5, <1>6, <1>7
  <2>2. LostInv'
    BY <1>4, <1>7 DEF IInv, LostInv
  <2>3. TableInv'
    BY <1>1, <1>4, <1>7 DEF IInv, TableInv, Entries, Distinct
  <2> QED
    BY <1>3, <2>1, <2>2, <2>3 DEF IInv
<1>8. CASE ~Whole
  BY <1>2, <1>7, <1>8
<1>9. CASE Whole /\ asked.op = "open" /\ cbuf'[0] = 0
  <2>1. Opened
    <3>1. IsAnswer(answer, asked) /\ answer.kind # "err"
      BY <1>1, <1>2, <1>9 DEF IInv, AnswerInv
    <3> QED
      BY <1>9, <3>1 DEF IsAnswer, Kinds, Opened
  <2>2. /\ answer.val \in remote /\ answer.val \notin Entries
        /\ remote = Entries \cup {answer.val} /\ Distinct
    BY <1>1, <1>9, <2>1 DEF IInv, TableInv
  <2>3. fd_table' = [fd_table EXCEPT ![next_fd] = answer.val] /\ next_fd' = next_fd + 1
    BY <1>2, <1>9
  <2>4. next_fd \in Locals /\ next_fd <= MaxFd /\ next_fd \in Nat
    BY <1>1, <1>5, <1>9, FsClientConstants DEF IInv, AskInv, Asking, Locals
  <2>5. answer.val \in Nat /\ answer.val # 0
    BY <1>5, <2>2
  <2>6. fd_table[next_fd] = 0
    BY <1>5, <2>4
  <2>7. \A f \in Locals : fd_table'[f] = IF f = next_fd THEN answer.val ELSE fd_table[f]
    BY <1>5, <2>3
  <2>8. TypeInv'
    <3>1. fd_table' \in [Locals -> Nat]
      BY <1>5, <2>3, <2>5
    <3>2. next_fd' \in 3..(MaxFd + 1)
      BY <1>5, <2>3, <2>4, FsClientConstants
    <3>3. \A f \in Locals : f >= next_fd' => fd_table'[f] = 0
      <4>1. \A f \in Locals : f >= next_fd + 1 => f # next_fd /\ f >= next_fd
        BY <2>4, FsClientConstants DEF Locals
      <4> QED
        BY <1>5, <2>3, <2>7, <4>1
    <3> QED
      BY <1>6, <3>1, <3>2, <3>3
  <2>9. Entries' = Entries \cup {answer.val}
    BY <2>4, <2>5, <2>6, <2>7 DEF Entries
  <2>10. Distinct'
    BY <2>2, <2>5, <2>7 DEF Distinct, Entries
  <2> QED
    BY <1>1, <1>3, <1>4, <1>9, <2>2, <2>8, <2>9, <2>10 DEF IInv, TableInv, LostInv
<1>10. CASE Whole /\ asked.op = "close"
  <2>1. answer.kind = "ok" /\ remote = Entries \ {asked.fd} /\ Distinct
    BY <1>1, <1>10 DEF IInv, TableInv
  <2>2. cur \in Locals /\ fd_table[cur] # 0 /\ asked.fd = fd_table[cur]
    BY <1>1, <1>10 DEF IInv, AskInv, Asking, FdOps
  <2>3. fd_table' = [fd_table EXCEPT ![cur] = 0] /\ next_fd' = next_fd
    BY <1>2, <1>10, <2>1
  <2>4. \A f \in Locals : fd_table'[f] = IF f = cur THEN 0 ELSE fd_table[f]
    BY <1>5, <2>3
  <2>5. TypeInv'
    BY <1>5, <1>6, <2>3, <2>4
  <2>6. Entries' = Entries \ {asked.fd}
    BY <2>1, <2>2, <2>4 DEF Entries, Distinct
  <2>7. Distinct'
    BY <2>1, <2>4 DEF Distinct
  <2> QED
    BY <1>1, <1>3, <1>4, <1>10, <2>1, <2>5, <2>6, <2>7 DEF IInv, TableInv, LostInv
<1>11. CASE Whole /\ asked.op # "close" /\ ~(asked.op = "open" /\ cbuf'[0] = 0)
  <2>1. ~Opened
    BY <1>2, <1>11 DEF Opened
  <2> QED
    BY <1>2, <1>7, <1>11, <2>1
<1> QED
  BY <1>8, <1>9, <1>10, <1>11


\* The initial states satisfy the invariant ...
LEMMA InvInit == ASSUME Init PROVE IInv
<1>1. /\ fd_table = [f \in Locals |-> 0] /\ next_fd = 3 /\ pc = "idle"
      /\ cbuf = [m \in MRs |-> 0] /\ sbuf = [m \in MRs |-> 0] /\ len = 0
      /\ carried \in {MRs, MRs \ InRegisters} /\ remote = {} /\ remote_next = 3
  BY DEF Init
<1>2. TypeInv
  BY <1>1, FsClientConstants DEF TypeInv, Regs
<1>3. AskInv /\ AnswerInv
  BY <1>1 DEF AskInv, AnswerInv, Asking
<1>4. \A f \in Locals : fd_table[f] = 0
  BY <1>1
<1>5. TableInv /\ LostInv
  BY <1>1, <1>4 DEF TableInv, LostInv, Entries, Distinct
<1> QED
  BY <1>2, <1>3, <1>5 DEF IInv

\* ... and every step preserves it.
LEMMA InvNext == ASSUME IInv, [Next]_vars PROVE IInv'
<1>1. CASE Calls
  <2>1. TypeInv
    BY DEF IInv
  <2>2. ASSUME NEW op, NEW rax, NEW data, Answer(op, rax, data)
        PROVE  IInv'
    <3>1. UNCHANGED <<fd_table, next_fd, carried, cbuf, sbuf, len, pc, cur, asked,
                      got, answer, remote, remote_next>>
      BY <2>2 DEF Answer, client, server
    <3> QED
      BY <3>1, SameKeeps
  <2> QED
    BY <1>1, <2>1, <2>2, CallShape, AskKeeps
<1>2. CASE Serve
  BY <1>2, ServeKeeps
<1>3. CASE ServerPanics
  BY <1>3, PanicKeeps
<1>4. CASE Finish
  BY <1>4, FinishKeeps
<1>5. CASE UNCHANGED vars
  BY <1>5, SameKeeps DEF vars
<1> QED
  BY <1>1, <1>2, <1>3, <1>4, <1>5 DEF Next, Hung

\* The invariant holds of every reachable state.
LEMMA InvHolds == Spec => []IInv
<1>1. Init => IInv
  BY InvInit
<1>2. IInv /\ [Next]_vars => IInv'
  BY InvNext
<1> QED
  BY <1>1, <1>2, PTL DEF Spec

-----------------------------------------------------------------------------
(***************************************************************************)
(* Theorems.                                                               *)
(***************************************************************************)
\* Type correctness: the registers stay numbers, and no message is longer than the buffer
\* but for one register of a full directory listing (ipc_client.rs 69-131).
THEOREM TypeCorrect == Spec => []TypeOK
<1>1. ASSUME IInv, pc = "sent"
      PROVE  len <= NMR
  <2>1. cbuf \in Regs /\ IsRequest(asked) /\ len = MsgLen(asked)
    BY <1>1 DEF IInv, TypeInv, AskInv, Asking
  <2>2. MsgLen(asked) \in 0..NMR
    BY <2>1, MarshalFacts
  <2> QED
    BY <2>1, <2>2
<1>2. IInv => TypeOK
  BY <1>1 DEF IInv, TypeInv, TypeOK, Regs
<1> QED
  BY <1>2, InvHolds, PTL

\* A message that is carried whole is understood: the service decodes what the client meant,
\* for every path that fits and whatever the buffers held (ipc_client.rs 136-436;
\* ext4-srv/main.rs 155-237).
THEOREM UnderstoodHolds == Spec => []Understood
<1>1. IInv => Understood
  BY DEF IInv, AnswerInv, Understood
<1> QED
  BY <1>1, InvHolds, PTL

\* Between calls the two descriptor tables agree (ipc_client.rs 155-170, 277-304).
THEOREM TablesAgreeHolds == Spec => []TablesAgree
<1>1. IInv => TablesAgree
  BY DEF IInv, TableInv, TablesAgree, Distinct, Entries
<1> QED
  BY <1>1, InvHolds, PTL

\* Who finishes is the client's second half.
LEMMA WhoFinishes ==
    ASSUME IInv, [Next]_vars, Finishes
    PROVE  Finish
<1>1. pc = "replied" /\ pc' = "idle"
  BY DEF Finishes
<1>2. ~Calls
  <2> SUFFICES ASSUME Calls PROVE FALSE
    OBVIOUS
  <2>1. pc = "idle"
    BY CallShape DEF IInv, Answer, MayAsk
  <2> QED
    BY <1>1, <2>1
<1> QED
  BY <1>1, <1>2 DEF Next, Serve, ServerPanics, Hung, vars

\* The program gets the service's answer: value, error, the bytes read, and a descriptor
\* that stands for the service's (ipc_client.rs 136-304, 340-436; ext4-srv/main.rs 254-329).
THEOREM AnsweredHolds == Spec => Answered
<1> DEFINE A == Finishes /\ Whole =>
       /\ IF answer.kind = "err" THEN out'.rax = answer.val
          ELSE CASE asked.op = "open"  -> out'.rax = next_fd /\ fd_table'[next_fd] = answer.val
                 [] asked.op \in {"read", "getdents64", "write", "lseek"} -> out'.rax = answer.val
                 [] OTHER              -> out'.rax = 0
       /\ answer.kind = "data" /\ asked.op = "read" => out'.data = answer.data
<1>1. IInv /\ [Next]_vars => A
  <2> SUFFICES ASSUME IInv, [Next]_vars, Finishes, Whole
               PROVE  A
    OBVIOUS
  <2>1. Finish
    BY WhoFinishes
  <2> DEFINE mr == cbuf'
  <2> DEFINE ok == mr[0] = 0
  <2>2. /\ pc = "replied" /\ IsRequest(asked) /\ mr \in Regs
        /\ mr[0] = (IF answer.kind = "err" THEN 1 ELSE 0)
        /\ mr[1] = answer.val /\ HoldsAnswer(mr, answer)
    BY <2>1, FinishShape
  <2>3. out'.rax = ReturnValue(mr, ok) /\ out'.data = ReturnData(mr, ok)
    BY <2>1, FinishShape
  <2>4. asked.op = "open" /\ ok => fd_table' = [fd_table EXCEPT ![next_fd] = mr[1]]
    BY <2>1, FinishShape
  <2>5. IsAnswer(answer, asked)
    BY <2>2 DEF IInv, AnswerInv
  <2>6. ok <=> answer.kind # "err"
    BY <2>2
  <2> HIDE DEF ok
  <2>7. IF answer.kind = "err" THEN out'.rax = answer.val
        ELSE CASE asked.op = "open"  -> out'.rax = next_fd /\ fd_table'[next_fd] = answer.val
               [] asked.op \in {"read", "getdents64", "write", "lseek"} -> out'.rax = answer.val
               [] OTHER              -> out'.rax = 0
    <3>1. asked.op = "open" /\ ok => fd_table'[next_fd] = answer.val
      <4>1. asked.op = "open" => next_fd \in DOMAIN fd_table
        BY <2>2, FsClientConstants DEF IInv, AskInv, Asking, TypeInv, Locals
      <4> QED
        BY <2>2, <2>4, <4>1
    <3> QED
      BY <2>2, <2>3, <2>6, <3>1 DEF ReturnValue
  <2>8. answer.kind = "data" /\ asked.op = "read" => out'.data = answer.data
    <3> SUFFICES ASSUME answer.kind = "data", asked.op = "read"
                 PROVE  out'.data = answer.data
      OBVIOUS
    <3>1. answer.val = Len(answer.data) /\ Len(answer.data) <= asked.n
      BY <2>5 DEF IsAnswer
    <3>2. Lesser(mr[1], asked.n) = Len(answer.data)
      BY <2>2, <2>5, <3>1 DEF Lesser, IsAnswer, IsRequest
    <3>3. out'.data = Decode(mr, DATA_MR_START, Len(answer.data))
      BY <2>3, <2>6, <3>2 DEF ReturnData
    <3> QED
      BY <2>2, <3>3 DEF HoldsAnswer
  <2> QED
    BY <2>7, <2>8
<1>2. Answered <=> [][A]_vars
  BY DEF Answered
<1> HIDE DEF A
<1> QED
  BY <1>1, <1>2, InvHolds, PTL DEF Spec
=============================================================================
