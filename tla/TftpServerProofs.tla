-------------------------- MODULE TftpServerProofs --------------------------
(***************************************************************************)
(* Proofs about TftpServer, for any clients, files, block size and number  *)
(* of block numbers, and any number of transfers, faults and resends.      *)
(***************************************************************************)
EXTENDS TftpServer, SequenceTheorems, TLAPS

(* The block after the last that has been acknowledged, counted from 1 and *)
(* without the wrap.                                                       *)
current == IF transfer.block = 0 THEN BlockMod ELSE transfer.block

StartOf(k) == (k - 1) * BlockSize

(* Files whose blocks all have numbers of their own. *)
Numbered(o) == o.size \div BlockSize + 1 < BlockMod

(* Block k of a transfer that was opened as o: empty if GetFileSize failed,*)
(* else what there was of the file when it was opened, at most a block.    *)
BlockLen(o, k) ==
  LET left == o.size - StartOf(k)
  IN  IF o.stat = 0 THEN 0 ELSE IF left < BlockSize THEN left ELSE BlockSize

BlockOf(o, k) == [file |-> o.file, offset |-> StartOf(k), len |-> BlockLen(o, k)]

IsBlock(o, k) ==
  /\ k \in 1..(BlockMod - 1)
  /\ StartOf(k) <= o.size
  /\ o.stat = 0 => k = 1

-----------------------------------------------------------------------------
(* The inductive invariant.                                                *)

(* An opened file has at least the size it had, and only the transfer that *)
(* is about to ask for it has not been told one.                           *)
OpenedFiles ==
  /\ at # "run" => tid > 0
  /\ \A t \in 1..tid : /\ size[opened[t].file] >= opened[t].size
                       /\ opened[t].stat = Absent <=> t = tid /\ at = "stat"

(* Packets of DATA carry the blocks of their numbers. *)
Carries(d, o) == /\ o.stat # Absent
                 /\ Numbered(o) => IsBlock(o, d.block) /\ d.content = BlockOf(o, d.block)

DataAreBlocks == \A d \in data : d.tid \in 1..tid /\ Carries(d, opened[d.tid])

(* What a client knows is the first blocks of one transfer, of which only  *)
(* the last may be short, and is if the client believes it complete.       *)
FirstBlocks(k, o) ==
  /\ o.stat # Absent /\ k.got # <<>>
  /\ Numbered(o) =>
       /\ \A i \in 1..Len(k.got) : IsBlock(o, i) /\ k.got[i] = BlockOf(o, i)
       /\ \A i \in 1..(Len(k.got) - 1) : k.got[i].len = BlockSize
       /\ k.at = "complete" <=> k.got[Len(k.got)].len < BlockSize

ClientsHaveBlocks ==
  \A c \in Client : IF client[c].at \in {"idle", "requested"}
                   THEN client[c].tid = 0 /\ client[c].got = <<>>
                   ELSE client[c].tid \in 1..tid /\ FirstBlocks(client[c], opened[client[c].tid])

(* Client c has received n blocks of transfer t, or more. *)
Has(c, t, n) == client[c].tid = t /\ Len(client[c].got) >= n

(* Some client has received what an ACK says. *)
AcksAreReceived ==
  \A a \in acks :
    /\ a.tid \in 1..tid
    /\ a.opcode = "ACK" /\ Numbered(opened[a.tid]) =>
         a.block > 0 /\ \E c \in Client : Has(c, a.tid, a.block)

(* The tenant is at the beginning of the current block, or after the end   *)
(* of the file, which was in the block before. *)
AtBlock == /\ current < BlockMod
           /\ transfer.offset = StartOf(current)
           /\ transfer.offset <= opened[tid].size
AtEnd == /\ current > 1
         /\ transfer.offset = opened[tid].size
         /\ StartOf(current - 1) < transfer.offset /\ transfer.offset < StartOf(current)

(* The current block has been read, and put on the air. *)
ReadBlock == /\ AtBlock
             /\ transfer.readLen = BlockLen(opened[tid], current) /\ transfer.readLen > 0
Transmitted == (at = "wait" /\ transfer.readLen > 0) \/ at = "wait_last"

(* Nobody has seen a block that has not been sent. *)
NotAhead ==
  LET sent == IF Transmitted THEN current ELSE current - 1
  IN  /\ \A d \in data : d.tid = tid => d.block <= sent
      /\ \A c \in Client : client[c].tid = tid => Len(client[c].got) <= sent

SizeTold == /\ transfer.fileSize = opened[tid].stat
            /\ transfer.fileSize # 0 => transfer.fileSize >= opened[tid].size

OfNumbered ==
  /\ AtBlock \/ AtEnd
  /\ NotAhead
  /\ opened[tid].stat = 0 => current = 1 /\ at # "wait"
  /\ at = "wait" => (transfer.readLen = -1 \/ ReadBlock)
  /\ current > 1 => \E c \in Client : Has(c, tid, current - 1)

Progress ==
  at \in {"send", "wait", "wait_last"} => SizeTold /\ (Numbered(opened[tid]) => OfNumbered)

(* Requests are what their clients asked for, and files are opened for them. *)
AskedFor ==
  /\ \A c \in Client : client[c].at # "idle" =>
       client[c].request \in Request /\ client[c].request.client = c
  /\ \A r \in requests : client[r.client].at # "idle" /\ client[r.client].request = r
  /\ \A t \in 1..tid : LET c == opened[t].client
                       IN  client[c].at # "idle" /\ client[c].request.file = opened[t].file

Inv == /\ TypeOK /\ OpenedFiles /\ DataAreBlocks /\ ClientsHaveBlocks /\ AcksAreReceived
       /\ Progress /\ AskedFor

-----------------------------------------------------------------------------
(* Where blocks start.                                                     *)

(* Division, and what is left. *)
LEMMA Division ==
  ASSUME NEW n \in Nat, NEW m \in Nat \ {0}
  PROVE  /\ n = m * (n \div m) + (n % m)
         /\ n \div m \in Nat /\ n % m \in 0..(m - 1)
  BY SMT

(* The first block starts at 0, and each where the one before ends. *)
LEMMA Starts ==
  ASSUME NEW k \in Int
  PROVE  /\ StartOf(k) \in Int /\ StartOf(1) = 0
         /\ StartOf(k + 1) = StartOf(k) + BlockSize
<1>1. BlockSize \in Int
  BY TftpAssumption
<1> QED BY <1>1, SMT DEF StartOf

(* A later block starts at least a block later. *)
LEMMA StartsGrow ==
  ASSUME NEW j \in Int, NEW k \in Int, j < k
  PROVE  StartOf(j) + BlockSize <= StartOf(k)
<1>1. BlockSize \in Nat \ {0}
  BY TftpAssumption
<1>2. PICK d \in Nat \ {0} : k = j + d
  <2>1. k - j \in Nat \ {0} /\ k = j + (k - j)
    OBVIOUS
  <2> QED BY <2>1
<1>3. d * BlockSize >= BlockSize
  BY <1>1, <1>2
<1>4. (k - 1) * BlockSize = (j - 1) * BlockSize + d * BlockSize
  BY <1>1, <1>2
<1> QED BY <1>1, <1>3, <1>4 DEF StartOf

(* A block that starts within a file of which the numbers do not wrap has  *)
(* a number of its own.                                                    *)
LEMMA NumbersSuffice ==
  ASSUME NEW o, o.size \in Nat, Numbered(o),
         NEW k \in Nat \ {0}, StartOf(k) <= o.size
  PROVE  k < BlockMod
<1> DEFINE n == o.size
           q == n \div BlockSize
<1>1. BlockSize \in Nat \ {0} /\ BlockMod \in Nat
  BY TftpAssumption
<1>2. n = BlockSize * q + (n % BlockSize) /\ q \in Nat /\ n % BlockSize \in 0..(BlockSize - 1)
  BY <1>1, Division
<1>3. q + 1 < BlockMod
  BY <1>1, <1>2 DEF Numbered
<1>4. StartOf(q + 1) = q * BlockSize
  BY <1>1, <1>2 DEF StartOf
<1>5. k <= q + 1
  <2>1. SUFFICES ASSUME q + 1 < k PROVE FALSE
    BY <1>2
  <2>2. StartOf(q + 1) + BlockSize <= StartOf(k)
    BY <1>2, <2>1, StartsGrow
  <2>3. StartOf(k) \in Int
    BY Starts
  <2>4. q * BlockSize = BlockSize * q /\ q * BlockSize \in Int
    BY <1>1, <1>2
  <2>5. StartOf(k) <= n /\ n \in Int /\ n < q * BlockSize + BlockSize
    <3> HIDE DEF q
    <3> QED BY <1>1, <1>2, <2>4
  <2> HIDE DEF n, q
  <2> QED BY <1>1, <1>4, <2>2, <2>3, <2>4, <2>5
<1> QED BY <1>1, <1>2, <1>3, <1>5

(* No multiple of the block size is inside a block. *)
LEMMA NoMultipleInside ==
  ASSUME NEW n \in Nat, n % BlockSize = 0, NEW k \in Int,
         StartOf(k) < n, n < StartOf(k + 1)
  PROVE  FALSE
<1> DEFINE q == n \div BlockSize
<1>1. BlockSize \in Nat \ {0}
  BY TftpAssumption
<1>2. n = BlockSize * q /\ q \in Nat
  BY <1>1, Division
<1>3. StartOf(q + 1) = n
  <2>1. q * BlockSize = BlockSize * q
    BY <1>1, <1>2
  <2> QED BY <1>1, <1>2, <2>1 DEF StartOf
<1> HIDE DEF q
<1>4. CASE q + 1 <= k
  BY <1>1, <1>2, <1>3, <1>4, StartsGrow, Starts
<1>5. CASE q + 1 > k
  BY <1>1, <1>2, <1>3, <1>5, StartsGrow, Starts
<1> QED BY <1>2, <1>4, <1>5

-----------------------------------------------------------------------------
(* Types.                                                                  *)

Opening == [client : Client, file : File, size : Nat, stat : Nat \cup {Absent}]

(* What TypeOK says of opened, as of a function. *)
LEMMA OpenedType ==
  ASSUME TypeOK
  PROVE  /\ tid \in 0..MaxTransfers /\ opened \in Seq(Opening)
         /\ \A t \in 1..tid : opened[t] \in Opening
<1>1. opened \in Seq(Opening) /\ tid <= MaxTransfers
  BY DEF TypeOK, Opening
<1>2. tid \in Nat
  BY <1>1, LenProperties DEF tid
<1>3. \A t \in 1..tid : opened[t] \in Opening
  BY <1>1, ElementOfSeq DEF tid
<1>4. MaxTransfers \in Nat
  BY TftpAssumption
<1> QED BY <1>1, <1>2, <1>3, <1>4

(* One more transfer. *)
LEMMA OpenedGrows ==
  ASSUME TypeOK, NEW o \in Opening, opened' = Append(opened, o)
  PROVE  /\ opened' \in Seq(Opening) /\ tid' = tid + 1
         /\ \A t \in 1..tid : opened'[t] = opened[t]
         /\ opened'[tid'] = o
<1>1. opened \in Seq(Opening) /\ Len(opened) \in Nat
  BY OpenedType DEF tid
<1> QED BY <1>1 DEF tid

(* The answer of fs_stat. *)
LEMMA OpenedTold ==
  ASSUME TypeOK, tid > 0, NEW n \in Nat, opened' = [opened EXCEPT ![tid].stat = n]
  PROVE  /\ opened' \in Seq(Opening) /\ tid' = tid
         /\ \A t \in 1..(tid - 1) : opened'[t] = opened[t]
         /\ opened'[tid] = [opened[tid] EXCEPT !.stat = n]
<1> DEFINE o == [opened[tid] EXCEPT !.stat = n]
<1>1. opened \in Seq(Opening) /\ tid \in 1..Len(opened) /\ opened[tid] \in Opening /\ tid \in Nat
  BY OpenedType DEF tid
<1>2. o \in Opening
  BY <1>1 DEF Opening
<1>3. opened' = [opened EXCEPT ![tid] = o]
  OBVIOUS
<1> HIDE DEF o
<1>4. /\ opened' \in Seq(Opening) /\ Len(opened') = Len(opened)
      /\ \A j \in 1..Len(opened) : opened'[j] = IF j = tid THEN o ELSE opened[j]
  BY <1>1, <1>2, <1>3, ExceptSeq
<1>5. tid' = tid
  BY <1>4 DEF tid
<1>6. \A t \in 1..(tid - 1) : opened'[t] = opened[t]
  BY <1>1, <1>4 DEF tid
<1>7. opened'[tid] = o
  BY <1>1, <1>4
<1> QED BY <1>4, <1>5, <1>6, <1>7 DEF o
(* A stretch of a block or less is one that a packet can carry. *)
LEMMA StretchType ==
  ASSUME TypeOK, tid > 0, NEW n \in Nat
  PROVE  Content(n) \in Stretch
<1>1. tid \in 1..tid /\ opened[tid] \in Opening
  BY OpenedType
<1>2. transfer.offset \in Int
  BY DEF TypeOK
<1> QED BY <1>1, <1>2 DEF Content, Stretch, Opening

(* Transmit puts a packet of DATA on the air. *)
LEMMA TransmitType ==
  ASSUME TypeOK, tid > 0, NEW n \in Nat, Transmit(Content(n))
  PROVE  data' \subseteq Data /\ addr' \in Client \cup OtherPorts \cup {None}
<1>1. tid \in 1..tid /\ tid \in 1..MaxTransfers /\ opened[tid] \in Opening
  BY OpenedType
<1>2. /\ transfer.block \in 0..(BlockMod - 1) /\ addr \in Client \cup OtherPorts \cup {None}
      /\ data \subseteq Data
  BY DEF TypeOK
<1>3. Destination(opened[tid].client) \in Client \cup OtherPorts
  BY <1>1, <1>2 DEF Destination, Opening
<1>4. Content(n) \in Stretch
  BY StretchType
<1>5. [port |-> Destination(opened[tid].client), tid |-> tid,
       block |-> transfer.block, content |-> Content(n)] \in Data
  BY <1>1, <1>2, <1>3, <1>4 DEF Data
<1> QED BY <1>2, <1>3, <1>5 DEF Transmit

(* The block number stays a number of 16 bits. *)
LEMMA NextNumberType ==
  ASSUME NEW n \in Nat
  PROVE  n % BlockMod \in 0..(BlockMod - 1)
<1>1. BlockMod \in Nat \ {0}
  BY TftpAssumption
<1> QED BY <1>1, Division

Locals == [fileSize : Nat, block : 0..(BlockMod - 1), offset : Int, readLen : Int]

(* The locals of handleReadRequest keep their types. *)
LEMMA LocalsType ==
  ASSUME TypeOK
  PROVE  /\ transfer \in Locals /\ Idle \in Locals
         /\ \A n \in Nat : [Idle EXCEPT !.fileSize = n] \in Locals
         /\ \A n \in Int : [transfer EXCEPT !.readLen = n] \in Locals
         /\ [transfer EXCEPT !.block = blockNumber, !.offset = @ + transfer.readLen] \in Locals
<1>1. transfer \in Locals
  BY DEF TypeOK, Locals
<1>2. Idle \in Locals
  <2>1. 1 \in 0..(BlockMod - 1)
    BY TftpAssumption
  <2> QED BY <2>1 DEF Idle, Locals
<1>3. blockNumber \in 0..(BlockMod - 1)
  <2>1. transfer.block + 1 \in Nat
    BY <1>1 DEF Locals
  <2> QED BY <2>1, NextNumberType DEF blockNumber
<1>4. \A n \in Nat : [Idle EXCEPT !.fileSize = n] \in Locals
  BY <1>2 DEF Locals
<1>5. \A n \in Int : [transfer EXCEPT !.readLen = n] \in Locals
  BY <1>1 DEF Locals
<1>6. [transfer EXCEPT !.block = blockNumber, !.offset = @ + transfer.readLen] \in Locals
  <2>1. transfer.offset + transfer.readLen \in Int
    BY <1>1 DEF Locals
  <2> HIDE DEF blockNumber
  <2> QED BY <1>1, <1>3, <2>1 DEF Locals
<1> QED BY <1>1, <1>2, <1>4, <1>5, <1>6

(* A fault is within the bound. *)
LEMMA FaultType ==
  ASSUME TypeOK, Fault
  PROVE  faults' \in 0..MaxFaults
  BY TftpAssumption DEF TypeOK, Fault

(* Numbers below the last are themselves, and 0 comes after the last. *)
LEMMA NumberIsItself ==
  /\ \A n \in Nat : n < BlockMod => n % BlockMod = n
  /\ BlockMod % BlockMod = 0
<1>1. BlockMod \in Nat \ {0, 1}
  BY TftpAssumption
<1> QED BY <1>1, SMT

(* The tenant's steps keep the types. *)
LEMMA ServerType ==
  ASSUME TypeOK, OpenedFiles, Progress, ServerStep \/ ReadFails
  PROVE  TypeOK'
<1> USE DEF network, server, bounds
<1>1. ASSUME NEW r \in requests, Accept(r) PROVE TypeOK'
  <2> DEFINE o == [client |-> r.client, file |-> r.file, size |-> size[r.file], stat |-> Absent]
  <2>1. o \in Opening
    <3>1. r \in Request /\ r.file \in File /\ size[r.file] \in Nat
      BY <1>1, TftpAssumption DEF TypeOK, Request, Accept, Opens
    <3> QED BY <3>1 DEF Request, Opening
  <2>2. opened' = Append(opened, o)
    BY <1>1 DEF Accept
  <2>3. opened' \in Seq(Opening) /\ tid' = tid + 1
    BY <2>1, <2>2, OpenedGrows
  <2>4. tid' <= MaxTransfers
    BY <1>1, <2>3, OpenedType, TftpAssumption DEF Accept
  <2> QED BY <1>1, <2>3, <2>4 DEF Accept, TypeOK, Opening
<1>2. ASSUME NEW r \in requests, Refuse(r) PROVE TypeOK'
  <2>1. size' \in [File -> Nat \cup {Absent}]
    BY <1>2, TftpAssumption DEF Refuse, TypeOK
  <2> QED BY <1>2, <2>1 DEF Refuse, TypeOK, tid
<1>3. CASE Stat
  <2>1. at = "stat" /\ tid > 0
    BY <1>3 DEF Stat, OpenedFiles
  <2>2. tid \in 1..tid /\ opened[tid] \in Opening /\ size[opened[tid].file] \in Nat
    <3>1. tid \in 1..tid /\ opened[tid] \in Opening
      BY <2>1, OpenedType
    <3>2. opened[tid].size \in Nat /\ size[opened[tid].file] >= opened[tid].size
      BY <3>1 DEF OpenedFiles, Opening
    <3>3. size[opened[tid].file] \in Nat \cup {Absent}
      BY <3>1 DEF Opening, TypeOK
    <3> QED BY <3>1, <3>2, <3>3 DEF Absent
  <2>3. PICK n \in Nat : /\ transfer' = [Idle EXCEPT !.fileSize = n]
                         /\ opened' = [opened EXCEPT ![tid].stat = n]
                         /\ faults' = faults \/ Fault
    BY <1>3, <2>2 DEF Stat
  <2>4. opened' \in Seq(Opening) /\ tid' = tid
    BY <2>1, <2>3, OpenedTold
  <2>5. transfer' \in Locals
    BY <2>3, LocalsType
  <2>6. faults' \in 0..MaxFaults
    BY <2>3, FaultType DEF TypeOK
  <2> QED BY <1>3, <2>4, <2>5, <2>6 DEF Stat, TypeOK, Opening, Locals
<1>4. CASE SendBlock
  <2>1. tid > 0
    BY <1>4 DEF SendBlock, OpenedFiles
  <2>2. ReadLen \in Int
    <3>1. tid \in 1..tid /\ opened[tid] \in Opening
      BY <2>1, OpenedType
    <3>2. opened[tid].size \in Int
      BY <3>1 DEF Opening
    <3>3. transfer.offset \in Int
      BY DEF TypeOK
    <3>4. BlockSize \in Int
      BY TftpAssumption
    <3> HIDE DEF bounds, network, server
    <3> QED BY <3>2, <3>3, <3>4 DEF ReadLen, AtMost
  <2>3. CASE ReadLen > 0
    <3>1. data' \subseteq Data /\ addr' \in Client \cup OtherPorts \cup {None}
      BY <1>4, <2>1, <2>2, <2>3, TransmitType DEF SendBlock
    <3>2. transfer' \in Locals
      BY <1>4, <2>2, <2>3, LocalsType DEF SendBlock
    <3> QED BY <1>4, <2>2, <2>3, <3>1, <3>2 DEF SendBlock, TypeOK, tid, Locals
  <2>4. CASE ReadLen <= 0
    <3>1. transfer' \in Locals
      BY <1>4, <2>2, <2>4, LocalsType DEF SendBlock
    <3> QED BY <1>4, <2>2, <2>4, <3>1, SMTT(30) DEF SendBlock, TypeOK, tid, Locals
  <2> QED BY <2>2, <2>3, <2>4
<1>5. CASE SendLast
  <2>1. tid > 0
    BY <1>5 DEF SendLast, OpenedFiles
  <2>2. CASE EndsEmpty
    <3>1. data' \subseteq Data /\ addr' \in Client \cup OtherPorts \cup {None}
      BY <1>5, <2>1, <2>2, TransmitType DEF SendLast
    <3> QED BY <1>5, <2>2, <3>1 DEF SendLast, TypeOK, tid
  <2>3. CASE ~EndsEmpty
    <3>1. transfer' \in Locals
      BY <1>5, <2>3, LocalsType DEF SendLast
    <3> QED BY <1>5, <2>3, <3>1 DEF SendLast, TypeOK, tid, Locals
  <2> QED BY <2>2, <2>3
<1>6. ASSUME NEW a \in acks, ReceiveAck(a) PROVE TypeOK'
  <2>1. transfer' \in Locals
    BY <1>6, LocalsType DEF ReceiveAck
  <2> QED BY <1>6, <2>1 DEF ReceiveAck, TypeOK, tid, Locals
<1>7. CASE Return
  <2>1. transfer' \in Locals
    BY <1>7, LocalsType DEF Return
  <2>2. faults' \in 0..MaxFaults /\ acks' \subseteq acks
    BY <1>7, FaultType DEF Return, TypeOK
  <2> QED BY <1>7, <2>1, <2>2 DEF Return, TypeOK, tid, Locals
<1>8. CASE ReadFails
  <2>1. tid > 0
    BY <1>8 DEF ReadFails, OpenedFiles
  <2>2. opened[tid] \in Opening
    BY <2>1, OpenedType
  <2>3. addr' \in Client \cup OtherPorts \cup {None}
    BY <1>8, <2>2 DEF ReadFails, Destination, Opening, TypeOK
  <2>4. transfer' \in Locals
    BY <1>8, LocalsType DEF ReadFails
  <2>5. faults' \in 0..MaxFaults
    BY <1>8, FaultType DEF ReadFails
  <2> QED BY <1>8, <2>3, <2>4, <2>5 DEF ReadFails, TypeOK, tid, Locals
<1> QED BY <1>1, <1>2, <1>3, <1>4, <1>5, <1>6, <1>7, <1>8 DEF ServerStep
Knowledge == [at : {"idle", "requested", "receiving", "complete"},
              request : Request \cup {<<>>}, tid : 0..MaxTransfers, got : Seq(Stretch)]

(* What a client has of its port is one more stretch, or what it had. *)
LEMMA ClientType ==
  ASSUME TypeOK, ClientsHaveBlocks, AskedFor, NEW c \in Client, ClientStep(c) \/ Ask(c) \/ Resend(c)
  PROVE  TypeOK'
<1> USE DEF server, bounds
<1>1. CASE Ask(c)
  <2>1. PICK r \in Request :
          /\ client' = [client EXCEPT ![c].at = "requested", ![c].request = r]
          /\ requests' = requests \cup {r}
    BY <1>1 DEF Ask
  <2>2. requests' \subseteq Request
    BY <2>1 DEF TypeOK
  <2>3. client' \in [Client -> Knowledge]
    BY <2>1, ZenonT(40) DEF TypeOK, Knowledge
  <2> QED BY <1>1, <2>2, <2>3 DEF Ask, TypeOK, tid, Knowledge
<1>2. ASSUME NEW d \in data, ReceiveData(c, d) PROVE TypeOK'
  <2>1. d.tid \in 1..MaxTransfers /\ d.block \in 0..(BlockMod - 1) /\ d.content \in Stretch
    BY DEF TypeOK, Data
  <2>2. Append(client[c].got, d.content) \in Seq(Stretch)
    BY <2>1 DEF TypeOK
  <2>3. client' \in [Client -> Knowledge]
    <3>1. d.tid \in 0..MaxTransfers
      BY <2>1, TftpAssumption
    <3>2. CASE client' = client
      BY <3>2 DEF TypeOK, Knowledge
    <3>3. CASE client' = [client EXCEPT ![c].at = IF Complete(d) THEN "complete" ELSE "receiving",
                                        ![c].tid = d.tid, ![c].got = Append(@, d.content)]
      <4> DEFINE k == [at |-> IF Complete(d) THEN "complete" ELSE "receiving",
                       request |-> client[c].request, tid |-> d.tid,
                       got |-> Append(client[c].got, d.content)]
      <4>1. k \in Knowledge /\ client \in [Client -> Knowledge]
        BY <3>1, <2>2 DEF TypeOK, Knowledge
      <4>2. client' = [client EXCEPT ![c] = k]
        BY <3>3, <4>1 DEF Knowledge
      <4> QED BY <4>1, <4>2
    <3> QED BY <1>2, <3>2, <3>3 DEF ReceiveData
  <2>4. acks' \subseteq Ack
    <3>1. \A n \in {d.block} : [tid |-> d.tid, opcode |-> "ACK", block |-> n] \in Ack
      BY <2>1 DEF Ack
    <3>2. [tid |-> d.tid, opcode |-> "ERROR", block |-> 0] \in Ack
      BY <2>1, TftpAssumption DEF Ack
    <3> QED BY <1>2, <3>1, <3>2 DEF ReceiveData, TypeOK
  <2>5. data' \subseteq data /\ faults' \in 0..MaxFaults
    BY <1>2, FaultType DEF ReceiveData, TypeOK
  <2> QED BY <1>2, <2>3, <2>4, <2>5 DEF ReceiveData, TypeOK, tid, Knowledge
<1>3. CASE Resend(c)
  <2>1. resends' \in 0..MaxResends
    BY <1>3, TftpAssumption DEF Resend, TypeOK
  <2>2. CASE client[c].at = "requested"
    <3>1. client[c].request \in Request
      BY <2>2 DEF AskedFor
    <3> QED BY <1>3, <2>1, <2>2, <3>1 DEF Resend, TypeOK, tid
  <2>3. CASE client[c].at = "receiving"
    <3>1. client[c].tid \in 1..MaxTransfers
      BY <2>3, OpenedType, TftpAssumption DEF ClientsHaveBlocks
    <3>2. Len(client[c].got) % BlockMod \in 0..(BlockMod - 1)
      <4>1. Len(client[c].got) \in Nat
        BY LenProperties DEF TypeOK
      <4> QED BY <4>1, NextNumberType
    <3>3. acks' \subseteq Ack
      BY <1>3, <2>3, <3>1, <3>2 DEF Resend, TypeOK, Ack
    <3> QED BY <1>3, <2>1, <2>3, <3>3 DEF Resend, TypeOK, tid
  <2> QED BY <1>3, <2>2, <2>3 DEF Resend
<1> QED BY <1>1, <1>2, <1>3 DEF ClientStep
(* So do other tenants, loggers and the network. *)
LEMMA WorldType ==
  ASSUME TypeOK,
         \/ \E port \in OtherPorts : OtherTransmit(port)
         \/ \E f \in File : Grow(f)
         \/ Lose \/ UNCHANGED vars
  PROVE  TypeOK'
<1> USE DEF network, server, bounds
<1>1. ASSUME NEW port \in OtherPorts, OtherTransmit(port) PROVE TypeOK'
  BY <1>1 DEF OtherTransmit, Destination, TypeOK, tid
<1>2. ASSUME NEW f \in File, Grow(f) PROVE TypeOK'
  <2>1. size' \in [File -> Nat \cup {Absent}]
    BY <1>2 DEF Grow, TypeOK
  <2>2. grown' \in 0..MaxGrowth
    BY <1>2, TftpAssumption DEF Grow, TypeOK
  <2> QED BY <1>2, <2>1, <2>2 DEF Grow, TypeOK, tid
<1>3. CASE Lose
  <2>1. requests' \subseteq requests /\ data' \subseteq data /\ acks' \subseteq acks
    BY <1>3 DEF Lose
  <2>2. faults' \in 0..MaxFaults
    BY <1>3, FaultType DEF Lose
  <2> QED BY <1>3, <2>1, <2>2 DEF Lose, TypeOK, tid
<1>4. CASE UNCHANGED vars
  BY <1>4 DEF vars, TypeOK, tid
<1> QED BY <1>1, <1>2, <1>3, <1>4

(* Every step keeps the types. *)
LEMMA TypeStep ==
  ASSUME Inv, [Next]_vars
  PROVE  TypeOK'
  BY ServerType, ClientType, WorldType DEF Inv, Next

-----------------------------------------------------------------------------
(* Files and requests.                                                     *)

(* What fs_stat tells is the size of a file that has not shrunk since it   *)
(* was opened, or 0.                                                       *)
LEMMA StatTells ==
  ASSUME TypeOK, OpenedFiles, Stat
  PROVE  /\ tid > 0 /\ tid \in Nat /\ tid' = tid /\ opened[tid].stat = Absent
         /\ \A t \in 1..(tid - 1) : opened'[t] = opened[t]
         /\ \E n \in Nat : /\ transfer' = [Idle EXCEPT !.fileSize = n]
                           /\ opened'[tid] = [opened[tid] EXCEPT !.stat = n]
                           /\ opened'[tid] \in Opening
                           /\ n # 0 => n >= opened[tid].size
<1>1. tid > 0 /\ tid \in Nat /\ opened[tid].stat = Absent /\ opened[tid] \in Opening
  BY OpenedType DEF Stat, OpenedFiles
<1>2. size[opened[tid].file] \in Nat /\ size[opened[tid].file] >= opened[tid].size
  <2>1. opened[tid].size \in Nat /\ size[opened[tid].file] >= opened[tid].size
    BY <1>1 DEF OpenedFiles, Opening
  <2> QED BY <1>1, <2>1 DEF Opening, TypeOK, Absent
<1>3. PICK n \in {size[opened[tid].file], 0} :
        /\ transfer' = [Idle EXCEPT !.fileSize = n]
        /\ opened' = [opened EXCEPT ![tid].stat = n]
  BY DEF Stat
<1>4. n \in Nat /\ (n # 0 => n >= opened[tid].size)
  BY <1>2, <1>3
<1>5. /\ tid' = tid /\ \A t \in 1..(tid - 1) : opened'[t] = opened[t]
      /\ opened'[tid] = [opened[tid] EXCEPT !.stat = n]
  BY <1>1, <1>3, <1>4, OpenedTold
<1>6. opened'[tid] \in Opening
  BY <1>1, <1>4, <1>5 DEF Opening
<1> QED BY <1>1, <1>3, <1>4, <1>5, <1>6

(* A transfer that knows its size stays what it is. *)
LEMMA OpenedStay ==
  ASSUME Inv, [Next]_vars
  PROVE  /\ tid \in Nat /\ tid' \in Nat /\ tid <= tid'
         /\ \A t \in 1..tid :
              /\ t \in 1..tid'
              /\ opened[t] \in Opening /\ opened'[t] \in Opening
              /\ opened[t].stat # Absent => opened'[t] = opened[t]
              /\ opened'[t].file = opened[t].file /\ opened'[t].size = opened[t].size
              /\ opened'[t].client = opened[t].client
<1> USE DEF network, server, bounds
<1>0. TypeOK /\ tid \in Nat /\ \A t \in 1..tid : opened[t] \in Opening
  BY OpenedType DEF Inv
<1>1. ASSUME opened' = opened
      PROVE  tid' = tid
  BY <1>1 DEF tid
<1>2. ASSUME NEW r \in requests, Accept(r)
      PROVE  /\ tid' = tid + 1
             /\ \A t \in 1..tid : opened'[t] = opened[t]
  <2> DEFINE o == [client |-> r.client, file |-> r.file, size |-> size[r.file], stat |-> Absent]
  <2>1. o \in Opening
    <3>1. r \in Request /\ r.file \in File /\ size[r.file] \in Nat
      BY <1>0, <1>2, TftpAssumption DEF TypeOK, Request, Accept, Opens
    <3> QED BY <3>1 DEF Request, Opening
  <2>2. opened' = Append(opened, o)
    BY <1>2 DEF Accept
  <2> QED BY <1>0, <2>1, <2>2, OpenedGrows
<1>3. CASE Stat
  <2>1. PICK n \in Nat : opened'[tid] = [opened[tid] EXCEPT !.stat = n] /\ opened'[tid] \in Opening
    BY <1>0, <1>3, StatTells DEF Inv
  <2>2. /\ tid > 0 /\ tid' = tid /\ opened[tid].stat = Absent
        /\ \A t \in 1..(tid - 1) : opened'[t] = opened[t]
    BY <1>0, <1>3, StatTells DEF Inv
  <2>4. /\ opened'[tid].file = opened[tid].file
        /\ opened'[tid].size = opened[tid].size /\ opened'[tid].client = opened[tid].client
    BY <1>0, <2>1, <2>2 DEF Opening
  <2>5. ASSUME NEW t \in 1..tid
        PROVE  /\ opened'[t] \in Opening
               /\ opened[t].stat # Absent => opened'[t] = opened[t]
               /\ opened'[t].file = opened[t].file /\ opened'[t].size = opened[t].size
               /\ opened'[t].client = opened[t].client
    <3>1. CASE t = tid
      BY <2>1, <2>2, <2>4, <3>1
    <3>2. CASE t \in 1..(tid - 1)
      BY <1>0, <2>2, <3>2
    <3> QED BY <1>0, <3>1, <3>2
  <2> QED BY <1>0, <2>2, <2>5
<1>4. CASE opened' = opened
  BY <1>0, <1>1, <1>4
<1>5. Stat \/ (\E r \in requests : Accept(r)) \/ opened' = opened
  BY DEF Next, ServerStep, ClientStep, vars, Refuse, SendBlock, SendLast, ReceiveAck, Return, ReadFails,
         OtherTransmit, Grow, Lose, Ask, ReceiveData, Resend
<1> QED BY <1>0, <1>2, <1>3, <1>4, <1>5
(* Files only grow. *)
LEMMA SizesGrow ==
  ASSUME Inv, [Next]_vars, NEW f \in File
  PROVE  size[f] \in Int /\ size'[f] \in Int /\ size'[f] >= size[f]
<1> USE DEF network, server, bounds
<1>0. size \in [File -> Nat \cup {Absent}] /\ size' \in [File -> Nat \cup {Absent}] /\ tree \in File
  BY TypeStep, TftpAssumption DEF Inv, TypeOK
<1>1. size[f] \in Int /\ size'[f] \in Int
  BY <1>0 DEF Absent
<1>2. ASSUME NEW r, Refuse(r) PROVE size'[f] >= size[f]
  BY <1>0, <1>1, <1>2 DEF Refuse
<1>3. ASSUME NEW g \in File, Grow(g) PROVE size'[f] >= size[f]
  BY <1>0, <1>1, <1>3 DEF Grow
<1>4. CASE size' = size
  BY <1>1, <1>4
<1>5. (\E r : Refuse(r)) \/ (\E g \in File : Grow(g)) \/ size' = size
  BY DEF Next, ServerStep, ClientStep, vars, Accept, Stat, SendBlock, SendLast, ReceiveAck, Return, ReadFails,
         OtherTransmit, Lose, Ask, ReceiveData, Resend
<1> QED BY <1>1, <1>2, <1>3, <1>4, <1>5

(* Sizes are known of all transfers but the one that is about to ask. *)
LEMMA OpenedFilesStep ==
  ASSUME Inv, [Next]_vars
  PROVE  OpenedFiles'
<1> USE DEF network, server, bounds
<1>a. /\ TypeOK /\ OpenedFiles /\ tid \in Nat
      /\ \A t \in 1..tid : opened[t] \in Opening
  BY OpenedType DEF Inv
<1>b. ASSUME NEW t \in 1..tid PROVE size'[opened'[t].file] >= opened'[t].size
  <2>1. /\ opened[t].file \in File /\ opened[t].size \in Nat
        /\ size[opened[t].file] >= opened[t].size
        /\ opened'[t].file = opened[t].file /\ opened'[t].size = opened[t].size
    BY <1>a, OpenedStay DEF OpenedFiles, Opening
  <2> QED BY <2>1, SizesGrow
<1>1. ASSUME NEW r \in requests, Accept(r) PROVE OpenedFiles'
  <2> DEFINE o == [client |-> r.client, file |-> r.file, size |-> size[r.file], stat |-> Absent]
  <2>1. o \in Opening /\ size'[o.file] >= o.size
    <3>1. r \in Request /\ r.file \in File /\ size[r.file] \in Nat /\ size' = size
      BY <1>a, <1>1, TftpAssumption DEF TypeOK, Request, Accept, Opens
    <3> QED BY <3>1 DEF Request, Opening
  <2>2. opened' = Append(opened, o) /\ at' = "stat" /\ at = "run"
    BY <1>1 DEF Accept
  <2> HIDE DEF o
  <2>3. /\ tid' = tid + 1 /\ opened'[tid'] = o
        /\ \A t \in 1..tid : opened'[t] = opened[t] /\ opened[t].stat # Absent
    BY <1>a, <2>1, <2>2, OpenedGrows DEF OpenedFiles
  <2>4. o.stat = Absent
    BY DEF o
  <2>5. ASSUME NEW t \in 1..tid'
        PROVE  size'[opened'[t].file] >= opened'[t].size /\ (opened'[t].stat = Absent <=> t = tid')
    <3>1. CASE t = tid'
      BY <2>1, <2>3, <2>4, <3>1
    <3>2. CASE t \in 1..tid
      BY <1>a, <1>b, <2>3, <3>2
    <3> QED BY <1>a, <2>3, <3>1, <3>2
  <2>6. tid' > 0
    BY <1>a, <2>3
  <2> HIDE DEF tid
  <2> QED BY <2>2, <2>5, <2>6 DEF OpenedFiles
<1>2. CASE Stat
  <2>1. PICK n \in Nat : opened'[tid] = [opened[tid] EXCEPT !.stat = n]
    BY <1>a, <1>2, StatTells
  <2>2. /\ tid > 0 /\ tid' = tid /\ at = "stat" /\ at' = "send"
        /\ \A t \in 1..(tid - 1) : opened'[t] = opened[t]
    BY <1>a, <1>2, StatTells DEF Stat
  <2>3. ASSUME NEW t \in 1..tid PROVE opened'[t].stat # Absent
    <3>1. CASE t = tid
      BY <1>a, <2>1, <3>1 DEF Opening, Absent
    <3>2. CASE t \in 1..(tid - 1)
      BY <1>a, <2>2, <3>2 DEF OpenedFiles
    <3> QED BY <1>a, <3>1, <3>2
  <2> HIDE DEF tid
  <2> QED BY <1>b, <2>2, <2>3 DEF OpenedFiles
<1>3. CASE /\ opened' = opened
           /\ at' = "stat" <=> at = "stat"
           /\ at' # "run" => at # "run"
  <2>1. tid' = tid
    BY <1>3 DEF tid
  <2> QED BY <1>a, <1>b, <1>3, <2>1 DEF OpenedFiles
<1>4. \/ Stat \/ \E r \in requests : Accept(r)
      \/ /\ opened' = opened
         /\ at' = "stat" <=> at = "stat"
         /\ at' # "run" => at # "run"
  BY ZenonT(40) DEF Next, ServerStep, ClientStep, vars, Refuse, SendBlock, SendLast, ReceiveAck, Return, ReadFails,
         OtherTransmit, Grow, Lose, Ask, ReceiveData, Resend
<1> QED BY <1>1, <1>2, <1>3, <1>4
(* A client asks once. *)
LEMMA AskedOnce ==
  ASSUME Inv, [Next]_vars, NEW c \in Client, client[c].at # "idle"
  PROVE  client'[c].at # "idle" /\ client'[c].request = client[c].request
<1> USE DEF network, server, bounds
<1>0. client \in [Client -> Knowledge]
  BY DEF Inv, TypeOK, Knowledge
<1>1. ASSUME NEW b \in Client, Ask(b)
      PROVE  client'[c].at # "idle" /\ client'[c].request = client[c].request
  BY <1>0, <1>1 DEF Ask
<1>2. ASSUME NEW b \in Client, NEW d \in data, ReceiveData(b, d)
      PROVE  client'[c].at # "idle" /\ client'[c].request = client[c].request
  BY <1>0, <1>2 DEF ReceiveData, Knowledge
<1>3. CASE client' = client
  BY <1>3
<1>4. \/ \E b \in Client : Ask(b) \/ \E d \in data : ReceiveData(b, d)
      \/ client' = client
  BY DEF Next, ServerStep, ClientStep, vars, Accept, Refuse, Stat, SendBlock, SendLast, ReceiveAck, Return,
         ReadFails, OtherTransmit, Grow, Lose, Resend
<1> QED BY <1>1, <1>2, <1>3, <1>4

(* Requests and transfers stay those that their clients asked for. *)
LEMMA AskedForStep ==
  ASSUME Inv, [Next]_vars
  PROVE  AskedFor'
<1> USE DEF network, server, bounds
<1>0. /\ client \in [Client -> Knowledge] /\ requests \subseteq Request /\ AskedFor
      /\ \A r \in Request : r.client \in Client
      /\ tid \in Nat
  BY OpenedType DEF Inv, TypeOK, Knowledge, Request
<1>1. ASSUME NEW c \in Client, client'[c].at # "idle"
      PROVE  client'[c].request \in Request /\ client'[c].request.client = c
  <2>1. CASE client[c].at # "idle"
    BY <1>0, <2>1, AskedOnce DEF AskedFor
  <2>2. CASE client[c].at = "idle"
    <3>1. ASSUME NEW b \in Client, Ask(b)
          PROVE  client'[c].request \in Request /\ client'[c].request.client = c
      BY <1>0, <1>1, <2>2, <3>1 DEF Ask, Knowledge
    <3>2. ASSUME NEW b \in Client, NEW d \in data, ReceiveData(b, d)
          PROVE  FALSE
      BY <1>0, <1>1, <2>2, <3>2 DEF ReceiveData, Knowledge
    <3>3. client' # client
      BY <1>1, <2>2
    <3> QED
      BY <3>1, <3>2, <3>3
      DEF Next, ServerStep, ClientStep, vars, Accept, Refuse, Stat, SendBlock, SendLast, ReceiveAck, Return,
          ReadFails, OtherTransmit, Grow, Lose, Resend
  <2> QED BY <2>1, <2>2
<1>2. ASSUME NEW r \in requests'
      PROVE  client'[r.client].at # "idle" /\ client'[r.client].request = r
  <2>1. CASE r \in requests
    BY <1>0, <2>1, AskedOnce DEF AskedFor
  <2>2. CASE r \notin requests
    <3>1. ASSUME NEW c \in Client, Ask(c)
          PROVE  client'[r.client].at # "idle" /\ client'[r.client].request = r
      BY <1>0, <1>2, <2>2, <3>1 DEF Ask, Knowledge
    <3>2. ASSUME NEW c \in Client, Resend(c)
          PROVE  client'[r.client].at # "idle" /\ client'[r.client].request = r
      <4>1. client[c].at = "requested" /\ r = client[c].request /\ client' = client
        BY <1>2, <2>2, <3>2 DEF Resend
      <4> QED BY <1>0, <4>1 DEF AskedFor
    <3>3. (\E c \in Client : Ask(c) \/ Resend(c)) \/ requests' \subseteq requests
      BY DEF Next, ServerStep, ClientStep, vars, Accept, Refuse, Stat, SendBlock, SendLast, ReceiveAck, Return,
             ReadFails, OtherTransmit, Grow, Lose, ReceiveData
    <3> QED BY <1>2, <2>2, <3>1, <3>2, <3>3
  <2> QED BY <2>1, <2>2
<1>3. ASSUME NEW t \in 1..tid'
      PROVE  /\ client'[opened'[t].client].at # "idle"
             /\ client'[opened'[t].client].request.file = opened'[t].file
  <2>1. CASE t \in 1..tid
    <3>1. /\ opened[t].client \in Client /\ opened'[t].client = opened[t].client
          /\ opened'[t].file = opened[t].file
      BY <2>1, OpenedStay DEF Opening
    <3> QED BY <1>0, <2>1, <3>1, AskedOnce DEF AskedFor
  <2>2. CASE t \notin 1..tid
    <3>1. tid' # tid
      BY <1>3, <2>2
    <3>2. PICK r \in requests : Accept(r)
      <4>1. CASE Stat
        BY <3>1, <4>1, StatTells DEF Inv
      <4>2. CASE opened' = opened
        BY <3>1, <4>2 DEF tid
      <4> QED BY <4>1, <4>2
        DEF Next, ServerStep, ClientStep, vars, Refuse, SendBlock, SendLast, ReceiveAck, Return,
            ReadFails, OtherTransmit, Grow, Lose, ReceiveData, Ask, Resend
    <3> DEFINE o == [client |-> r.client, file |-> r.file, size |-> size[r.file], stat |-> Absent]
    <3>3. o \in Opening
      <4>1. r \in Request /\ r.file \in File /\ size[r.file] \in Nat
        BY <1>0, <3>2, TftpAssumption DEF Inv, TypeOK, Request, Accept, Opens
      <4> QED BY <4>1 DEF Request, Opening
    <3>4. tid' = tid + 1 /\ opened'[tid'] = o
      <4>1. opened' = Append(opened, o)
        BY <3>2 DEF Accept
      <4> HIDE DEF o
      <4> QED BY <3>3, <4>1, OpenedGrows DEF Inv
    <3>5. t = tid'
      BY <1>0, <1>3, <2>2, <3>4
    <3> QED BY <1>2, <1>0, <3>2, <3>4, <3>5, AskedOnce DEF AskedFor
  <2> QED BY <2>1, <2>2
<1> QED BY <1>1, <1>2, <1>3 DEF AskedFor
-----------------------------------------------------------------------------
(* What is sent.                                                           *)

(* The types of what the tenant knows of the transfer it serves. *)
LEMMA ServedType ==
  ASSUME TypeOK, OpenedFiles, at # "run"
  PROVE  /\ tid \in 1..tid /\ tid \in Nat /\ opened[tid] \in Opening
         /\ opened[tid].size \in Nat /\ opened[tid].stat \in Nat \cup {Absent}
         /\ transfer.block \in 0..(BlockMod - 1) /\ transfer.offset \in Int
         /\ transfer.readLen \in Int /\ transfer.fileSize \in Nat
         /\ BlockMod \in Nat \ {0, 1} /\ BlockSize \in Nat \ {0}
         /\ current \in 1..BlockMod
         /\ \A k \in Int : StartOf(k) \in Int
<1>1. tid \in Nat /\ tid \in 1..tid /\ opened[tid] \in Opening
  BY OpenedType DEF OpenedFiles
<1>2. transfer \in Locals
  BY LocalsType
<1>3. BlockMod \in Nat \ {0, 1} /\ BlockSize \in Nat \ {0}
  BY TftpAssumption
<1>4. current \in 1..BlockMod
  BY <1>2, <1>3 DEF current, Locals
<1>5. \A k \in Int : StartOf(k) \in Int
  BY Starts
<1> QED BY <1>1, <1>2, <1>3, <1>4, <1>5 DEF Locals, Opening

(* What is read when there is something to read is the current block. *)
LEMMA ReadIsBlock ==
  ASSUME Inv, at = "send", Numbered(opened[tid]),
         transfer.offset < transfer.fileSize, ReadLen > 0
  PROVE  /\ AtBlock /\ transfer.block = current /\ IsBlock(opened[tid], current)
         /\ opened[tid].stat # 0
         /\ Content(ReadLen) = BlockOf(opened[tid], current)
         /\ ReadLen = BlockLen(opened[tid], current) /\ ReadLen \in Nat
<1>1. SizeTold /\ OfNumbered
  BY DEF Inv, Progress
<1>2. transfer.offset < opened[tid].size
  BY ServedType DEF Inv, ReadLen, AtMost
<1>3. AtBlock
  BY <1>1, <1>2, ServedType DEF Inv, OfNumbered, AtEnd
<1>4. transfer.block = current /\ current \in 1..(BlockMod - 1)
  BY <1>3, ServedType DEF Inv, AtBlock, current
<1>5. opened[tid].stat # 0
  <2>1. SUFFICES ASSUME opened[tid].stat = 0 PROVE FALSE
    OBVIOUS
  <2>2. transfer.offset = 0
    BY <1>1, <1>3, <2>1, Starts DEF OfNumbered, AtBlock
  <2> QED BY <1>1, <2>1, <2>2 DEF SizeTold
<1>6. IsBlock(opened[tid], current)
  BY <1>3, <1>4, <1>5 DEF IsBlock, AtBlock
<1>7. ReadLen = BlockLen(opened[tid], current) /\ ReadLen \in Nat
  BY <1>2, <1>3, <1>5, ServedType DEF Inv, ReadLen, AtMost, BlockLen, AtBlock
<1>8. Content(ReadLen) = BlockOf(opened[tid], current)
  BY <1>3, <1>7 DEF Content, BlockOf, AtBlock
<1> QED BY <1>3, <1>4, <1>5, <1>6, <1>7, <1>8

(* The empty block at the end is the current block. *)
LEMMA EmptyIsBlock ==
  ASSUME Inv, at = "send", Numbered(opened[tid]),
         transfer.offset >= transfer.fileSize, EndsEmpty
  PROVE  /\ AtBlock /\ transfer.block = current /\ IsBlock(opened[tid], current)
         /\ Content(0) = BlockOf(opened[tid], current)
<1>1. SizeTold /\ OfNumbered
  BY DEF Inv, Progress
<1>2. opened[tid].stat # 0 => transfer.fileSize >= opened[tid].size
  BY <1>1 DEF SizeTold
<1>3. AtBlock
  <2>1. SUFFICES ASSUME AtEnd PROVE FALSE
    BY <1>1 DEF OfNumbered
  <2>2. opened[tid].stat # 0
    BY <1>1, <2>1, ServedType DEF Inv, OfNumbered, AtEnd
  <2>3. transfer.fileSize = opened[tid].size /\ transfer.offset = opened[tid].size
    BY <1>2, <2>1, <2>2, ServedType DEF Inv, AtEnd
  <2>4. opened[tid].size % BlockSize = 0
    BY <2>3 DEF EndsEmpty
  <2>5. current - 1 \in Int /\ (current - 1) + 1 = current
    BY ServedType DEF Inv
  <2>6. StartOf(current - 1) < opened[tid].size /\ opened[tid].size < StartOf((current - 1) + 1)
    BY <2>1, <2>3, <2>5 DEF AtEnd
  <2>7. opened[tid].size \in Nat
    BY ServedType DEF Inv
  <2> HIDE DEF current
  <2> QED BY <2>4, <2>5, <2>6, <2>7, NoMultipleInside
<1>4. transfer.block = current /\ current \in 1..(BlockMod - 1)
  BY <1>3, ServedType DEF Inv, AtBlock, current
<1>5. IsBlock(opened[tid], current)
  BY <1>1, <1>3, <1>4 DEF IsBlock, AtBlock, OfNumbered
<1>6. BlockLen(opened[tid], current) = 0
  <2>1. CASE opened[tid].stat = 0
    BY <2>1 DEF BlockLen
  <2>2. CASE opened[tid].stat # 0
    <3>1. opened[tid].size - StartOf(current) = 0
      BY <1>2, <1>3, <2>2, ServedType DEF Inv, AtBlock
    <3> QED BY <2>2, <3>1, ServedType DEF Inv, BlockLen
  <2> QED BY <2>1, <2>2
<1>7. Content(0) = BlockOf(opened[tid], current)
  BY <1>3, <1>6 DEF Content, BlockOf, AtBlock
<1> QED BY <1>3, <1>4, <1>5, <1>7

(* A packet of DATA is one that was on the air, or carries the current     *)
(* block of the transfer that is served, which has been transmitted.       *)
LEMMA NewData ==
  ASSUME Inv, [Next]_vars, NEW d \in data', d \notin data
  PROVE  /\ at = "send" /\ opened' = opened
         /\ d.tid = tid
         /\ Numbered(opened[tid]) =>
              /\ AtBlock /\ d.block = current /\ IsBlock(opened[tid], current)
              /\ d.content = BlockOf(opened[tid], current)
              /\ UNCHANGED client
              /\ transfer'.block = transfer.block
              /\ (at' = "wait" /\ transfer'.readLen > 0) \/ at' = "wait_last"
<1> USE DEF network, server, bounds
<1>1. SendBlock \/ SendLast
  BY DEF Next, ServerStep, ClientStep, vars, Accept, Refuse, Stat, ReceiveAck, Return, ReadFails,
         OtherTransmit, Grow, Lose, Ask, ReceiveData, Resend
<1>2. CASE SendBlock
  <2>1. /\ ReadLen > 0 /\ Transmit(Content(ReadLen)) /\ at' = "wait"
        /\ transfer' = [transfer EXCEPT !.readLen = ReadLen]
        /\ at = "send" /\ transfer.offset < transfer.fileSize /\ opened' = opened
        /\ client' = client
    BY <1>2 DEF SendBlock
  <2>2. d.tid = tid /\ d.block = transfer.block /\ d.content = Content(ReadLen)
    BY <2>1 DEF Transmit
  <2>3. transfer'.block = transfer.block /\ transfer'.readLen = ReadLen
    BY <2>1, LocalsType DEF Inv, Locals
  <2> QED BY <2>1, <2>2, <2>3, ReadIsBlock
<1>3. CASE SendLast
  <2>1. /\ EndsEmpty /\ Transmit(Content(0)) /\ at' = "wait_last" /\ transfer' = transfer
        /\ at = "send" /\ transfer.offset >= transfer.fileSize /\ opened' = opened
        /\ client' = client
    BY <1>3 DEF SendLast
  <2>2. d.tid = tid /\ d.block = transfer.block /\ d.content = Content(0)
    BY <2>1 DEF Transmit
  <2> QED BY <2>1, <2>2, EmptyIsBlock
<1> QED BY <1>1, <1>2, <1>3

(* Packets of DATA go on carrying the blocks of their numbers. *)
LEMMA DataStep ==
  ASSUME Inv, [Next]_vars
  PROVE  DataAreBlocks'
<1>1. ASSUME NEW d \in data'
      PROVE  d.tid \in 1..tid' /\ Carries(d, opened'[d.tid])
  <2>1. CASE d \in data
    <3>1. d.tid \in 1..tid /\ Carries(d, opened[d.tid])
      BY <2>1 DEF Inv, DataAreBlocks
    <3>2. opened[d.tid].stat # Absent
      BY <3>1 DEF Carries
    <3> QED BY <3>1, <3>2, OpenedStay
  <2>2. CASE d \notin data
    <3>1. /\ at = "send" /\ opened' = opened /\ d.tid = tid
          /\ Numbered(opened[tid]) => /\ IsBlock(opened[tid], d.block)
                                     /\ d.content = BlockOf(opened[tid], d.block)
      BY <2>2, NewData
    <3>2. tid \in 1..tid /\ tid' = tid /\ opened[tid].stat # Absent
      BY <3>1, ServedType DEF Inv, OpenedFiles, tid
    <3> QED BY <3>1, <3>2 DEF Carries
  <2> QED BY <2>1, <2>2
<1> QED BY <1>1 DEF DataAreBlocks
-----------------------------------------------------------------------------
(* What is received.                                                       *)

(* No block is longer than a block. *)
LEMMA BlockLenBound ==
  ASSUME NEW o \in Opening, NEW k \in Int
  PROVE  BlockLen(o, k) \in Int /\ BlockLen(o, k) <= BlockSize
<1>1. o.size \in Nat /\ StartOf(k) \in Int /\ BlockSize \in Nat \ {0}
  BY Starts, TftpAssumption DEF Opening
<1> QED BY <1>1 DEF BlockLen

(* The first block, or the next one of the transfer, makes one more. *)
LEMMA OneMoreBlock ==
  ASSUME Inv, NEW k \in Knowledge, NEW d \in data, NEW kk \in Knowledge,
         kk.at = IF Complete(d) THEN "complete" ELSE "receiving",
         kk.got = Append(k.got, d.content),
         \/ k.got = <<>> /\ d.block = 1
         \/ /\ k.at = "receiving" /\ d.tid = k.tid /\ FirstBlocks(k, opened[d.tid])
            /\ d.block = (Len(k.got) + 1) % BlockMod
  PROVE  /\ FirstBlocks(kk, opened[d.tid])
         /\ Numbered(opened[d.tid]) => Len(kk.got) = d.block
<1> DEFINE o == opened[d.tid]
<1>1. d.tid \in 1..tid /\ o \in Opening /\ Carries(d, o) /\ d.block \in 0..(BlockMod - 1)
  BY OpenedType DEF Inv, DataAreBlocks, TypeOK, Data
<1>2. /\ d.content \in Stretch /\ k.got \in Seq(Stretch) /\ Len(k.got) \in Nat
      /\ BlockMod \in Nat \ {0, 1} /\ BlockSize \in Nat \ {0}
  BY LenProperties, TftpAssumption DEF Inv, TypeOK, Data, Knowledge
<1>3. /\ Len(kk.got) = Len(k.got) + 1 /\ kk.got # <<>>
      /\ \A i \in 1..Len(k.got) : kk.got[i] = k.got[i]
      /\ kk.got[Len(kk.got)] = d.content
  BY <1>2
<1>4. kk.at = "complete" <=> d.content.len < BlockSize
  BY DEF Complete
<1>5. ASSUME Numbered(o)
      PROVE  /\ Len(kk.got) = d.block
             /\ \A i \in 1..Len(kk.got) : IsBlock(o, i) /\ kk.got[i] = BlockOf(o, i)
             /\ \A i \in 1..(Len(kk.got) - 1) : kk.got[i].len = BlockSize
  <2>1. IsBlock(o, d.block) /\ d.content = BlockOf(o, d.block) /\ d.block \in 1..(BlockMod - 1)
    BY <1>1, <1>5 DEF Carries, IsBlock
  <2>2. CASE k.got = <<>> /\ d.block = 1
    BY <1>2, <1>3, <2>1, <2>2
  <2>3. CASE /\ k.at = "receiving" /\ FirstBlocks(k, o) /\ d.block = (Len(k.got) + 1) % BlockMod
    <3>1. /\ k.got # <<>>
          /\ \A i \in 1..Len(k.got) : IsBlock(o, i) /\ k.got[i] = BlockOf(o, i)
          /\ \A i \in 1..(Len(k.got) - 1) : k.got[i].len = BlockSize
          /\ ~(k.got[Len(k.got)].len < BlockSize)
      BY <1>5, <2>3 DEF FirstBlocks
    <3>2. Len(k.got) \in 1..Len(k.got)
      BY <1>2, <3>1
    <3>3. k.got[Len(k.got)].len = BlockSize
      <4>1. k.got[Len(k.got)].len = BlockLen(o, Len(k.got))
        <5>1. k.got[Len(k.got)] = BlockOf(o, Len(k.got))
          BY <3>1, <3>2
        <5> HIDE DEF o
        <5> QED BY <5>1 DEF BlockOf
      <4>2. Len(k.got) \in Int /\ o \in Opening /\ BlockSize \in Nat
        BY <1>1, <1>2
      <4>3. BlockLen(o, Len(k.got)) \in Int /\ BlockLen(o, Len(k.got)) <= BlockSize
        BY <4>2, BlockLenBound
      <4>4. ~(BlockLen(o, Len(k.got)) < BlockSize)
        BY <3>1, <4>1
      <4> HIDE DEF o
      <4> QED BY <4>1, <4>2, <4>3, <4>4
    <3>4. Len(k.got) \in 1..(BlockMod - 1)
      BY <3>1, <3>2 DEF IsBlock
    <3>5. d.block = Len(k.got) + 1
      <4> DEFINE n == Len(k.got) + 1
      <4>1. n \in Nat
        BY <1>2
      <4>2. n <= BlockMod
        BY <1>2, <3>4
      <4>3. d.block = n % BlockMod
        BY <2>3
      <4>4. d.block > 0 /\ BlockMod \in Nat
        BY <1>2, <2>1
      <4> HIDE DEF n
      <4>5. ASSUME n < BlockMod PROVE d.block = n
        BY <4>1, <4>3, <4>5, NumberIsItself
      <4>6. n # BlockMod
        BY <4>3, <4>4, NumberIsItself
      <4>7. d.block = n
        BY <4>1, <4>2, <4>4, <4>5, <4>6
      <4> QED BY <4>7 DEF n
    <3>6. Len(kk.got) = d.block
      BY <1>3, <3>5
    <3>7. ASSUME NEW i \in 1..Len(kk.got) PROVE IsBlock(o, i) /\ kk.got[i] = BlockOf(o, i)
      <4>1. CASE i = Len(kk.got)
        BY <1>3, <2>1, <3>6, <4>1
      <4>2. CASE i \in 1..Len(k.got)
        BY <1>3, <3>1, <4>2
      <4> QED BY <1>2, <1>3, <4>1, <4>2
    <3>8. ASSUME NEW i \in 1..(Len(kk.got) - 1) PROVE kk.got[i].len = BlockSize
      <4>1. i \in 1..Len(k.got) /\ kk.got[i] = k.got[i]
        BY <1>2, <1>3
      <4>2. i = Len(k.got) \/ i \in 1..(Len(k.got) - 1)
        BY <1>2, <4>1
      <4> QED BY <3>1, <3>3, <4>1, <4>2
    <3> QED BY <3>6, <3>7, <3>8
  <2> QED BY <2>2, <2>3
<1>6. o.stat # Absent
  BY <1>1 DEF Carries
<1> QED BY <1>3, <1>4, <1>5, <1>6 DEF FirstBlocks

(* What a client knows changes when it asks, and when it receives a block  *)
(* it waits for.                                                           *)
LEMMA NewKnowledge ==
  ASSUME Inv, [Next]_vars, NEW c \in Client
  PROVE  \/ client'[c] = client[c]
         \/ client[c].at = "idle" /\ client'[c].at = "requested"
              /\ client'[c].tid = client[c].tid /\ client'[c].got = client[c].got
         \/ \E d \in data :
              /\ client'[c].at = IF Complete(d) THEN "complete" ELSE "receiving"
              /\ client'[c].tid = d.tid
              /\ client'[c].got = Append(client[c].got, d.content)
              /\ opened' = opened /\ at' = at /\ transfer' = transfer
              /\ data' \subseteq data
              /\ \/ client[c].at = "requested" /\ d.block = 1
                 \/ client[c].at = "receiving" /\ d.tid = client[c].tid /\ d.block = NextBlock(c)
<1> USE DEF network, server, bounds
<1>0. client \in [Client -> Knowledge]
  BY DEF Inv, TypeOK, Knowledge
<1>1. ASSUME NEW b \in Client, Ask(b)
      PROVE  \/ client'[c] = client[c]
             \/ client[c].at = "idle" /\ client'[c].at = "requested"
                  /\ client'[c].tid = client[c].tid /\ client'[c].got = client[c].got
  BY <1>0, <1>1 DEF Ask, Knowledge
<1>2. ASSUME NEW b \in Client, NEW d \in data, ReceiveData(b, d), client'[c] # client[c]
      PROVE  /\ client'[c].at = IF Complete(d) THEN "complete" ELSE "receiving"
             /\ client'[c].tid = d.tid
             /\ client'[c].got = Append(client[c].got, d.content)
             /\ opened' = opened /\ at' = at /\ transfer' = transfer
             /\ data' \subseteq data
             /\ \/ client[c].at = "requested" /\ d.block = 1
                \/ client[c].at = "receiving" /\ d.tid = client[c].tid /\ d.block = NextBlock(c)
  <2>1. /\ client' = [client EXCEPT ![b].at = IF Complete(d) THEN "complete" ELSE "receiving",
                                    ![b].tid = d.tid, ![b].got = Append(@, d.content)]
        /\ \/ client[b].at = "requested" /\ d.block = 1
           \/ client[b].at = "receiving" /\ d.tid = client[b].tid /\ d.block = NextBlock(b)
    BY <1>2 DEF ReceiveData
  <2>2. b = c
    BY <1>0, <1>2, <2>1
  <2>3. /\ client'[c].at = IF Complete(d) THEN "complete" ELSE "receiving"
        /\ client'[c].tid = d.tid
        /\ client'[c].got = Append(client[c].got, d.content)
    BY <1>0, <2>1, <2>2 DEF Knowledge
  <2>4. /\ opened' = opened /\ at' = at /\ transfer' = transfer /\ data' \subseteq data
    BY <1>2 DEF ReceiveData
  <2> QED BY <2>1, <2>2, <2>3, <2>4
<1>3. \/ \E b \in Client : Ask(b) \/ \E d \in data : ReceiveData(b, d)
      \/ client' = client
  BY DEF Next, ServerStep, ClientStep, vars, Accept, Refuse, Stat, SendBlock, SendLast, ReceiveAck, Return,
         ReadFails, OtherTransmit, Grow, Lose, Resend
<1>4. CASE client'[c] = client[c]
  BY <1>4
<1>5. CASE client'[c] # client[c]
  <2>1. CASE \E b \in Client : Ask(b)
    BY <1>1, <1>5, <2>1
  <2>2. CASE \E b \in Client, d \in data : ReceiveData(b, d)
    BY <1>2, <1>5, <2>2
  <2> QED BY <1>3, <1>5, <2>1, <2>2
<1> QED BY <1>4, <1>5

(* Clients go on having the first blocks of a transfer. *)
LEMMA ClientsStep ==
  ASSUME Inv, [Next]_vars
  PROVE  ClientsHaveBlocks'
<1>0. client \in [Client -> Knowledge] /\ client' \in [Client -> Knowledge] /\ ClientsHaveBlocks
  BY TypeStep DEF Inv, TypeOK, Knowledge
<1>1. ASSUME NEW c \in Client
      PROVE  IF client'[c].at \in {"idle", "requested"}
             THEN client'[c].tid = 0 /\ client'[c].got = <<>>
             ELSE client'[c].tid \in 1..tid' /\ FirstBlocks(client'[c], opened'[client'[c].tid])
  <2>1. CASE client'[c] = client[c]
    <3>1. CASE client[c].at \in {"idle", "requested"}
      BY <1>0, <2>1, <3>1 DEF ClientsHaveBlocks
    <3>2. CASE client[c].at \notin {"idle", "requested"}
      <4>1. client[c].tid \in 1..tid /\ FirstBlocks(client[c], opened[client[c].tid])
        BY <1>0, <3>2 DEF ClientsHaveBlocks
      <4>2. opened[client[c].tid].stat # Absent
        BY <4>1 DEF FirstBlocks
      <4> QED BY <2>1, <3>2, <4>1, <4>2, OpenedStay
    <3> QED BY <3>1, <3>2
  <2>2. CASE client[c].at = "idle" /\ client'[c].at = "requested"
              /\ client'[c].tid = client[c].tid /\ client'[c].got = client[c].got
    BY <1>0, <2>2 DEF ClientsHaveBlocks
  <2>3. ASSUME NEW d \in data,
               /\ client'[c].at = IF Complete(d) THEN "complete" ELSE "receiving"
               /\ client'[c].tid = d.tid
               /\ client'[c].got = Append(client[c].got, d.content)
               /\ opened' = opened
               /\ \/ client[c].at = "requested" /\ d.block = 1
                  \/ client[c].at = "receiving" /\ d.tid = client[c].tid /\ d.block = NextBlock(c)
        PROVE  client'[c].tid \in 1..tid' /\ FirstBlocks(client'[c], opened'[client'[c].tid])
    <3>1. d.tid \in 1..tid /\ tid' = tid
      BY <2>3 DEF Inv, DataAreBlocks, tid
    <3>2. client[c] \in Knowledge /\ client'[c] \in Knowledge
      BY <1>0
    <3>3. \/ client[c].got = <<>> /\ d.block = 1
          \/ /\ client[c].at = "receiving" /\ d.tid = client[c].tid
             /\ FirstBlocks(client[c], opened[d.tid])
             /\ d.block = (Len(client[c].got) + 1) % BlockMod
      BY <1>0, <2>3 DEF ClientsHaveBlocks, NextBlock
    <3>4. FirstBlocks(client'[c], opened[d.tid])
      BY <2>3, <3>2, <3>3, OneMoreBlock
    <3> QED BY <2>3, <3>1, <3>4
  <2>4. ASSUME NEW d \in data, client'[c].at = IF Complete(d) THEN "complete" ELSE "receiving"
        PROVE  client'[c].at \notin {"idle", "requested"}
    BY <2>4
  <2> QED BY <2>1, <2>2, <2>3, <2>4, NewKnowledge
<1> QED BY <1>1 DEF ClientsHaveBlocks
(* What a client has received it keeps. *)
LEMMA HasStays ==
  ASSUME Inv, [Next]_vars, NEW c \in Client, NEW t \in Nat \ {0}, NEW n \in Int, Has(c, t, n)
  PROVE  Has(c, t, n)'
<1>0. /\ client[c].got \in Seq(Stretch) /\ Len(client[c].got) \in Nat
      /\ client[c].at = "requested" => client[c].tid = 0
  BY LenProperties DEF Inv, TypeOK, ClientsHaveBlocks
<1>1. CASE client'[c].tid = client[c].tid /\ client'[c].got = client[c].got
  BY <1>1 DEF Has
<1>2. ASSUME NEW d \in data, client[c].at # "requested" => d.tid = client[c].tid,
             client'[c].tid = d.tid, client'[c].got = Append(client[c].got, d.content)
      PROVE  Has(c, t, n)'
  <2>1. client'[c].tid = client[c].tid
    BY <1>0, <1>2 DEF Has
  <2>2. Len(client'[c].got) = Len(client[c].got) + 1
    BY <1>0, <1>2
  <2> QED BY <1>0, <2>1, <2>2 DEF Has
<1>3. \/ client'[c].tid = client[c].tid /\ client'[c].got = client[c].got
      \/ \E d \in data : /\ client[c].at # "requested" => d.tid = client[c].tid
                         /\ client'[c].tid = d.tid /\ client'[c].got = Append(client[c].got, d.content)
  BY NewKnowledge
<1> QED BY <1>1, <1>2, <1>3

(* A new ACK is of a block that its client has just received, or of the    *)
(* last one that it has.                                                   *)
LEMMA NewAck ==
  ASSUME Inv, [Next]_vars, NEW a \in acks', a \notin acks
  PROVE  /\ a.tid \in 1..tid /\ opened' = opened
         /\ a.opcode = "ACK" /\ Numbered(opened[a.tid]) =>
              a.block > 0 /\ \E c \in Client : Has(c, a.tid, a.block)'
<1> USE DEF network, server, bounds
<1>0. client \in [Client -> Knowledge] /\ client' \in [Client -> Knowledge]
  BY TypeStep DEF Inv, TypeOK, Knowledge
<1>1. ASSUME NEW c \in Client, NEW d \in data, ReceiveData(c, d)
      PROVE  /\ a.tid \in 1..tid /\ opened' = opened
             /\ a.opcode = "ACK" /\ Numbered(opened[a.tid]) =>
                  a.block > 0 /\ \E b \in Client : Has(b, a.tid, a.block)'
  <2>1. d.tid \in 1..tid /\ Carries(d, opened[d.tid])
    BY DEF Inv, DataAreBlocks
  <2>2. CASE a.opcode = "ACK"
    <3>1. /\ a.tid = d.tid /\ a.block = d.block /\ opened' = opened
          /\ client' = [client EXCEPT ![c].at = IF Complete(d) THEN "complete" ELSE "receiving",
                                      ![c].tid = d.tid, ![c].got = Append(@, d.content)]
          /\ \/ client[c].at = "requested" /\ d.block = 1
             \/ client[c].at = "receiving" /\ d.tid = client[c].tid /\ d.block = NextBlock(c)
      BY <1>1, <2>2 DEF ReceiveData
    <3>2. /\ client'[c].at = IF Complete(d) THEN "complete" ELSE "receiving"
          /\ client'[c].tid = d.tid
          /\ client'[c].got = Append(client[c].got, d.content)
      BY <1>0, <3>1 DEF Knowledge
    <3>3. \/ client[c].got = <<>> /\ d.block = 1
          \/ /\ client[c].at = "receiving" /\ d.tid = client[c].tid
             /\ FirstBlocks(client[c], opened[d.tid])
             /\ d.block = (Len(client[c].got) + 1) % BlockMod
      BY <1>0, <3>1 DEF Inv, ClientsHaveBlocks, NextBlock
    <3>4. Numbered(opened[d.tid]) => Len(client'[c].got) = d.block
      BY <1>0, <3>2, <3>3, OneMoreBlock
    <3>5. Numbered(opened[d.tid]) => d.block > 0 /\ d.block \in Int
      BY <2>1 DEF Carries, IsBlock
    <3>6. Numbered(opened[d.tid]) => Has(c, d.tid, d.block)'
      BY <3>2, <3>4, <3>5 DEF Has
    <3> QED BY <2>1, <3>1, <3>5, <3>6
  <2>3. CASE a.opcode # "ACK"
    BY <1>1, <2>1, <2>3 DEF ReceiveData
  <2> QED BY <2>2, <2>3
<1>2. ASSUME NEW c \in Client, Resend(c)
      PROVE  /\ a.tid \in 1..tid /\ opened' = opened
             /\ a.opcode = "ACK" /\ Numbered(opened[a.tid]) =>
                  a.block > 0 /\ \E b \in Client : Has(b, a.tid, a.block)'
  <2>1. /\ client[c].at = "receiving" /\ client' = client /\ opened' = opened
        /\ a.tid = client[c].tid /\ a.block = Len(client[c].got) % BlockMod
    BY <1>2 DEF Resend
  <2>2. client[c].tid \in 1..tid /\ FirstBlocks(client[c], opened[client[c].tid])
    BY <2>1 DEF Inv, ClientsHaveBlocks
  <2>3. Len(client[c].got) \in Nat /\ client[c].got # <<>> /\ client[c].got \in Seq(Stretch)
    BY <1>0, <2>2, LenProperties DEF FirstBlocks, Knowledge
  <2>4. ASSUME Numbered(opened[a.tid])
        PROVE  a.block > 0 /\ Has(c, a.tid, a.block)'
    <3>1. Len(client[c].got) \in 1..Len(client[c].got)
      BY <2>3
    <3>2. Len(client[c].got) \in 1..(BlockMod - 1)
      BY <2>1, <2>2, <2>4, <3>1 DEF FirstBlocks, IsBlock
    <3>3. a.block = Len(client[c].got)
      <4> DEFINE n == Len(client[c].got)
      <4>1. n \in Nat /\ n < BlockMod /\ a.block = n % BlockMod
        BY <2>1, <2>3, <3>2, TftpAssumption
      <4> HIDE DEF n
      <4>2. a.block = n
        BY <4>1, NumberIsItself
      <4> QED BY <4>2 DEF n
    <3> QED BY <2>1, <2>3, <3>2, <3>3 DEF Has
  <2> QED BY <2>1, <2>2, <2>4
<1>3. \/ \E c \in Client : Resend(c) \/ \E d \in data : ReceiveData(c, d)
      \/ acks' \subseteq acks
  BY DEF Next, ServerStep, ClientStep, vars, Accept, Refuse, Stat, SendBlock, SendLast, ReceiveAck, Return,
         ReadFails, OtherTransmit, Grow, Lose, Ask
<1> QED BY <1>1, <1>2, <1>3

(* What ACKs say goes on being true. *)
LEMMA AcksStep ==
  ASSUME Inv, [Next]_vars
  PROVE  AcksAreReceived'
<1>1. ASSUME NEW a \in acks'
      PROVE  /\ a.tid \in 1..tid'
             /\ a.opcode = "ACK" /\ Numbered(opened'[a.tid]) =>
                  a.block > 0 /\ \E c \in Client : Has(c, a.tid, a.block)'
  <2>1. CASE a \in acks
    <3>1. /\ a.tid \in 1..tid /\ a.block \in Int
          /\ a.opcode = "ACK" /\ Numbered(opened[a.tid]) =>
               a.block > 0 /\ \E c \in Client : Has(c, a.tid, a.block)
      BY <2>1 DEF Inv, AcksAreReceived, TypeOK, Ack
    <3>2. a.tid \in 1..tid' /\ opened'[a.tid].size = opened[a.tid].size
      BY <3>1, OpenedStay
    <3>3. Numbered(opened'[a.tid]) <=> Numbered(opened[a.tid])
      BY <3>2 DEF Numbered
    <3>4. a.tid \in Nat \ {0}
      BY <3>1
    <3>5. ASSUME NEW c \in Client, Has(c, a.tid, a.block)
          PROVE  Has(c, a.tid, a.block)'
      BY <3>1, <3>4, <3>5, HasStays
    <3> QED BY <3>1, <3>2, <3>3, <3>5
  <2>2. CASE a \notin acks
    BY <2>2, NewAck DEF tid
  <2> QED BY <2>1, <2>2
<1> QED BY <1>1 DEF AcksAreReceived
-----------------------------------------------------------------------------
(* Where the tenant is.                                                    *)

(* Nobody gets ahead of the tenant by receiving. *)
LEMMA ReceivedIsSent ==
  ASSUME Inv, [Next]_vars, Numbered(opened[tid]),
         NEW sent \in Int, \A d \in data : d.tid = tid => d.block <= sent,
         NEW c \in Client, client[c].tid = tid => Len(client[c].got) <= sent,
         client'[c].tid = tid
  PROVE  Len(client'[c].got) <= sent
<1>0. client \in [Client -> Knowledge] /\ client' \in [Client -> Knowledge]
  BY TypeStep DEF Inv, TypeOK, Knowledge
<1>1. CASE client'[c].tid = client[c].tid /\ client'[c].got = client[c].got
  BY <1>1
<1>2. ASSUME NEW d \in data,
             /\ client'[c].at = IF Complete(d) THEN "complete" ELSE "receiving"
             /\ client'[c].tid = d.tid
             /\ client'[c].got = Append(client[c].got, d.content)
             /\ \/ client[c].at = "requested" /\ d.block = 1
                \/ client[c].at = "receiving" /\ d.tid = client[c].tid /\ d.block = NextBlock(c)
      PROVE  Len(client'[c].got) <= sent
  <2>1. \/ client[c].got = <<>> /\ d.block = 1
        \/ /\ client[c].at = "receiving" /\ d.tid = client[c].tid
           /\ FirstBlocks(client[c], opened[d.tid])
           /\ d.block = (Len(client[c].got) + 1) % BlockMod
    BY <1>0, <1>2 DEF Inv, ClientsHaveBlocks, NextBlock
  <2>2. client[c] \in Knowledge /\ client'[c] \in Knowledge
    BY <1>0
  <2>3. d.tid = tid
    BY <1>2
  <2>4. Len(client'[c].got) = d.block
    BY <1>2, <2>1, <2>2, <2>3, OneMoreBlock
  <2> QED BY <2>3, <2>4
<1> QED BY <1>1, <1>2, NewKnowledge

(* Steps of others, while the tenant is where it was. *)
LEMMA OthersProgress ==
  ASSUME Inv, [Next]_vars,
         at' = at, transfer' = transfer, opened' = opened, data' \subseteq data
  PROVE  Progress'
<1>0. tid' = tid /\ current' = current /\ (Transmitted' <=> Transmitted)
  BY DEF tid, current, Transmitted
<1>1. SUFFICES ASSUME at \in {"send", "wait", "wait_last"}
               PROVE  SizeTold' /\ (Numbered(opened[tid]) => OfNumbered')
  BY <1>0 DEF Progress
<1>2. SizeTold /\ (Numbered(opened[tid]) => OfNumbered)
  BY <1>1 DEF Inv, Progress
<1>3. SizeTold'
  BY <1>0, <1>2 DEF SizeTold
<1>4. ASSUME Numbered(opened[tid]) PROVE OfNumbered'
  <2>0. /\ tid \in Nat \ {0} /\ current \in Int
        /\ OfNumbered
    BY <1>1, <1>2, <1>4, ServedType DEF Inv
  <2>1. (AtBlock' <=> AtBlock) /\ (AtEnd' <=> AtEnd) /\ (ReadBlock' <=> ReadBlock)
    BY <1>0 DEF AtBlock, AtEnd, ReadBlock
  <2>2. NotAhead'
    <3> DEFINE sent == IF Transmitted THEN current ELSE current - 1
    <3>1. /\ sent \in Int
          /\ \A d \in data : d.tid = tid => d.block <= sent
          /\ \A c \in Client : client[c].tid = tid => Len(client[c].got) <= sent
      BY <2>0 DEF OfNumbered, NotAhead
    <3>2. sent' = sent
      BY <1>0
    <3> HIDE DEF sent
    <3>3. \A c \in Client : client'[c].tid = tid => Len(client'[c].got) <= sent
      BY <1>4, <3>1, ReceivedIsSent
    <3>4. \A d \in data' : d.tid = tid => d.block <= sent
      BY <3>1
    <3> QED BY <1>0, <3>2, <3>3, <3>4 DEF NotAhead, sent
  <2>3. current > 1 => \E c \in Client : Has(c, tid, current - 1)'
    <3>1. ASSUME NEW c \in Client, Has(c, tid, current - 1)
          PROVE  Has(c, tid, current - 1)'
      <4>1. PICK t \in Nat \ {0}, n \in Int : t = tid /\ n = current - 1
        BY <2>0
      <4>2. Has(c, t, n)'
        BY <3>1, <4>1, HasStays
      <4> QED BY <1>0, <4>1, <4>2 DEF Has
    <3> QED BY <2>0, <3>1 DEF OfNumbered
  <2> QED BY <1>0, <2>0, <2>1, <2>2, <2>3 DEF OfNumbered
<1> QED BY <1>3, <1>4
(* The size is known: nobody has seen a block of the transfer.             *)
LEMMA StatProgress ==
  ASSUME Inv, Stat
  PROVE  Progress'
<1> USE DEF network, server, bounds
<1>1. PICK n \in Nat : /\ transfer' = [Idle EXCEPT !.fileSize = n]
                       /\ opened'[tid] = [opened[tid] EXCEPT !.stat = n]
                       /\ opened'[tid] \in Opening
                       /\ n # 0 => n >= opened[tid].size
  BY StatTells DEF Inv
<1>2. /\ tid > 0 /\ tid \in Nat /\ tid' = tid /\ opened[tid].stat = Absent /\ opened[tid] \in Opening
      /\ at' = "send" /\ client' = client /\ data' = data
  <2>1. at = "stat" /\ at' = "send" /\ client' = client /\ data' = data
    BY DEF Stat
  <2> QED BY <2>1, StatTells, ServedType DEF Inv
<1>3. /\ transfer'.fileSize = n /\ transfer'.block = 1 /\ transfer'.offset = 0
      /\ opened'[tid].stat = n /\ opened'[tid].size = opened[tid].size
  BY <1>1, <1>2 DEF Idle, Opening
<1>4. SizeTold'
  BY <1>1, <1>2, <1>3 DEF SizeTold
<1>5. current' = 1
  BY <1>3 DEF current
<1>6. AtBlock'
  <2>1. opened'[tid'].size \in Nat /\ 0 <= opened'[tid'].size
    BY <1>2, <1>3 DEF Opening
  <2>2. 1 \in Int /\ StartOf(1) = 0 /\ 1 < BlockMod
    BY Starts, TftpAssumption
  <2>3. transfer'.offset = StartOf(1)
    BY <1>3, <2>2
  <2> QED BY <1>3, <1>5, <2>1, <2>2, <2>3 DEF AtBlock
<1>7. NotAhead'
  <2>1. \A d \in data' : d.tid # tid
    BY <1>2 DEF Inv, DataAreBlocks, Carries
  <2>2. \A c \in Client : client'[c].tid # tid
    BY <1>2 DEF Inv, ClientsHaveBlocks, FirstBlocks
  <2> QED BY <1>2, <2>1, <2>2 DEF NotAhead
<1> QED BY <1>2, <1>4, <1>5, <1>6, <1>7 DEF Progress, OfNumbered

(* The block after the current one starts where the current one ends, if   *)
(* that is whole, else after the end of the file.                          *)
LEMMA NextPosition ==
  ASSUME Inv, at # "run", Numbered(opened[tid]), ReadBlock, opened[tid].stat # 0,
         NEW next \in Int, next = current + 1,
         NEW end \in Int, end = transfer.offset + transfer.readLen
  PROVE  \/ next < BlockMod /\ end = StartOf(next) /\ end <= opened[tid].size
         \/ end = opened[tid].size /\ StartOf(current) < end /\ end < StartOf(next)
<1> DEFINE o == opened[tid]
<1>1. /\ o.size \in Nat /\ current \in Nat \ {0} /\ StartOf(current) \in Int
      /\ BlockSize \in Nat \ {0}
  BY ServedType DEF Inv
<1>2. StartOf(next) = StartOf(current) + BlockSize
  BY <1>1, Starts
<1>3. /\ transfer.offset = StartOf(current)
      /\ transfer.readLen = BlockLen(o, current) /\ transfer.readLen > 0
  BY DEF ReadBlock, AtBlock
<1> HIDE DEF current
<1>4. CASE o.size - StartOf(current) < BlockSize
  <2>1. transfer.readLen = o.size - StartOf(current)
    BY <1>3, <1>4 DEF BlockLen
  <2> QED BY <1>1, <1>2, <1>3, <1>4, <2>1
<1>5. CASE ~(o.size - StartOf(current) < BlockSize)
  <2>1. transfer.readLen = BlockSize
    BY <1>3, <1>5 DEF BlockLen
  <2>2. end = StartOf(next) /\ StartOf(next) <= o.size
    BY <1>1, <1>2, <1>3, <1>5, <2>1
  <2>3. next \in Nat \ {0}
    BY <1>1
  <2>4. next < BlockMod
    BY <1>1, <2>2, <2>3, NumbersSuffice
  <2> QED BY <2>2, <2>4
<1> QED BY <1>4, <1>5

(* An ACK of the current block is from a client that has it: the tenant    *)
(* goes on to the next.                                                    *)
LEMMA AckProgress ==
  ASSUME Inv, NEW a \in acks, ReceiveAck(a), Confirms(a)
  PROVE  Progress'
<1> USE DEF network, server, bounds
<1>1. /\ at = "wait" /\ at' = "send" /\ a.tid = tid /\ a.opcode = "ACK" /\ a.block = transfer.block
      /\ opened' = opened /\ data' = data /\ client' = client
  BY DEF ReceiveAck, Confirms
<1>2. /\ transfer'.fileSize = transfer.fileSize
      /\ transfer'.block = (transfer.block + 1) % BlockMod
      /\ transfer'.offset = transfer.offset + transfer.readLen
  BY LocalsType DEF Inv, ReceiveAck, Locals, blockNumber
<1>3. tid' = tid
  BY <1>1 DEF tid
<1>4. SizeTold /\ (Numbered(opened[tid]) => OfNumbered)
  BY <1>1 DEF Inv, Progress
<1>5. SizeTold'
  BY <1>1, <1>2, <1>3, <1>4 DEF SizeTold
<1>6. ASSUME Numbered(opened[tid]) PROVE OfNumbered'
  <2>1. PICK c \in Client : Has(c, tid, transfer.block) /\ transfer.block > 0
    BY <1>1, <1>6 DEF Inv, AcksAreReceived
  <2>2. transfer.block = current /\ current \in 1..(BlockMod - 1)
    BY <1>1, <2>1, ServedType DEF Inv, current
  <2>3. Len(client[c].got) \in Nat /\ Len(client[c].got) >= current /\ client[c].tid = tid
    BY <2>1, <2>2, LenProperties DEF Has, Inv, TypeOK
  <2>4. NotAhead /\ OfNumbered
    BY <1>4, <1>6 DEF OfNumbered
  <2>5. Transmitted
    BY <2>2, <2>3, <2>4 DEF NotAhead
  <2>6. ReadBlock /\ opened[tid].stat # 0
    BY <1>1, <2>4, <2>5 DEF OfNumbered, Transmitted
  <2>7. current' = current + 1
    <3> DEFINE n == transfer.block + 1
    <3>1. n \in Nat /\ n > 1 /\ n <= BlockMod /\ BlockMod \in Nat
      BY <2>2, TftpAssumption
    <3>2. transfer'.block = n % BlockMod
      BY <1>2
    <3> HIDE DEF n
    <3>3. ASSUME n < BlockMod PROVE transfer'.block = n /\ n # 0
      BY <3>1, <3>2, <3>3, NumberIsItself
    <3>4. ASSUME n = BlockMod PROVE transfer'.block = 0
      BY <3>2, <3>4, NumberIsItself
    <3>5. (IF transfer'.block = 0 THEN BlockMod ELSE transfer'.block) = n
      BY <3>1, <3>3, <3>4
    <3> QED BY <2>2, <3>5 DEF current, n
  <2>8. PICK next \in Int, end \in Int :
          next = current + 1 /\ end = transfer.offset + transfer.readLen
    BY <1>1, <2>2, ServedType DEF Inv
  <2>9. \/ next < BlockMod /\ end = StartOf(next) /\ end <= opened[tid].size
        \/ end = opened[tid].size /\ StartOf(current) < end /\ end < StartOf(next)
    BY <1>1, <1>6, <2>6, <2>8, NextPosition
  <2>10. current' = next /\ transfer'.offset = end /\ current = next - 1 /\ next > 1
    BY <1>2, <2>2, <2>7, <2>8
  <2>11. AtBlock' \/ AtEnd'
    BY <1>1, <1>3, <2>9, <2>10 DEF AtBlock, AtEnd
  <2>12. NotAhead'
    <3>1. /\ \A d \in data : d.tid = tid => d.block <= current
          /\ \A b \in Client : client[b].tid = tid => Len(client[b].got) <= current
      BY <2>4, <2>5 DEF NotAhead
    <3>2. ~Transmitted'
      BY <1>1 DEF Transmitted
    <3> QED BY <1>1, <1>3, <2>10, <3>1, <3>2 DEF NotAhead
  <2>13. Has(c, tid, current - 1)'
    BY <1>1, <1>3, <2>3, <2>10 DEF Has
  <2> QED BY <1>1, <1>3, <2>6, <2>11, <2>12, <2>13 DEF OfNumbered
<1> QED BY <1>1, <1>3, <1>5, <1>6 DEF Progress
(* The current block is put on the air, or an empty one at the end.        *)
LEMMA SendProgress ==
  ASSUME Inv, SendBlock \/ SendLast
  PROVE  Progress'
<1> USE DEF network, server, bounds
<1>0. /\ at = "send" /\ opened' = opened /\ client' = client
      /\ (SendBlock => ReadLen \in Int)
  BY ServedType DEF Inv, SendBlock, SendLast, ReadLen, AtMost
<1>1. CASE at' = "run"
  BY <1>1 DEF Progress
<1>2. CASE at' # "run"
  <2>1. \/ /\ SendBlock /\ at' = "wait" /\ ReadLen > 0 /\ Transmit(Content(ReadLen))
           /\ transfer' = [transfer EXCEPT !.readLen = ReadLen]
           /\ transfer.offset < transfer.fileSize
        \/ /\ SendLast /\ at' = "wait_last" /\ EndsEmpty /\ Transmit(Content(0))
           /\ transfer' = transfer /\ transfer.offset >= transfer.fileSize
    BY <1>0, <1>2 DEF SendBlock, SendLast
  <2>2. /\ transfer'.fileSize = transfer.fileSize /\ transfer'.block = transfer.block
        /\ transfer'.offset = transfer.offset
        /\ at' = "wait" => transfer'.readLen = ReadLen
    BY <2>1, LocalsType DEF Inv, Locals
  <2>3. tid' = tid /\ current' = current
    BY <1>0, <2>2 DEF tid, current
  <2>4. SizeTold /\ (Numbered(opened[tid]) => OfNumbered)
    BY <1>0 DEF Inv, Progress
  <2>5. SizeTold'
    BY <1>0, <2>2, <2>3, <2>4 DEF SizeTold
  <2>6. ASSUME Numbered(opened[tid]) PROVE OfNumbered'
    <3>1. /\ AtBlock /\ transfer.block = current
          /\ at' = "wait" => /\ opened[tid].stat # 0
                            /\ ReadLen = BlockLen(opened[tid], current)
      BY <1>0, <2>1, <2>6, ReadIsBlock, EmptyIsBlock
    <3>2. AtBlock'
      BY <1>0, <2>2, <2>3, <3>1 DEF AtBlock
    <3>3. at' = "wait" => ReadBlock'
      BY <1>0, <2>1, <2>2, <2>3, <3>1, <3>2 DEF ReadBlock
    <3>4. OfNumbered
      BY <2>4, <2>6
    <3>5. NotAhead'
      <4>1. Transmitted' /\ ~Transmitted
        BY <1>0, <2>1, <2>2 DEF Transmitted
      <4>2. /\ \A d \in data : d.tid = tid => d.block <= current - 1
            /\ \A c \in Client : client[c].tid = tid => Len(client[c].got) <= current - 1
        BY <3>4, <4>1 DEF OfNumbered, NotAhead
      <4>3. current \in Int /\ \A d \in data : d.block \in Int
        BY <1>0, ServedType DEF Inv, TypeOK, Data
      <4>4. \A c \in Client : Len(client[c].got) \in Nat
        BY LenProperties DEF Inv, TypeOK
      <4>5. \A d \in data' : d \in data \/ d.block = current
        BY <2>1, <3>1 DEF Transmit
      <4>6. \A d \in data' : d.tid = tid => d.block <= current
        BY <4>2, <4>3, <4>5
      <4>7. \A c \in Client : client[c].tid = tid => Len(client[c].got) <= current
        BY <4>2, <4>3, <4>4
      <4> QED BY <1>0, <2>3, <4>1, <4>6, <4>7 DEF NotAhead
    <3>6. opened[tid].stat = 0 => current = 1 /\ at' # "wait"
      BY <3>1, <3>4 DEF OfNumbered
    <3>7. current > 1 => \E c \in Client : Has(c, tid, current - 1)'
      BY <1>0, <2>3, <3>4 DEF OfNumbered, Has
    <3> QED BY <1>0, <2>3, <3>2, <3>3, <3>5, <3>6, <3>7 DEF OfNumbered
  <2> QED BY <1>0, <2>3, <2>5, <2>6 DEF Progress
<1> QED BY <1>1, <1>2

(* After a failed Read three bytes are sent that nobody takes for a block. *)
LEMMA FailProgress ==
  ASSUME Inv, ReadFails
  PROVE  Progress'
<1> USE DEF network, server, bounds
<1>1. /\ at = "send" /\ at' = "wait" /\ opened' = opened /\ client' = client /\ data' = data
      /\ transfer' = [transfer EXCEPT !.readLen = -1] /\ transfer.offset < transfer.fileSize
  BY DEF ReadFails
<1>2. /\ transfer'.fileSize = transfer.fileSize /\ transfer'.block = transfer.block
      /\ transfer'.offset = transfer.offset /\ transfer'.readLen = -1
  BY <1>1, LocalsType DEF Inv, Locals
<1>3. tid' = tid /\ current' = current
  BY <1>1, <1>2 DEF tid, current
<1>4. SizeTold /\ (Numbered(opened[tid]) => OfNumbered)
  BY <1>1 DEF Inv, Progress
<1>5. SizeTold'
  BY <1>1, <1>2, <1>3, <1>4 DEF SizeTold
<1>6. ASSUME Numbered(opened[tid]) PROVE OfNumbered'
  <2>1. OfNumbered
    BY <1>4, <1>6
  <2>2. (AtBlock' <=> AtBlock) /\ (AtEnd' <=> AtEnd)
    BY <1>1, <1>2, <1>3 DEF AtBlock, AtEnd
  <2>3. opened[tid].stat # 0
    <3>1. SUFFICES ASSUME opened[tid].stat = 0 PROVE FALSE
      OBVIOUS
    <3>2. current = 1 /\ AtBlock
      BY <2>1, <3>1 DEF OfNumbered, AtEnd
    <3>3. transfer.offset = 0
      <4>1. 1 \in Int /\ StartOf(1) = 0
        BY Starts
      <4> QED BY <3>2, <4>1 DEF AtBlock
    <3> QED BY <1>1, <1>4, <3>1, <3>3 DEF SizeTold
  <2>4. NotAhead'
    <3>1. ~Transmitted /\ ~Transmitted'
      BY <1>1, <1>2 DEF Transmitted
    <3> QED BY <1>1, <1>3, <2>1, <3>1 DEF OfNumbered, NotAhead
  <2>5. current > 1 => \E c \in Client : Has(c, tid, current - 1)'
    BY <1>1, <1>3, <2>1 DEF OfNumbered, Has
  <2> QED BY <1>1, <1>2, <1>3, <2>1, <2>2, <2>3, <2>4, <2>5 DEF OfNumbered
<1> QED BY <1>1, <1>3, <1>5, <1>6 DEF Progress

(* The tenant is at a block, or at the end, after every step. *)
LEMMA ProgressStep ==
  ASSUME Inv, [Next]_vars
  PROVE  Progress'
<1> USE DEF network, server, bounds
<1>1. CASE Stat
  BY <1>1, StatProgress
<1>2. CASE SendBlock \/ SendLast
  BY <1>2, SendProgress
<1>3. ASSUME NEW a \in acks, ReceiveAck(a) PROVE Progress'
  <2>1. CASE Confirms(a)
    BY <1>3, <2>1, AckProgress
  <2>2. CASE ~Confirms(a)
    BY <1>3, <2>2 DEF ReceiveAck, Progress
  <2> QED BY <2>1, <2>2
<1>4. CASE ReadFails
  BY <1>4, FailProgress
<1>5. CASE at' = "run" \/ at' = "stat"
  BY <1>5 DEF Progress
<1>6. CASE at' = at /\ transfer' = transfer /\ opened' = opened /\ data' \subseteq data
  BY <1>6, OthersProgress
<1>7. \/ Stat \/ SendBlock \/ SendLast \/ ReadFails \/ \E a \in acks : ReceiveAck(a)
      \/ at' = "run" \/ at' = "stat"
      \/ at' = at /\ transfer' = transfer /\ opened' = opened /\ data' \subseteq data
  BY ZenonT(40) DEF Next, ServerStep, ClientStep, vars, Accept, Refuse, Return, OtherTransmit, Grow, Lose, Ask,
         ReceiveData, Resend
<1> QED BY <1>1, <1>2, <1>3, <1>4, <1>5, <1>6, <1>7

-----------------------------------------------------------------------------
(* The theorems.                                                           *)

(* The inductive invariant holds of every behaviour. *)
THEOREM Invariance == Spec => []Inv
<1>1. Init => Inv
  <2>1. SUFFICES ASSUME Init PROVE Inv
    OBVIOUS
  <2>2. opened = <<>> /\ tid = 0 /\ requests = {} /\ data = {} /\ acks = {} /\ at = "run"
    BY <2>1 DEF Init, tid
  <2>3. client \in [Client -> Knowledge]
    BY <2>1, TftpAssumption DEF Init, Knowledge
  <2>4. TypeOK
    <3>1. transfer \in Locals
      <4>1. 1 \in 0..(BlockMod - 1)
        BY TftpAssumption
      <4> QED BY <2>1, <4>1 DEF Init, Idle, Locals
    <3>2. opened \in Seq(Opening)
      BY <2>2
    <3> QED BY <2>1, <2>2, <2>3, <3>1, <3>2, TftpAssumption
            DEF Init, TypeOK, Knowledge, Locals, Opening
  <2>5. \A c \in Client : client[c].at = "idle" /\ client[c].tid = 0 /\ client[c].got = <<>>
    BY <2>1 DEF Init
  <2> QED BY <2>2, <2>4, <2>5
      DEF Inv, OpenedFiles, DataAreBlocks, ClientsHaveBlocks, AcksAreReceived, Progress, AskedFor
<1>2. Inv /\ [Next]_vars => Inv'
  BY TypeStep, OpenedFilesStep, DataStep, ClientsStep, AcksStep, ProgressStep, AskedForStep DEF Inv
<1> QED BY <1>1, <1>2, PTL DEF Spec
(* Files of which the numbers do not wrap are those with enough numbers. *)
LEMMA WrapsOrNumbered ==
  ASSUME NEW t, opened[t].size \in Nat
  PROVE  Wraps(t) <=> ~Numbered(opened[t])
<1> DEFINE n == opened[t].size
<1>1. n \div BlockSize \in Nat /\ BlockMod \in Nat
  BY Division, TftpAssumption
<1> QED BY <1>1 DEF Wraps, Numbered

(* A block ends where the next one starts, or with the file. *)
LEMMA BlockEnds ==
  ASSUME NEW o \in Opening, NEW k \in Int, IsBlock(o, k)
  PROVE  /\ StartOf(k) \in Int /\ End(BlockOf(o, k)) \in Int
         /\ End(BlockOf(o, k)) >= StartOf(k)
         /\ End(BlockOf(o, k)) = StartOf(k) + BlockLen(o, k)
         /\ o.stat = 0 => End(BlockOf(o, k)) = 0
         /\ o.stat # 0 => End(BlockOf(o, k)) = IF StartOf(k + 1) <= o.size THEN StartOf(k + 1) ELSE o.size
<1>1. /\ StartOf(k) \in Int /\ StartOf(k + 1) = StartOf(k) + BlockSize /\ StartOf(1) = 0
      /\ BlockSize \in Nat \ {0} /\ o.size \in Nat /\ StartOf(k) <= o.size
      /\ o.stat = 0 => k = 1
  BY Starts, TftpAssumption DEF IsBlock, Opening
<1>2. End(BlockOf(o, k)) = StartOf(k) + BlockLen(o, k)
  BY DEF End, BlockOf
<1>3. CASE o.stat = 0
  BY <1>1, <1>2, <1>3 DEF BlockLen
<1>4. CASE o.stat # 0
  BY <1>1, <1>2, <1>4 DEF BlockLen
<1> QED BY <1>1, <1>2, <1>3, <1>4

(* What a client has of a file whose blocks have numbers of their own. *)
LEMMA WhatAClientHas ==
  ASSUME Inv, NEW c \in Client, client[c].tid # 0, Numbered(opened[client[c].tid])
  PROVE  LET got == client[c].got
             o == opened[client[c].tid]
         IN  /\ o \in Opening /\ Len(got) \in Nat \ {0} /\ DOMAIN got = 1..Len(got)
             /\ FirstBlocks(client[c], o)
             /\ \A i \in 1..Len(got) : IsBlock(o, i) /\ got[i] = BlockOf(o, i)
             /\ \A i \in 1..(Len(got) - 1) : got[i].len = BlockSize
<1>1. client[c].tid \in 1..tid /\ FirstBlocks(client[c], opened[client[c].tid])
  BY DEF Inv, ClientsHaveBlocks
<1>2. opened[client[c].tid] \in Opening
  BY <1>1, OpenedType DEF Inv
<1>3. client[c].got \in Seq(Stretch)
  BY DEF Inv, TypeOK
<1>4. Len(client[c].got) \in Nat \ {0} /\ DOMAIN client[c].got = 1..Len(client[c].got)
  BY <1>1, <1>3, LenProperties DEF FirstBlocks
<1> QED BY <1>1, <1>2, <1>4 DEF FirstBlocks

(* The server goes on to the next block only when a client has the ones    *)
(* before it: whatever is lost, repeated or late, for any number of        *)
(* clients, and of files with fewer blocks than there are numbers.         *)
THEOREM AckedIsReceivedHolds == Spec => []AckedIsReceived
<1>1. Inv => AckedIsReceived
  <2>1. SUFFICES ASSUME Inv, at \in {"send", "wait", "wait_last"}, transfer.offset > 0, ~Wraps(tid)
                 PROVE  \E c \in Client :
                          /\ client[c].tid = tid
                          /\ End(Received(c)[Len(Received(c))]) >= transfer.offset
    BY DEF AckedIsReceived
  <2> DEFINE o == opened[tid]
  <2>2. /\ tid \in Nat \ {0} /\ o \in Opening /\ o.size \in Nat /\ current \in Int
        /\ transfer.offset \in Int /\ BlockSize \in Nat \ {0} /\ StartOf(current) \in Int
    BY <2>1, ServedType DEF Inv
  <2>3. Numbered(o)
    BY <2>1, <2>2, WrapsOrNumbered
  <2>4. OfNumbered
    BY <2>1, <2>3 DEF Inv, Progress
  <2>5. current > 1
    <3>1. 1 \in Int /\ StartOf(1) = 0
      BY Starts
    <3>2. current >= 1
      BY <2>1, ServedType DEF Inv
    <3> QED BY <2>1, <2>2, <2>4, <3>1, <3>2 DEF OfNumbered, AtBlock, AtEnd
  <2>6. PICK c \in Client : Has(c, tid, current - 1)
    BY <2>4, <2>5 DEF OfNumbered
  <2> DEFINE n == Len(client[c].got)
  <2>7. /\ client[c].tid = tid /\ n >= current - 1 /\ n \in Nat \ {0}
        /\ IsBlock(o, n) /\ client[c].got[n] = BlockOf(o, n)
    <3>1. client[c].tid = tid /\ n >= current - 1
      BY <2>6 DEF Has
    <3>2. n \in Nat \ {0} /\ n \in 1..n
      BY <2>1, <2>2, <2>3, <3>1, WhatAClientHas
    <3> QED BY <2>1, <2>2, <2>3, <3>1, <3>2, WhatAClientHas
  <2> HIDE DEF n, o, current
  <2>8. /\ End(BlockOf(o, n)) \in Int /\ StartOf(n) \in Int /\ End(BlockOf(o, n)) >= StartOf(n)
        /\ o.stat # 0 => End(BlockOf(o, n)) = IF StartOf(n + 1) <= o.size THEN StartOf(n + 1) ELSE o.size
        /\ StartOf(n) <= o.size
    BY <2>2, <2>7, BlockEnds DEF IsBlock
  <2>9. o.stat # 0
    BY <2>4, <2>5 DEF OfNumbered, o
  <2>10. /\ transfer.offset <= o.size
         /\ transfer.offset <= StartOf(current)
         /\ AtEnd => o.size < StartOf(current)
    BY <2>2, <2>4 DEF OfNumbered, AtBlock, AtEnd, o
  <2>11. End(BlockOf(o, n)) >= transfer.offset
    <3>1. CASE n = current - 1
      <4>1. n + 1 = current
        BY <2>2, <3>1
      <4> QED BY <2>2, <2>8, <2>9, <2>10, <4>1
    <3>2. CASE n > current - 1
      <4>1. StartOf(current) <= StartOf(n)
        <5>1. CASE n = current
          BY <2>2, <5>1
        <5>2. CASE n > current
          BY <2>2, <2>7, <2>8, <5>2, StartsGrow
        <5> QED BY <2>2, <2>7, <3>2, <5>1, <5>2
      <4> QED BY <2>2, <2>8, <2>10, <4>1
    <3> QED BY <2>2, <2>7, <3>1, <3>2
  <2> QED BY <2>7, <2>11 DEF Received, n
<1> QED BY <1>1, Invariance, PTL

(* A client that believes its transfer complete has the whole file that    *)
(* was opened for the transfer, from its beginning, or nothing if          *)
(* GetFileSize said 0.                                                     *)
LEMMA CompleteIsWhole ==
  ASSUME Inv, NEW c \in Client, client[c].at = "complete", ~Wraps(client[c].tid)
  PROVE  LET of == opened[client[c].tid]
         IN  /\ client[c].tid \in 1..tid
             /\ Tiles(Received(c), of.file)
             /\ End(Received(c)[Len(Received(c))]) = IF of.stat = 0 THEN 0 ELSE of.size
<1> DEFINE o == opened[client[c].tid]
           got == client[c].got
           n == Len(got)
<1>1. client[c].tid \in 1..tid /\ o \in Opening /\ client[c].tid # 0
  BY OpenedType DEF Inv, ClientsHaveBlocks
<1>2. Numbered(o)
  BY <1>1, WrapsOrNumbered DEF Opening
<1>3. /\ n \in Nat \ {0} /\ DOMAIN got = 1..n
      /\ FirstBlocks(client[c], o)
      /\ \A i \in 1..n : IsBlock(o, i) /\ got[i] = BlockOf(o, i)
      /\ \A i \in 1..(n - 1) : got[i].len = BlockSize
  BY <1>1, <1>2, WhatAClientHas
<1>4. got[n].len < BlockSize
  BY <1>2, <1>3 DEF FirstBlocks
<1> HIDE DEF o, got
<1>5. ASSUME NEW i \in 1..n
      PROVE  got[i].file = o.file /\ got[i].offset = (IF i = 1 THEN 0 ELSE End(got[i - 1]))
  <2>1. got[i].file = o.file /\ got[i].offset = StartOf(i)
    BY <1>3 DEF BlockOf
  <2>2. StartOf(1) = 0
    BY Starts
  <2>3. CASE i # 1
    <3>1. i - 1 \in 1..(n - 1) /\ i - 1 \in 1..n /\ i - 1 \in Int /\ (i - 1) + 1 = i
      BY <1>3, <2>3
    <3>2. got[i - 1].offset = StartOf(i - 1) /\ got[i - 1].len = BlockSize
      BY <1>3, <3>1 DEF BlockOf
    <3>3. StartOf(i) = StartOf(i - 1) + BlockSize
      BY <3>1, Starts
    <3> QED BY <2>1, <2>3, <3>2, <3>3 DEF End
  <2> QED BY <2>1, <2>2, <2>3
<1>6. End(got[n]) = IF o.stat = 0 THEN 0 ELSE o.size
  <2>1. n \in 1..n /\ n \in Int
    BY <1>3
  <2>2. IsBlock(o, n) /\ got[n] = BlockOf(o, n)
    BY <1>3, <2>1
  <2>3. /\ StartOf(n) \in Int /\ End(got[n]) \in Int
        /\ End(got[n]) = StartOf(n) + BlockLen(o, n)
        /\ o.stat = 0 => End(got[n]) = 0
        /\ o.stat # 0 => End(got[n]) = IF StartOf(n + 1) <= o.size THEN StartOf(n + 1) ELSE o.size
    BY <1>1, <2>1, <2>2, BlockEnds
  <2>4. BlockLen(o, n) < BlockSize /\ StartOf(n + 1) = StartOf(n) + BlockSize
    BY <1>4, <2>1, <2>2, Starts DEF BlockOf
  <2>5. BlockLen(o, n) \in Int /\ BlockSize \in Nat
    BY <1>1, <2>1, BlockLenBound, TftpAssumption
  <2>6. End(got[n]) # StartOf(n + 1)
    BY <2>3, <2>4, <2>5
  <2> QED BY <2>3, <2>6
<1> QED BY <1>1, <1>3, <1>5, <1>6 DEF Tiles, Received, o, got

(* What is received is the whole of some file that was opened, for any     *)
(* number of clients and wherever the packets of others went.              *)
WholeOfOpened ==
  \A c \in Client : client[c].at = "complete" /\ ~Wraps(client[c].tid) =>
    LET of == opened[client[c].tid]
    IN  /\ Tiles(Received(c), of.file)
        /\ End(Received(c)[Len(Received(c))]) = IF of.stat = 0 THEN 0 ELSE of.size

(* No client, of any number, ever takes parts of two files or of two       *)
(* transfers for a file, or a part for the whole.                          *)
THEOREM WholeIsReceived == Spec => []WholeOfOpened
<1>1. Inv => WholeOfOpened
  BY CompleteIsWhole DEF WholeOfOpened
<1> QED BY <1>1, Invariance, PTL

(* With one client, which asks for one file, that file is the one it asked *)
(* for. With several it need not be: the destination of the first packet   *)
(* is that of all.                                                         *)
THEOREM CompleteIsExactHolds ==
  ASSUME \A b, c \in Client : b = c
  PROVE  Spec => []CompleteIsExact
<1>1. Inv => CompleteIsExact
  <2>1. SUFFICES ASSUME Inv, NEW c \in Client, client[c].at = "complete", ~Wraps(client[c].tid)
                 PROVE  LET of == opened[client[c].tid]
                        IN  /\ Tiles(Received(c), client[c].request.file)
                            /\ End(Received(c)[Len(Received(c))]) = IF of.stat = 0 THEN 0 ELSE of.size
    BY DEF CompleteIsExact
  <2>2. client[c].tid \in 1..tid
    BY <2>1, CompleteIsWhole
  <2>3. opened[client[c].tid].client = c
    BY <2>1, <2>2, OpenedType DEF Inv, Opening
  <2>4. client[c].request.file = opened[client[c].tid].file
    BY <2>1, <2>2, <2>3 DEF Inv, AskedFor
  <2> QED BY <2>1, <2>4, CompleteIsWhole
<1> QED BY <1>1, Invariance, PTL

(* Every variable keeps its type. *)
THEOREM TypeCorrect == Spec => []TypeOK
<1>1. Inv => TypeOK
  BY DEF Inv
<1> QED BY <1>1, Invariance, PTL
=============================================================================
