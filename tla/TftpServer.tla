----------------------------- MODULE TftpServer -----------------------------
(***************************************************************************)
(* CTftpServerTenant (lib/f_core/net/application/c_tftp_server_tenant.cpp) *)
(* with the CUdpSocket and CFile it uses, a network that loses and repeats *)
(* packets and delivers them in any order, and clients that follow the     *)
(* protocol.                                                               *)
(*                                                                         *)
(* The tenant serves one request at a time, inside Run.  Every transfer    *)
(* has a data socket of its own, whose port is the transfer's identifier   *)
(* (tid).  Contents are abstracted to the stretch <<file, offset, len>> of *)
(* a file that a DATA packet carries.                                      *)
(***************************************************************************)
EXTENDS Integers, Sequences, FiniteSets

CONSTANTS
  Client,        (* clients, each with a port of its own                    *)
  InitSize,      (* the files and their sizes at the start                  *)
  Wanted,        (* the files that clients ask for                          *)
  BlockSize,     (* maxDataSize, 512                                        *)
  BlockMod,      (* 2^16                                                    *)
  OtherPorts,    (* ports to which other tenants of the module transmit     *)
  MaxTransfers,  (* bound: transfers the server begins                      *)
  MaxGrowth,     (* bound: bytes that are appended to files meanwhile       *)
  MaxFaults,     (* bound: packets lost or repeated, calls that fail        *)
  MaxResends     (* bound: times a client resends its last packet           *)

Absent == -1                        (* the size of a file that is not there *)
tree == "/lfs/tree"
File == DOMAIN InitSize

ASSUME TftpAssumption ==
  /\ InitSize \in [File -> Nat \cup {Absent}] /\ tree \in File
  /\ Wanted \subseteq File \cup {"tree"}
  /\ BlockSize \in Nat \ {0} /\ BlockMod \in Nat \ {0, 1}
  /\ {MaxTransfers, MaxGrowth, MaxFaults, MaxResends} \subseteq Nat

VARIABLES
  size,          (* size[f]: bytes of file f                                *)
  at,            (* where the tenant is                                     *)
  transfer,      (* the locals of handleReadRequest                         *)
  opened,        (* opened[tid]: [client, file, size, stat], the size when  *)
                 (* the file was opened and what fs_stat said of it         *)
  addr,          (* the static const destination of TransmitAsynchronous    *)
  requests, data, acks,   (* packets in the network                         *)
  client,        (* client[c]: what client c knows                          *)
  faults, resends, grown  (* used up of the bounds                          *)

network == <<requests, data, acks>>
server == <<at, transfer, opened, addr>>
bounds == <<faults, resends, grown>>
vars == <<size, server, network, client, bounds>>

None == 0        (* no port yet: the function-local static is not built     *)

Request == [client : Client, file : Wanted, mode : {"octet", "netascii"}]
Stretch == [file : File, offset : Int, len : Nat]
Data    == [port : Client \cup OtherPorts, tid : 1..MaxTransfers, block : 0..(BlockMod - 1), content : Stretch]
Ack     == [tid : 1..MaxTransfers, opcode : {"ACK", "ERROR"}, block : 0..(BlockMod - 1)]

Idle == [fileSize |-> 0, block |-> 1, offset |-> 0, readLen |-> 0]
tid == Len(opened)

TypeOK ==
  /\ size \in [File -> Nat \cup {Absent}]
  /\ at \in {"run", "stat", "send", "wait", "wait_last"}
  /\ transfer \in [fileSize : Nat, block : 0..(BlockMod - 1), offset : Int, readLen : Int]
  /\ opened \in Seq([client : Client, file : File, size : Nat, stat : Nat \cup {Absent}])
  /\ tid <= MaxTransfers
  /\ addr \in Client \cup OtherPorts \cup {None}
  /\ requests \subseteq Request /\ data \subseteq Data /\ acks \subseteq Ack
  /\ client \in [Client -> [at : {"idle", "requested", "receiving", "complete"},
                           request : Request \cup {<<>>}, tid : 0..MaxTransfers, got : Seq(Stretch)]]
  /\ faults \in 0..MaxFaults /\ resends \in 0..MaxResends /\ grown \in 0..MaxGrowth

Init ==
  /\ size = InitSize
  /\ at = "run" /\ transfer = Idle /\ opened = <<>> /\ addr = None
  /\ requests = {} /\ data = {} /\ acks = {}
  /\ client = [c \in Client |-> [at |-> "idle", request |-> <<>>, tid |-> 0, got |-> <<>>]]
  /\ faults = 0 /\ resends = 0 /\ grown = 0

Fault == faults < MaxFaults /\ faults' = faults + 1

-----------------------------------------------------------------------------
(* The server.                                                             *)

(* TransmitAsynchronous: the destination is initialised by the first call  *)
(* in the program and never again. *)
Destination(port) == IF addr = None THEN port ELSE addr

Transmit(content) ==
  LET to == opened[tid].client
  IN  /\ addr' = Destination(to)
      /\ data' = data \cup {[port |-> Destination(to), tid |-> tid,
                             block |-> transfer.block, content |-> content]}

Content(len) == [file |-> opened[tid].file, offset |-> transfer.offset, len |-> len]

Opens(r) == r.file # "tree" /\ r.mode = "octet" /\ size[r.file] # Absent

(* Run takes a request from the control socket, and handleReadRequest      *)
(* opens the file. *)
Accept(r) ==
  /\ at = "run" /\ r \in requests /\ Opens(r)
  /\ tid < MaxTransfers
  /\ requests' = requests \ {r}
  /\ opened' = Append(opened, [client |-> r.client, file |-> r.file,
                               size |-> size[r.file], stat |-> Absent])
  /\ at' = "stat"
  /\ UNCHANGED <<size, transfer, addr, data, acks, client, bounds>>

(* A request that is not served; one for "tree" writes a file first. *)
Refuse(r) ==
  /\ at = "run" /\ r \in requests /\ ~Opens(r)
  /\ requests' = requests \ {r}
  /\ size' = IF r.file = "tree" THEN [size EXCEPT ![tree] = IF @ < 4 THEN 4 ELSE @] ELSE size
  /\ UNCHANGED <<server, data, acks, client, bounds>>

(* GetFileSize returns 0 when fs_stat fails, so the test fileSize < 0 is   *)
(* never true. *)
Stat ==
  /\ at = "stat"
  /\ \E s \in {size[opened[tid].file], 0} :
       /\ transfer' = [Idle EXCEPT !.fileSize = s]
       /\ opened' = [opened EXCEPT ![tid].stat = s]
       /\ IF s = size[opened[tid].file] THEN UNCHANGED faults ELSE Fault
  /\ at' = "send"
  /\ UNCHANGED <<size, addr, network, client, resends, grown>>

(* Read: what is left of the file as it was opened, at most a block.  As   *)
(* if the header were part of the block. *)
AtMost(n) == LET left == opened[tid].size - transfer.offset IN IF left < n THEN left ELSE n
ReadLenWithHeader == AtMost(BlockSize - 1)
ReadLen == AtMost(BlockSize)

(* One turn of the loop. *)
SendBlock ==
  LET readLen == ReadLen
  IN  /\ at = "send" /\ transfer.offset < transfer.fileSize
      /\ \/ /\ readLen > 0
            /\ Transmit(Content(readLen))
            /\ transfer' = [transfer EXCEPT !.readLen = readLen]
            /\ at' = "wait"
         \/ /\ readLen <= 0
            /\ transfer' = Idle /\ at' = "run"
            /\ UNCHANGED <<addr, data>>
      /\ UNCHANGED <<size, opened, requests, acks, client, bounds>>

(* A failed Read returns -1, which as a size_t is not <= 0: three bytes    *)
(* are sent, which are no packet of the protocol. *)
ReadFails ==
  /\ at = "send" /\ transfer.offset < transfer.fileSize
  /\ Fault
  /\ addr' = Destination(opened[tid].client)
  /\ transfer' = [transfer EXCEPT !.readLen = -1]
  /\ at' = "wait"
  /\ UNCHANGED <<size, opened, network, client, resends, grown>>

(* After the last block: an empty one if the size is a multiple.  As if    *)
(* that were forgotten. *)
EndsEmptyNever == FALSE
EndsEmpty == transfer.fileSize % BlockSize = 0

SendLast ==
  /\ at = "send" /\ transfer.offset >= transfer.fileSize
  /\ \/ /\ EndsEmpty
        /\ Transmit(Content(0))
        /\ at' = "wait_last"
        /\ UNCHANGED transfer
     \/ /\ ~EndsEmpty
        /\ transfer' = Idle /\ at' = "run"
        /\ UNCHANGED <<addr, data>>
  /\ UNCHANGED <<size, opened, requests, acks, client, bounds>>

(* As if the block number were not compared. *)
ConfirmsAny(a) == a.opcode = "ACK"

blockNumber == (transfer.block + 1) % BlockMod
Confirms(a) == a.opcode = "ACK" /\ a.block = transfer.block

(* waitForAck takes the first packet that arrives; while there is none it  *)
(* receives 0 bytes and asks again.  A packet of another block or opcode   *)
(* ends the transfer. *)
ReceiveAck(a) ==
  /\ at = "wait" /\ a \in acks /\ a.tid = tid
  /\ acks' = acks \ {a}
  /\ \/ /\ Confirms(a)
        /\ transfer' = [transfer EXCEPT !.block = blockNumber,
                                        !.offset = @ + transfer.readLen]
        /\ at' = "send"
     \/ /\ ~Confirms(a)
        /\ transfer' = Idle /\ at' = "run"
  /\ UNCHANGED <<size, opened, addr, requests, data, client, bounds>>

(* The answer to the last, empty, block is not looked at; nor is a transfer *)
(* continued when the socket fails. *)
Return ==
  /\ \/ at = "wait_last" /\ \E a \in acks : a.tid = tid /\ acks' = acks \ {a} /\ UNCHANGED faults
     \/ at \in {"wait", "wait_last"} /\ Fault /\ UNCHANGED acks
  /\ transfer' = Idle /\ at' = "run"
  /\ UNCHANGED <<size, opened, addr, requests, data, client, resends, grown>>

ServerStep == \/ \E r \in requests : Accept(r) \/ Refuse(r)
              \/ Stat \/ SendBlock \/ SendLast
              \/ \E a \in acks : ReceiveAck(a)
              \/ Return

(* Another tenant of the module transmits, which may be the first call. *)
OtherTransmit(port) ==
  /\ addr' = Destination(port)
  /\ UNCHANGED <<size, at, transfer, opened, network, client, bounds>>

(* A data logger appends to a file. *)
Grow(f) ==
  /\ size[f] # Absent /\ grown < MaxGrowth
  /\ size' = [size EXCEPT ![f] = @ + 1]
  /\ grown' = grown + 1
  /\ UNCHANGED <<server, network, client, faults, resends>>

-----------------------------------------------------------------------------
(* The network and the clients.                                            *)

Lose ==
  /\ Fault
  /\ \/ \E r \in requests : requests' = requests \ {r} /\ UNCHANGED <<data, acks>>
     \/ \E d \in data : data' = data \ {d} /\ UNCHANGED <<requests, acks>>
     \/ \E a \in acks : acks' = acks \ {a} /\ UNCHANGED <<requests, data>>
  /\ UNCHANGED <<size, server, client, resends, grown>>

Ask(c) ==
  /\ client[c].at = "idle"
  /\ \E r \in Request :
       /\ r.client = c
       /\ client' = [client EXCEPT ![c].at = "requested", ![c].request = r]
       /\ requests' = requests \cup {r}
  /\ UNCHANGED <<size, server, data, acks, bounds>>

NextBlock(c) == (Len(client[c].got) + 1) % BlockMod
Complete(d) == d.content.len < BlockSize

(* A packet for the port of c: the first one of a new transfer, the next   *)
(* one of the transfer, one of another block, or one of another transfer,  *)
(* which is answered by an error.  It may arrive again. *)
ReceiveData(c, d) ==
  LET fresh == \/ client[c].at = "requested" /\ d.block = 1
               \/ client[c].at = "receiving" /\ d.tid = client[c].tid /\ d.block = NextBlock(c)
      stranger == client[c].at = "receiving" /\ d.tid # client[c].tid
  IN  /\ d \in data /\ d.port = c
      /\ client' = IF fresh
                   THEN [client EXCEPT ![c].at = IF Complete(d) THEN "complete" ELSE "receiving",
                                       ![c].tid = d.tid, ![c].got = Append(@, d.content)]
                   ELSE client
      /\ acks' = CASE fresh    -> acks \cup {[tid |-> d.tid, opcode |-> "ACK", block |-> d.block]}
                   [] stranger -> acks \cup {[tid |-> d.tid, opcode |-> "ERROR", block |-> 0]}
                   [] OTHER    -> acks
      /\ \/ data' = data \ {d} /\ UNCHANGED faults
         \/ UNCHANGED data /\ Fault
      /\ UNCHANGED <<size, server, requests, resends, grown>>

(* The client waited too long, or thinks so. *)
Resend(c) ==
  /\ resends < MaxResends /\ resends' = resends + 1
  /\ \/ /\ client[c].at = "requested"
        /\ requests' = requests \cup {client[c].request}
        /\ UNCHANGED acks
     \/ /\ client[c].at = "receiving"
        /\ acks' = acks \cup {[tid |-> client[c].tid, opcode |-> "ACK",
                               block |-> Len(client[c].got) % BlockMod]}
        /\ UNCHANGED requests
  /\ UNCHANGED <<size, server, data, client, faults, grown>>

ClientStep(c) == \E d \in data : ReceiveData(c, d)

Next == \/ ServerStep \/ ReadFails
        \/ \E port \in OtherPorts : OtherTransmit(port)
        \/ \E f \in File : Grow(f)
        \/ Lose
        \/ \E c \in Client : Ask(c) \/ ClientStep(c) \/ Resend(c)

Spec == Init /\ [][Next]_vars

(* The networking task runs, the network delivers what it does not lose,   *)
(* clients answer; in FairSpec they also resend while they may.             *)
Answers == WF_vars(ServerStep) /\ \A c \in Client : WF_vars(ClientStep(c))
AnsweringSpec == Spec /\ Answers
FairSpec == AnsweringSpec /\ \A c \in Client : WF_vars(Resend(c))

-----------------------------------------------------------------------------
(* Properties.                                                             *)

Received(c) == client[c].got
End(s) == s.offset + s.len

(* The stretches follow one another from the beginning of file f. *)
Tiles(got, f) == \A i \in DOMAIN got :
  got[i].file = f /\ got[i].offset = (IF i = 1 THEN 0 ELSE End(got[i - 1]))

(* Where block numbers come again, a packet of the network's may be taken  *)
(* for one that is BlockMod blocks ahead. *)
Wraps(t) == opened[t].size \div BlockSize + 1 >= BlockMod

(* A client that believes its transfer complete has the whole of the file  *)
(* it asked for, as it was when the server opened it, whatever was lost,   *)
(* repeated or late and however the file grew meanwhile - or nothing at    *)
(* all, if the file was empty as far as GetFileSize could tell: of files   *)
(* with fewer blocks than there are block numbers. *)
CompleteIsExact ==
  \A c \in Client : client[c].at = "complete" /\ ~Wraps(client[c].tid) =>
    LET of == opened[client[c].tid]
    IN  /\ Tiles(Received(c), client[c].request.file)
        /\ End(Received(c)[Len(Received(c))]) = IF of.stat = 0 THEN 0 ELSE of.size

(* The server goes on to the next block only when its client has the ones  *)
(* before: a late or repeated ACK cannot make it skip one. *)
AckedIsReceived ==
  at \in {"send", "wait", "wait_last"} /\ transfer.offset > 0 /\ ~Wraps(tid) =>
    \E c \in Client : /\ client[c].tid = tid
                      /\ End(Received(c)[Len(Received(c))]) >= transfer.offset

(* A request that can be served is, when nothing is lost or sent twice and *)
(* the file does not grow between its opening and the fs_stat after it:    *)
(* files of no bytes and of whole blocks end with an empty block. *)
EveryRequestServed ==
  \A c \in Client :
    (client[c].at = "requested" /\ client[c].request.mode = "octet"
       /\ client[c].request.file # "tree" /\ size[client[c].request.file] # Absent)
      ~> (client[c].at = "complete" \/ faults + resends + grown > 0 \/ addr \in OtherPorts)

(* What waitForAck's log says: "Timeout waiting for ACK", after five tries. *)
AckWaitEnds == at = "wait" ~> at # "wait"

(* What CUdpSocket's comment says: dstPort is the "Destination port to     *)
(* send to", and the data socket is given the port of the client.          *)
DataGoesToItsClient == \A d \in data : d.port = opened[d.tid].client
=============================================================================
