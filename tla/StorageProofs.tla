--------------------------- MODULE StorageProofs ---------------------------
(***************************************************************************)
(* Proofs about the programs that keep something on flash: BootCount,      *)
(* DataLogger, FlightLog, SensorLog, BoostDetect and GrimReefer, for any   *)
(* sizes of files, buffers and queues, any number of names, packets,       *)
(* lines, samples, readings, failing calls and power cycles.               *)
(* MCStorage runs one of them at a time, and so the proofs come one part   *)
(* after the other, and then together.                                     *)
(***************************************************************************)
EXTENDS MCStorage, SequenceTheorems, WellFoundedInduction, TLAPS

-----------------------------------------------------------------------------
(* Boot counters.                                                          *)

(* What is on the disk when count boots have been counted. *)
Word(n) == IF n = 0 THEN <<>> ELSE <<B!First + n>>

CounterTypeOK ==
  /\ program \in {"classic", "sample"} /\ exists \in BOOLEAN /\ unanswered \in BOOLEAN
  /\ disk \in Seq(Int) /\ cache \in Seq(Int) /\ pos \in Nat /\ count \in Int /\ counted \in Nat
  /\ pc \in {"stat", "open", "create", "zero", "read", "seek", "write", "close", "done"}

(* What this boot will have made of the count when it is closed. *)
Coming == IF unanswered THEN 1 ELSE counted + 1

(* What the classic counter has in the cache once it has made the file, or *)
(* believes to have.                                                       *)
MadeEmpty == program = "classic" /\ Coming = 1 /\ cache = <<B!First>>
AsItWas == cache = disk /\ ~unanswered

(* The cache is the disk until the new count is in it, and the count is    *)
(* one more than that of the disk once it is read, unless the file was     *)
(* made again.                                                             *)
CountsInOrder ==
  /\ disk = Word(counted)
  /\ ~exists => disk = <<>>
  /\ unanswered => program = "classic" /\ pc # "stat" /\ pc # "open"
  /\ pc \in {"stat", "open"} => program = "classic"
  /\ pc = "create" /\ program = "classic" => ~exists \/ unanswered
  /\ pc \in {"zero", "read", "seek", "write", "close"} => exists
  /\ pc \in {"stat", "open", "create", "zero", "read"} => count = B!First
  /\ pc = "zero" => program = "classic" /\ Coming = 1 /\ cache = disk /\ pos = 0
  /\ pc = "read" => (AsItWas /\ pos = 0) \/ (MadeEmpty /\ pos = 1)
  /\ pc \in {"seek", "write"} => count = B!First + Coming /\ (AsItWas \/ MadeEmpty)
  /\ pc = "write" => pos = 0
  /\ pc = "close" => AsItWas \/ cache = Word(Coming)

CounterInv == CounterTypeOK /\ CountsInOrder

(* A word put at the beginning of a file of at most one word is the file.  *)
LEMMA PutFirst ==
  ASSUME NEW words \in Seq(Int), Len(words) <= 1, NEW word \in Int
  PROVE  B!PutWord(words, 0, word) = <<word>>
<1>1. CASE Len(words) = 0
  BY <1>1 DEF B!PutWord
<1>2. CASE Len(words) = 1
  BY <1>2 DEF B!PutWord
<1>3. Len(words) \in Nat
  OBVIOUS
<1> QED BY <1>1, <1>2, <1>3, SMTT(30)

(* A file of words stays one when a word is put into it. *)
LEMMA PutType ==
  ASSUME NEW words \in Seq(Int), NEW at \in Nat, NEW word \in Int
  PROVE  B!PutWord(words, at, word) \in Seq(Int)
  BY DEF B!PutWord

(* What is on the disk after n boots is a word, or nothing. *)
LEMMA WordType ==
  ASSUME CounterTypeOK, NEW n \in Nat
  PROVE  /\ B!First \in Int /\ Word(n) \in Seq(Int) /\ Len(Word(n)) <= 1
         /\ n = 0 => Word(n) = <<>>
         /\ n > 0 => Word(n) = <<B!First + n>> /\ Word(n)[1] = B!First + n /\ Len(Word(n)) = 1
<1>1. B!First \in Int
  BY DEF B!First
<1> QED BY <1>1 DEF Word

(* Nothing is counted, and nothing is there, before the first boot. *)
LEMMA CounterStarts ==
  ASSUME B!Init
  PROVE  CounterInv
<1>1. B!First \in Int
  BY DEF B!First
<1>2. CounterTypeOK
  <2>1. disk \in Seq(Int) /\ cache \in Seq(Int)
    BY DEF B!Init
  <2>2. pos \in Nat /\ counted \in Nat /\ count \in Int
    BY <1>1 DEF B!Init
  <2> QED BY <2>1, <2>2 DEF B!Init, B!Start, CounterTypeOK
<1>3. CountsInOrder
  BY <1>1 DEF B!Init, B!Start, CountsInOrder, Word
<1> QED BY <1>2, <1>3 DEF CounterInv

(* Every step of a boot, and a power cycle between any two, keeps the    *)
(* count of the disk.                                                      *)
LEMMA CounterNext ==
  ASSUME CounterInv, B!Next
  PROVE  CounterInv'
<1>t. /\ CounterTypeOK /\ CountsInOrder /\ B!First \in Int /\ unanswered \in BOOLEAN
      /\ counted \in Nat /\ pos \in Nat /\ count \in Int /\ cache \in Seq(Int) /\ disk = Word(counted)
  BY WordType DEF CounterInv, CounterTypeOK, CountsInOrder
<1>c. Coming \in Nat /\ Coming > 0
  BY <1>t DEF Coming
<1>p. program' = program /\ B!First' = B!First
  BY DEF B!Next, B!Stat, B!Open, B!WriteZero, B!Read, B!Seek, B!Write, B!Close, B!Boot, B!First
<1>w. \A n : Word(n)' = Word(n')
  BY <1>p DEF Word
<1>u. /\ UNCHANGED counted => Word(counted)' = Word(counted)
      /\ UNCHANGED <<counted, unanswered>> => Coming' = Coming /\ Word(Coming)' = Word(Coming)
      /\ UNCHANGED <<counted, unanswered, cache>> => (MadeEmpty => MadeEmpty')
      /\ UNCHANGED <<disk, unanswered, cache>> => (AsItWas => AsItWas')
  BY <1>p DEF Word, Coming, MadeEmpty, AsItWas
<1>0. CASE B!Stat
  <2>1. /\ UNCHANGED <<program, exists, disk, cache, pos, count, boots, counted>> /\ pc = "stat"
        /\ pc' \in {"open", "create"} /\ program = "classic"
        /\ pc' = "open" => ~unanswered'
        /\ pc' = "create" => ~exists \/ unanswered'
        /\ unanswered' \in BOOLEAN
    <3>1. pc = "stat" => program = "classic"
      BY <1>0, <1>t DEF CountsInOrder
    <3>2. pc = "stat" => unanswered = FALSE
      BY <1>t DEF CountsInOrder
    <3>3. CASE pc' = (IF exists THEN "open" ELSE "create") /\ UNCHANGED unanswered
      BY <1>0, <1>t, <3>1, <3>2, <3>3 DEF B!Stat
    <3>4. CASE pc' = "create" /\ unanswered' = TRUE
      BY <1>0, <1>t, <3>1, <3>4 DEF B!Stat
    <3> QED BY <1>0, <3>3, <3>4 DEF B!Stat
  <2> QED BY <1>t, <1>p, <1>u, <2>1 DEF CounterInv, CounterTypeOK, CountsInOrder
<1>1. CASE B!Open
  <2>1. CASE /\ B!Works /\ exists' = TRUE /\ cache' = disk /\ pos' = 0
             /\ pc' = IF program = "classic" /\ pc = "create" THEN "zero" ELSE "read"
             /\ UNCHANGED <<program, disk, count, boots, unanswered, counted>>
    <3>1. pc' = "zero" => Coming = 1
      BY <1>t, <2>1, WordType DEF CountsInOrder, Coming
    <3>2. pc' = "read" => AsItWas'
      BY <1>1, <1>t, <2>1 DEF CountsInOrder, AsItWas, B!Open
    <3>3. CounterTypeOK'
      BY <1>t, <2>1 DEF CounterTypeOK
    <3>4. CountsInOrder'
      BY <1>1, <1>t, <1>p, <1>u, <2>1, <3>1, <3>2 DEF CountsInOrder, B!Open
    <3> QED BY <3>3, <3>4 DEF CounterInv
  <2>2. CASE pc' = "done" /\ UNCHANGED <<program, exists, cache, pos, disk, count, boots, unanswered, counted>>
    BY <1>t, <1>p, <1>u, <2>2 DEF CounterInv, CounterTypeOK, CountsInOrder
  <2> QED BY <1>1, <2>1, <2>2 DEF B!Open
<1>2. CASE B!WriteZero
  <2>1. /\ UNCHANGED <<program, exists, disk, count, boots, unanswered, counted>>
        /\ Coming = 1 /\ program = "classic" /\ cache = disk /\ pos = 0 /\ count = B!First /\ pc = "zero"
    BY <1>2, <1>t DEF B!WriteZero, CountsInOrder
  <2>2. CASE B!Works /\ cache' = B!PutWord(cache, pos, count) /\ pos' = pos + 1 /\ pc' = "read"
    <3>1. cache' = <<B!First>>
      <4>1. Len(cache) <= 1 /\ cache' = B!PutWord(cache, 0, B!First)
        BY <1>t, <2>1, <2>2, WordType
      <4> QED BY <1>t, <4>1, PutFirst
    <3>2. cache' \in Seq(Int) /\ pos' = 1
      <4>1. cache' = <<B!First>> /\ <<B!First>> \in Seq(Int)
        BY <1>t, <3>1
      <4>2. pos' = 0 + 1
        BY <2>1, <2>2
      <4> QED BY <4>1, <4>2
    <3>3. MadeEmpty'
      BY <1>p, <1>u, <2>1, <3>1 DEF MadeEmpty
    <3>4. CounterTypeOK'
      BY <1>t, <1>p, <2>1, <2>2, <3>2 DEF CounterTypeOK
    <3>5. CountsInOrder'
      BY <1>t, <1>p, <1>u, <2>1, <2>2, <3>2, <3>3 DEF CountsInOrder
    <3> QED BY <3>4, <3>5 DEF CounterInv
  <2>3. CASE pc' = "done" /\ UNCHANGED <<cache, pos>>
    BY <1>t, <1>p, <1>u, <2>1, <2>3 DEF CounterInv, CounterTypeOK, CountsInOrder
  <2> QED BY <1>2, <2>1, <2>2, <2>3 DEF B!WriteZero, B!GivesUp
<1>3. CASE B!Read
  <2>1. /\ UNCHANGED <<program, exists, disk, cache, boots, unanswered, counted>> /\ pc = "read"
        /\ count = B!First /\ ((AsItWas /\ pos = 0) \/ (MadeEmpty /\ pos = 1))
    BY <1>3, <1>t DEF B!Read, CountsInOrder
  <2>2. CASE /\ pc' = "seek" /\ count' = (IF pos < Len(cache) THEN cache[pos + 1] ELSE count) + 1
             /\ pos' = IF pos < Len(cache) THEN pos + 1 ELSE pos
    <3>1. count' = B!First + Coming
      <4>1. CASE MadeEmpty /\ pos = 1
        <5>1. Len(cache) = 1 /\ Coming = 1
          BY <4>1 DEF MadeEmpty
        <5>2. ~(pos < Len(cache))
          BY <4>1, <5>1
        <5>3. count' = B!First + 1
          BY <2>1, <2>2, <5>2
        <5> QED BY <5>1, <5>3
      <4>2. CASE AsItWas /\ pos = 0 /\ counted = 0
        BY <1>t, <2>1, <2>2, <4>2, WordType DEF AsItWas, Coming
      <4>3. CASE AsItWas /\ pos = 0 /\ counted > 0
        <5>1. cache[1] = B!First + counted /\ Len(cache) = 1
          BY <1>t, <4>3, WordType DEF AsItWas
        <5> QED BY <1>t, <2>2, <4>3, <5>1 DEF AsItWas, Coming
      <4> QED BY <1>t, <2>1, <4>1, <4>2, <4>3
    <3>2. count' \in Int /\ pos' \in Nat
      BY <1>t, <1>c, <2>2, <3>1
    <3>3. CounterTypeOK'
      BY <1>t, <2>1, <2>2, <3>2 DEF CounterTypeOK
    <3>4. CountsInOrder'
      BY <1>t, <1>p, <1>u, <2>1, <2>2, <3>1 DEF CountsInOrder
    <3> QED BY <3>3, <3>4 DEF CounterInv
  <2>3. CASE B!GivesUp /\ UNCHANGED <<count, pos>>
    <3>1. program = "classic" => pc' = "done"
      BY <2>3 DEF B!GivesUp
    <3>2. program # "classic" => pc' = "close" /\ AsItWas'
      BY <1>u, <2>1, <2>3 DEF B!GivesUp, MadeEmpty
    <3> QED BY <1>t, <1>p, <1>u, <2>1, <2>3, <3>1, <3>2 DEF CounterInv, CounterTypeOK, CountsInOrder
  <2> QED BY <1>3, <2>2, <2>3 DEF B!Read
<1>4. CASE B!Seek
  <2>1. /\ UNCHANGED <<program, exists, disk, cache, count, boots, unanswered, counted>> /\ pc = "seek"
        /\ count = B!First + Coming /\ (AsItWas \/ MadeEmpty)
    BY <1>4, <1>t DEF B!Seek, CountsInOrder
  <2>3. CASE pos' = 0 /\ pc' = "write"
    BY <1>t, <1>p, <1>u, <2>1, <2>3 DEF CounterInv, CounterTypeOK, CountsInOrder
  <2>4. CASE B!GivesUp /\ UNCHANGED pos
    <3>1. program = "classic" => pc' = "done"
      BY <2>4 DEF B!GivesUp
    <3>2. program # "classic" => pc' = "close" /\ AsItWas'
      BY <1>u, <2>1, <2>4 DEF B!GivesUp, MadeEmpty
    <3> QED BY <1>t, <1>p, <1>u, <2>1, <2>4, <3>1, <3>2 DEF CounterInv, CounterTypeOK, CountsInOrder
  <2> QED BY <1>4, <2>3, <2>4 DEF B!Seek, B!SeekStart
<1>5. CASE B!Write
  <2>1. /\ UNCHANGED <<program, exists, disk, count, boots, unanswered, counted>> /\ pc = "write" /\ pos = 0
        /\ count = B!First + Coming /\ (AsItWas \/ MadeEmpty)
    BY <1>5, <1>t DEF B!Write, CountsInOrder
  <2>2. CASE cache' = B!PutWord(cache, pos, count) /\ pos' = pos + 1 /\ pc' = "close"
    <3>1. Len(cache) <= 1
      BY <1>t, <2>1, WordType DEF MadeEmpty, AsItWas
    <3>2. cache' = <<count>>
      BY <1>t, <2>1, <2>2, <3>1, PutFirst
    <3>3. cache' = Word(Coming)
      BY <1>t, <1>c, <2>1, <3>2 DEF Word
    <3>4. cache' \in Seq(Int) /\ pos' \in Nat
      BY <1>t, <2>2, <3>2
    <3>5. CounterTypeOK'
      BY <1>t, <2>1, <2>2, <3>4 DEF CounterTypeOK
    <3>6. CountsInOrder'
      BY <1>t, <1>p, <1>u, <2>1, <2>2, <3>3 DEF CountsInOrder
    <3> QED BY <3>5, <3>6 DEF CounterInv
  <2>3. CASE B!GivesUp /\ UNCHANGED <<cache, pos>>
    <3>1. program = "classic" => pc' = "done"
      BY <2>3 DEF B!GivesUp
    <3>2. program # "classic" => pc' = "close" /\ AsItWas'
      BY <1>u, <2>1, <2>3 DEF B!GivesUp, MadeEmpty
    <3> QED BY <1>t, <1>p, <1>u, <2>1, <2>3, <3>1, <3>2 DEF CounterInv, CounterTypeOK, CountsInOrder
  <2> QED BY <1>5, <2>2, <2>3 DEF B!Write
<1>6. CASE B!Close
  <2>1. /\ UNCHANGED <<program, exists, cache, pos, count, boots, unanswered>> /\ pc' = "done"
        /\ AsItWas \/ cache = Word(Coming)
    BY <1>6, <1>t DEF B!Close, CountsInOrder
  <2>2. CASE /\ disk' = cache
             /\ counted' = IF unanswered THEN 1 ELSE IF cache # disk THEN counted + 1 ELSE counted
    <3>1. cache = Word(counted') /\ counted' \in Nat
      <4>1. CASE AsItWas
        BY <1>t, <2>2, <4>1 DEF AsItWas
      <4>2. CASE cache = Word(Coming) /\ unanswered
        BY <2>2, <4>2 DEF Coming
      <4>3. CASE cache = Word(Coming) /\ ~unanswered
        <5>1. cache # disk
          BY <1>t, <4>3, WordType DEF Coming
        <5> QED BY <1>t, <2>2, <4>3, <5>1 DEF Coming
      <4> QED BY <2>1, <4>1, <4>2, <4>3
    <3>2. disk' = Word(counted)'
      BY <1>w, <2>2, <3>1
    <3>3. exists' = TRUE
      BY <1>6, <1>t, <2>1 DEF CountsInOrder, B!Close
    <3>4. CounterTypeOK'
      BY <1>t, <2>1, <2>2, <3>1 DEF CounterTypeOK
    <3>5. CountsInOrder'
      BY <1>t, <1>p, <2>1, <3>2, <3>3 DEF CountsInOrder
    <3> QED BY <3>4, <3>5 DEF CounterInv
  <2>3. CASE UNCHANGED <<disk, counted>>
    BY <1>t, <1>p, <1>u, <2>1, <2>3 DEF CounterInv, CounterTypeOK, CountsInOrder
  <2> QED BY <1>6, <2>2, <2>3 DEF B!Close
<1>7. CASE B!Boot
  <2>1. /\ UNCHANGED <<program, exists, disk, counted>> /\ pc' \in {"stat", "create"} /\ count' = B!First
        /\ cache' = <<>> /\ pos' = 0 /\ unanswered' = FALSE
        /\ pc' = "create" => program # "classic"
    BY <1>7 DEF B!Boot, B!Start
  <2>2. CounterTypeOK'
    <3>1. cache' \in Seq(Int)
      <4>1. <<>> \in Seq(Int)
        OBVIOUS
      <4> QED BY <2>1, <4>1
    <3>2. count' \in Int /\ unanswered' \in BOOLEAN
      BY <1>t, <2>1
    <3> QED BY <1>t, <2>1, <3>1, <3>2 DEF CounterTypeOK
  <2>3. disk' = Word(counted)' /\ B!First' = B!First
    BY <1>t, <1>p, <1>u, <2>1
  <2>4. CountsInOrder'
    <3>1. pc' = "stat" \/ pc' = "create"
      BY <2>1
    <3>2. ~exists' => disk' = <<>>
      BY <1>t, <2>1 DEF CountsInOrder
    <3>3. pc' = "stat" => program' = "classic"
      BY <1>7, <1>p DEF B!Boot, B!Start
    <3>4. pc' = "create" /\ program' = "classic" => ~exists' \/ unanswered'
      BY <1>p, <2>1
    <3> QED BY <2>1, <2>3, <3>1, <3>2, <3>3, <3>4 DEF CountsInOrder
  <2> QED BY <2>2, <2>4 DEF CounterInv
<1> QED BY <1>0, <1>1, <1>2, <1>3, <1>4, <1>5, <1>6, <1>7 DEF B!Next

-----------------------------------------------------------------------------
(* The data logger.                                                        *)

LoggerTypeOK ==
  /\ mode \in {"Growing", "FixedSize", "Circular"} /\ opened \in BOOLEAN
  /\ disk \in Seq(Nat) /\ cache \in Seq(Nat) /\ before \in Seq(Nat) /\ written \in Seq(Nat)
  /\ pos \in Nat /\ packets \in Nat /\ missed \in Nat

(* The last packet of this run that belongs at i. *)
LastAt(i, j) ==
  /\ j \in DOMAIN written /\ D!Place(j) = i
  /\ \A k \in DOMAIN written : D!Place(k) = i => k <= j

(* A circular file grows by what was written behind its end. *)
SizesKept ==
  /\ pos <= Len(cache)
  /\ mode = "FixedSize" => Len(cache) <= num_packets /\ Len(disk) <= num_packets
  /\ mode = "Circular" =>
       Len(cache) <= missed + (IF Len(before) > num_packets THEN Len(before) ELSE num_packets)

(* The position is behind the last packet written, or at the beginning     *)
(* after a lap, and every place of the file has the packet it should.      *)
InPlace ==
  /\ \/ pos = IF written = <<>> THEN 0 ELSE D!Place(Len(written))
     \/ mode = "Circular" /\ pos = 0 /\ written # <<>> /\ D!Place(Len(written)) = num_packets
  /\ \A i \in DOMAIN cache :
       \/ (\A j \in DOMAIN written : D!Place(j) # i) /\ cache[i] = before[i]
       \/ \E j \in DOMAIN written : LastAt(i, j) /\ cache[i] = written[j]

(* The place up to which the lap before this one went, and what is left of *)
(* it behind the position.                                                 *)
LapBefore(end) ==
  /\ end >= num_packets /\ end <= Len(cache) /\ end <= Len(written) - pos
  /\ \A k \in (pos + 1)..end : cache[k] = written[Len(written) - pos - end + k]

(* The packets of this lap are before the position, however far the lap    *)
(* goes behind the end, and those of the lap before are after it.          *)
InLaps ==
  /\ pos <= Len(written)
  /\ \A k \in 1..pos : cache[k] = written[Len(written) - pos + k]
  /\ pos < num_packets /\ pos < Len(written) => \E end \in Nat : LapBefore(end)

LoggerInv ==
  LoggerTypeOK /\ SizesKept /\ (missed = 0 => InPlace) /\ (mode = "Circular" => InLaps)

(* A ring: after the last place comes the first. *)
LEMMA RingNext ==
  ASSUME NEW size \in Nat \ {0}, NEW m \in Nat
  PROVE  /\ m % size \in 0..(size - 1)
         /\ (m + 1) % size = IF (m % size) + 1 = size THEN 0 ELSE (m % size) + 1
<1> DEFINE q == m \div size
           p == (m + 1) \div size
           r == m % size
           s == (m + 1) % size
<1>1. /\ m = size * q + r /\ q \in Int /\ r \in Int /\ 0 <= r /\ r < size
      /\ m + 1 = size * p + s /\ p \in Int /\ s \in Int /\ 0 <= s /\ s < size
  BY SMT
<1> HIDE DEF q, p, r, s
<1>2. PICK d \in Int : d = p - q
  BY <1>1
<1>3. size * d = size * p - size * q
  BY <1>1, <1>2, SMT
<1>4. size * d = r + 1 - s
  <2>1. size * p \in Int /\ size * q \in Int
    BY <1>1
  <2> QED BY <1>1, <1>3, <2>1
<1>5. d >= 0
  <2>1. d <= -1 => size * d <= -size
    BY SMT
  <2> QED BY <1>1, <1>2, <1>4, <2>1
<1>6. d <= 1
  <2>1. d >= 2 => size * d >= 2 * size
    BY SMT
  <2> QED BY <1>1, <1>2, <1>4, <2>1
<1>7. d = 0 => s = r + 1
  BY <1>1, <1>4
<1>8. d = 1 => s = r + 1 - size
  BY <1>1, <1>4
<1>9. s = IF r + 1 = size THEN 0 ELSE r + 1
  <2>1. d = 0 \/ d = 1
    BY <1>2, <1>5, <1>6
  <2> QED BY <1>1, <1>7, <1>8, <2>1
<1> QED BY <1>1, <1>9 DEF r, s

(* Where the next packet goes is where it belongs. *)
LEMMA NextPlace ==
  ASSUME D!LoggerAssumption, LoggerTypeOK, SizesKept, InPlace,
         mode = "FixedSize" => ~D!AtEnd(pos)
  PROVE  LET at == IF mode = "Circular" /\ D!AtEnd(pos) THEN 0 ELSE pos
         IN  D!Place(Len(written) + 1) = at + 1
<1> DEFINE n == Len(written)
           at == IF mode = "Circular" /\ D!AtEnd(pos) THEN 0 ELSE pos
<1>1. /\ n \in Nat /\ pos \in Nat /\ num_packets \in Nat \ {0} /\ (written = <<>> <=> n = 0)
  BY DEF LoggerTypeOK, D!LoggerAssumption
<1>2. \/ pos = IF n = 0 THEN 0 ELSE D!Place(n)
      \/ mode = "Circular" /\ pos = 0 /\ n # 0 /\ D!Place(n) = num_packets
  BY <1>1 DEF InPlace
<1> HIDE DEF n
<1>3. CASE mode # "Circular"
  <2>1. at = pos /\ D!Place(n + 1) = n + 1 /\ (n # 0 => D!Place(n) = n)
    BY <1>1, <1>3 DEF D!Place
  <2> QED BY <1>1, <1>2, <1>3, <2>1 DEF n
<1>4. CASE mode = "Circular"
  <2>1. D!Place(n + 1) = (n % num_packets) + 1
    BY <1>1, <1>4 DEF D!Place
  <2>2. CASE n = 0
    <3>1. n % num_packets = 0 /\ pos = 0 /\ at = 0
      BY <1>1, <1>2, <2>2 DEF D!AtEnd
    <3> QED BY <1>1, <2>1, <3>1 DEF n
  <2>3. CASE n # 0
    <3>1. PICK m \in Nat : n = m + 1
      BY <1>1, <2>3
    <3>2. D!Place(n) = (m % num_packets) + 1
      BY <1>1, <1>4, <3>1 DEF D!Place
    <3>3. /\ m % num_packets \in 0..(num_packets - 1)
          /\ n % num_packets = IF (m % num_packets) + 1 = num_packets THEN 0 ELSE (m % num_packets) + 1
      BY <1>1, <3>1, RingNext
    <3>4. n % num_packets = at
      BY <1>1, <1>2, <1>4, <2>3, <3>2, <3>3 DEF D!AtEnd
    <3> QED BY <1>1, <2>1, <3>4 DEF n
  <2> QED BY <2>2, <2>3
<1> QED BY <1>3, <1>4

(* What is appended is last, and what was there stays. *)
LEMMA Appended ==
  ASSUME NEW T, NEW s \in Seq(T), NEW x \in T
  PROVE  /\ Append(s, x) \in Seq(T) /\ Len(Append(s, x)) = Len(s) + 1
         /\ DOMAIN Append(s, x) = 1..(Len(s) + 1)
         /\ Append(s, x)[Len(s) + 1] = x
         /\ \A i \in 1..Len(s) : Append(s, x)[i] = s[i]
  OBVIOUS

(* What is replaced is there, and the rest stays. *)
LEMMA Replaced ==
  ASSUME NEW T, NEW s \in Seq(T), NEW k \in 1..Len(s), NEW x \in T
  PROVE  /\ [s EXCEPT ![k] = x] \in Seq(T) /\ Len([s EXCEPT ![k] = x]) = Len(s)
         /\ DOMAIN [s EXCEPT ![k] = x] = 1..Len(s)
         /\ [s EXCEPT ![k] = x][k] = x
         /\ \A i \in 1..Len(s) : i # k => [s EXCEPT ![k] = x][i] = s[i]
  OBVIOUS

(* A file with one thing more at its end, or with one replaced. *)
FileWith(l, x, at) == IF at < Len(l) THEN [l EXCEPT ![at + 1] = x] ELSE Append(l, x)

(* What is put into a file is there, and the rest stays. *)
LEMMA FileWithOneMore ==
  ASSUME NEW T, NEW l \in Seq(T), NEW x \in T, NEW at \in Nat, at <= Len(l)
  PROVE  LET after == FileWith(l, x, at)
         IN  /\ after \in Seq(T) /\ DOMAIN after = 1..Len(after) /\ after[at + 1] = x
             /\ Len(after) = IF at < Len(l) THEN Len(l) ELSE at + 1
             /\ \A i \in 1..Len(after) : i # at + 1 => i \in 1..Len(l) /\ after[i] = l[i]
<1>1. Len(l) \in Nat
  OBVIOUS
<1>2. CASE at < Len(l)
  <2>1. at + 1 \in 1..Len(l)
    BY <1>1, <1>2
  <2> QED BY <1>1, <1>2, <2>1, Replaced DEF FileWith
<1>3. CASE ~(at < Len(l))
  <2>1. at = Len(l)
    BY <1>1, <1>3
  <2>2. \A i \in 1..(Len(l) + 1) : i # Len(l) + 1 => i \in 1..Len(l)
    BY <1>1
  <2>3. FileWith(l, x, at) = Append(l, x)
    BY <1>3 DEF FileWith
  <2> QED BY <1>1, <1>3, <2>1, <2>2, <2>3, Appended
<1> QED BY <1>2, <1>3

(* A packet that is written at a place of the file or right behind it.     *)
PacketStored(packet, at) ==
  /\ UNCHANGED <<mode, disk, before>> /\ packets' \in Nat /\ opened' \in BOOLEAN
  /\ packet \in Nat /\ at \in Nat /\ at <= Len(cache)
  /\ cache' \in Seq(Nat) /\ cache'[at + 1] = packet
  /\ Len(cache') = IF at < Len(cache) THEN Len(cache) ELSE at + 1
  /\ \A i \in 1..Len(cache') : i # at + 1 => i \in 1..Len(cache) /\ cache'[i] = cache[i]
  /\ pos' = at + 1 /\ written' = Append(written, packet)

(* What is written is the last of what was written. *)
LEMMA WrittenGrows ==
  ASSUME LoggerTypeOK, NEW packet, NEW at, PacketStored(packet, at)
  PROVE  /\ written' \in Seq(Nat) /\ Len(written') = Len(written) + 1 /\ DOMAIN written' = 1..(Len(written) + 1)
         /\ written'[Len(written) + 1] = packet /\ \A j \in 1..Len(written) : written'[j] = written[j]
         /\ DOMAIN cache' = 1..Len(cache') /\ Len(cache') \in Nat /\ Len(written) \in Nat /\ Len(cache) \in Nat
<1>1. packet \in Nat /\ written \in Seq(Nat) /\ cache' \in Seq(Nat) /\ cache \in Seq(Nat)
  BY DEF LoggerTypeOK, PacketStored
<1> QED BY <1>1, Appended DEF PacketStored

(* A packet stored where it belongs is the last there, and changes nothing *)
(* anywhere else.                                                          *)
LEMMA StoredInPlace ==
  ASSUME D!LoggerAssumption, LoggerTypeOK, InPlace, NEW packet, NEW at, PacketStored(packet, at),
         D!Place(Len(written) + 1) = at + 1
  PROVE  InPlace'
<1>0. PICK n \in Nat : n = Len(written)
  BY DEF LoggerTypeOK
<1>1. /\ n = Len(written) /\ n \in Nat /\ Len(cache) \in Nat
      /\ DOMAIN written = 1..n /\ DOMAIN cache = 1..Len(cache)
      /\ before' = before /\ pos' = at + 1 /\ at \in Nat
      /\ cache'[at + 1] = packet /\ D!Place(n + 1) = at + 1
      /\ \A i \in 1..Len(cache') : i # at + 1 => i \in 1..Len(cache) /\ cache'[i] = cache[i]
  BY <1>0 DEF LoggerTypeOK, PacketStored
<1>2. /\ written' \in Seq(Nat) /\ Len(written') = n + 1 /\ DOMAIN written' = 1..(n + 1)
      /\ written'[n + 1] = packet /\ \A j \in 1..n : written'[j] = written[j]
  BY <1>0, WrittenGrows
<1>3. DOMAIN cache' = 1..Len(cache')
  BY WrittenGrows
<1>4. \A j \in Nat : D!Place(j)' = D!Place(j)
  BY DEF D!Place, PacketStored
<1>6. pos' = (IF written = <<>> THEN 0 ELSE D!Place(Len(written)))'
  <2>1. Len(written') # 0 /\ Len(<<>>) = 0
    BY <1>1, <1>2
  <2>2. D!Place(n + 1)' = at + 1
    BY <1>1, <1>4
  <2>3. pos' = D!Place(Len(written))'
    BY <1>1, <1>2, <2>2
  <2>4. written' # <<>>
    BY <2>1
  <2> QED BY <2>3, <2>4
<1>9. ASSUME NEW i \in 1..Len(cache')
      PROVE  \/ (\A j \in DOMAIN written : D!Place(j) # i)' /\ cache'[i] = before'[i]
             \/ (\E j \in DOMAIN written : LastAt(i, j) /\ cache[i] = written[j])'
  <2>1. CASE i = at + 1
    <3>1. n + 1 \in DOMAIN written' /\ n + 1 \in Nat
      BY <1>1, <1>2
    <3>2. D!Place(n + 1)' = i
      BY <1>1, <1>4, <2>1, <3>1
    <3>3. \A k \in DOMAIN written' : k <= n + 1
      BY <1>1, <1>2
    <3>4. LastAt(i, n + 1)'
      BY <3>1, <3>2, <3>3 DEF LastAt
    <3>5. cache'[i] = written'[n + 1]
      BY <1>1, <1>2, <1>3, <2>1
    <3> QED BY <3>1, <3>4, <3>5
  <2>2. CASE i # at + 1
    <3>1. i \in DOMAIN cache /\ cache'[i] = cache[i] /\ before'[i] = before[i]
      BY <1>1, <1>3, <1>9, <2>2
    <3>2. \A j \in 1..(n + 1) : D!Place(j)' = i => j \in 1..n /\ D!Place(j) = i
      <4>1. D!Place(n + 1)' = at + 1
        BY <1>1, <1>4
      <4> QED BY <1>1, <1>4, <2>2, <4>1
    <3>3. CASE (\A j \in DOMAIN written : D!Place(j) # i) /\ cache[i] = before[i]
      BY <1>1, <1>2, <3>1, <3>2, <3>3
    <3>4. CASE \E j \in DOMAIN written : LastAt(i, j) /\ cache[i] = written[j]
      <4>1. PICK j \in 1..n : LastAt(i, j) /\ cache[i] = written[j]
        BY <1>1, <3>4
      <4>2. LastAt(i, j)'
        BY <1>1, <1>2, <1>4, <3>2, <4>1 DEF LastAt
      <4>3. j \in DOMAIN written' /\ cache'[i] = written'[j]
        BY <1>1, <1>2, <3>1, <4>1
      <4> QED BY <4>2, <4>3
    <3> QED BY <3>1, <3>3, <3>4 DEF InPlace
  <2> QED BY <2>1, <2>2
<1> QED BY <1>3, <1>6, <1>9 DEF InPlace

(* A file of a size keeps it, unless the packet is written behind its end. *)
LEMMA StoredSizes ==
  ASSUME D!LoggerAssumption, LoggerTypeOK, SizesKept, NEW packet, NEW at, PacketStored(packet, at),
         missed' \in Nat, missed' >= missed,
         mode = "FixedSize" => at < num_packets,
         mode = "Circular" => at < num_packets \/ missed' > missed
  PROVE  SizesKept'
<1>1. /\ Len(cache) \in Nat /\ Len(before) \in Nat /\ at \in Nat /\ num_packets \in Nat /\ missed \in Nat
      /\ pos' = at + 1 /\ UNCHANGED <<mode, disk, before>> /\ at <= Len(cache)
  BY DEF LoggerTypeOK, PacketStored, D!LoggerAssumption
<1>2. PICK l, m \in Nat : l = Len(cache) /\ m = Len(cache')
  BY <1>1, WrittenGrows
<1>3. m = IF at < l THEN l ELSE at + 1
  BY <1>2 DEF PacketStored
<1> QED BY <1>1, <1>2, <1>3 DEF SizesKept

(* A packet is written into the lap, or begins the next one.               *)
LEMMA StoredInLaps ==
  ASSUME D!LoggerAssumption, LoggerTypeOK, SizesKept, InLaps, NEW packet, NEW at, PacketStored(packet, at),
         at = pos \/ (at = 0 /\ D!AtEnd(pos))
  PROVE  InLaps'
<1>0. PICK n \in Nat, p \in Nat : n = Len(written) /\ p = pos
  BY DEF LoggerTypeOK
<1>1. /\ Len(cache) \in Nat /\ Len(cache') \in Nat /\ at \in Nat /\ num_packets \in Nat \ {0}
      /\ pos' = at + 1 /\ p <= n /\ p <= Len(cache) /\ at <= Len(cache) /\ cache'[at + 1] = packet
      /\ Len(cache') = IF at < Len(cache) THEN Len(cache) ELSE at + 1
      /\ Len(written') = n + 1 /\ written'[n + 1] = packet
      /\ \A k \in 1..p : cache[k] = written[n - p + k]
  BY <1>0, WrittenGrows DEF LoggerTypeOK, PacketStored, D!LoggerAssumption, InLaps, SizesKept
<1>2. \A j \in 1..n : written'[j] = written[j]
  BY <1>0, WrittenGrows
<1>3. \A k \in Nat : k # at + 1 /\ 1 <= k /\ k <= Len(cache) => cache'[k] = cache[k]
  BY <1>1 DEF PacketStored
<1>4. CASE at = pos
  <2>1. \A k \in 1..(p + 1) : cache'[k] = written'[(n + 1) - (p + 1) + k]
    <3>1. TAKE k \in 1..(p + 1)
    <3>2. CASE k = p + 1
      BY <1>0, <1>1, <1>4, <3>2
    <3>3. CASE k # p + 1
      <4>1. k \in 1..p /\ n - p + k \in 1..n /\ (n + 1) - (p + 1) + k = n - p + k
        BY <1>1, <3>3
      <4>2. k \in Nat /\ k # at + 1 /\ 1 <= k /\ k <= Len(cache)
        BY <1>0, <1>1, <1>4, <3>3
      <4>3. cache'[k] = cache[k] /\ written'[n - p + k] = written[n - p + k]
        BY <1>2, <1>3, <4>1, <4>2
      <4>4. cache[k] = written[n - p + k]
        BY <1>1, <4>1
      <4> QED BY <4>1, <4>3, <4>4
    <3> QED BY <3>2, <3>3
  <2>2. ASSUME p + 1 < num_packets, p + 1 < n + 1
        PROVE  \E end \in Nat : LapBefore(end)'
    <3>1. PICK end \in Nat : LapBefore(end)
      BY <1>0, <1>1, <2>2 DEF InLaps
    <3>2. /\ end >= num_packets /\ end <= Len(cache) /\ end <= n - p
          /\ \A k \in (p + 1)..end : cache[k] = written[n - p - end + k]
      BY <1>0, <3>1 DEF LapBefore
    <3>3. \A k \in (p + 2)..end : cache'[k] = written'[(n + 1) - (p + 1) - end + k]
      <4>1. TAKE k \in (p + 2)..end
      <4>2. /\ k \in (p + 1)..end /\ k \in Nat /\ k # p + 1 /\ 1 <= k /\ k <= Len(cache)
            /\ n - p - end + k \in 1..n /\ (n + 1) - (p + 1) - end + k = n - p - end + k
        BY <1>1, <2>2, <3>2
      <4> QED BY <1>0, <1>2, <1>3, <1>4, <3>2, <4>2
    <3>4. pos' = p + 1 /\ p + 1 + 1 = p + 2 /\ num_packets' = num_packets
      BY <1>0, <1>1, <1>4
    <3>5. end <= Len(cache') /\ end <= Len(written') - pos'
      BY <1>0, <1>1, <1>4, <3>2
    <3>6. LapBefore(end)'
      BY <1>1, <3>2, <3>3, <3>4, <3>5 DEF LapBefore
    <3> QED BY <3>6
  <2> QED BY <1>0, <1>1, <1>4, <2>1, <2>2 DEF InLaps
<1>5. CASE at = 0 /\ p >= num_packets
  <2>1. \A k \in 1..1 : cache'[k] = written'[(n + 1) - 1 + k]
    BY <1>1, <1>5
  <2>2. ASSUME 1 < num_packets
        PROVE  LapBefore(p)'
    <3>1. \A k \in 2..p : cache'[k] = written'[(n + 1) - 1 - p + k]
      <4>1. TAKE k \in 2..p
      <4>2. /\ k \in 1..p /\ k \in Nat /\ k # at + 1 /\ 1 <= k /\ k <= Len(cache)
            /\ n - p + k \in 1..n /\ (n + 1) - 1 - p + k = n - p + k
        BY <1>1, <1>5
      <4> QED BY <1>1, <1>2, <1>3, <4>2
    <3>2. pos' = 1 /\ p >= num_packets /\ p <= Len(cache') /\ p <= Len(written') - 1
      BY <1>1, <1>5
    <3> QED BY <1>1, <3>1, <3>2 DEF LapBefore
  <2> QED BY <1>0, <1>1, <1>5, <2>1, <2>2 DEF InLaps
<1> QED BY <1>0, <1>4, <1>5 DEF D!AtEnd

(* A logger begins with an empty file. *)
LEMMA LoggerStarts ==
  ASSUME D!LoggerAssumption, D!Init
  PROVE  LoggerInv
<1>1. /\ disk = <<>> /\ cache = <<>> /\ written = <<>> /\ before = <<>> /\ pos = 0 /\ packets = 0 /\ missed = 0
      /\ mode \in {"Growing", "FixedSize", "Circular"} /\ opened \in BOOLEAN
  BY DEF D!Init
<1>2. LoggerTypeOK
  BY <1>1 DEF LoggerTypeOK
<1>3. Len(<<>>) = 0 /\ DOMAIN <<>> = {} /\ num_packets \in Nat
  BY DEF D!LoggerAssumption
<1>4. InPlace /\ SizesKept /\ InLaps
  BY <1>1, <1>3 DEF InPlace, SizesKept, InLaps
<1> QED BY <1>2, <1>4 DEF LoggerInv

(* Nothing but a packet changes the file: a write that fails, a full file, *)
(* a closed one.                                                           *)
LEMMA NothingStored ==
  ASSUME LoggerInv, packets' \in Nat, opened' \in BOOLEAN, UNCHANGED <<mode, cache, pos, written, before, missed>>,
         disk' = disk \/ disk' = cache
  PROVE  LoggerInv'
<1>1. LoggerTypeOK'
  BY DEF LoggerInv, LoggerTypeOK
<1>2. \A i : D!Place(i)' = D!Place(i)
  BY DEF D!Place
<1>3. \A i, j : LastAt(i, j)' = LastAt(i, j)
  BY <1>2 DEF LastAt
<1>4. InPlace => InPlace'
  BY <1>2, <1>3 DEF InPlace
<1>5. InLaps => InLaps'
  BY DEF InLaps, LapBefore
<1>6. SizesKept'
  BY DEF LoggerInv, SizesKept
<1> QED BY <1>1, <1>4, <1>5, <1>6 DEF LoggerInv

(* At the end of a lap the position may go back without a packet.          *)
LEMMA LapEnds ==
  ASSUME D!LoggerAssumption, LoggerInv, mode = "Circular", D!AtEnd(pos), pos' = 0, packets' \in Nat,
         UNCHANGED <<mode, opened, disk, cache, written, before, missed>>
  PROVE  LoggerInv'
<1>1. LoggerTypeOK /\ SizesKept /\ InLaps /\ (missed = 0 => InPlace)
  BY DEF LoggerInv
<1>2. LoggerTypeOK'
  BY <1>1 DEF LoggerTypeOK
<1>3. SizesKept'
  BY <1>1 DEF SizesKept, LoggerTypeOK
<1>4. PICK n \in Nat, p \in Nat : n = Len(written) /\ p = pos /\ p >= num_packets
  BY <1>1 DEF LoggerTypeOK, D!AtEnd
<1>5. num_packets \in Nat \ {0}
  BY DEF D!LoggerAssumption
<1>6. LapBefore(p)'
  <2>1. p <= n /\ p <= Len(cache) /\ \A k \in 1..p : cache[k] = written[n - p + k]
    BY <1>1, <1>4 DEF InLaps, SizesKept
  <2>2. \A k \in (0 + 1)..p : cache[k] = written[n - 0 - p + k]
    <3>1. \A k \in 1..p : n - 0 - p + k = n - p + k
      BY <1>4
    <3>2. TAKE k \in (0 + 1)..p
    <3>3. k \in 1..p
      BY <1>4
    <3> QED BY <2>1, <3>1, <3>3
  <2> QED BY <1>4, <1>5, <2>1, <2>2 DEF LapBefore
<1>7. InLaps'
  BY <1>4, <1>6 DEF InLaps
<1>8. missed = 0 => InPlace'
  <2>1. SUFFICES ASSUME InPlace PROVE InPlace'
    BY <1>1
  <2>2. \A i : D!Place(i)' = D!Place(i)
    BY DEF D!Place
  <2>3. \A i, j : LastAt(i, j)' = LastAt(i, j)
    BY <2>2 DEF LastAt
  <2>4. written # <<>> /\ D!Place(n) = num_packets
    <3>1. written # <<>> /\ pos = D!Place(n) /\ pos >= num_packets
      BY <1>4, <1>5, <2>1 DEF InPlace
    <3>2. n \in Nat /\ n > 0
      BY <1>1, <1>4, <3>1 DEF LoggerTypeOK
    <3>3. PICK m \in Nat : m = n - 1
      BY <3>2
    <3>4. D!Place(n) = (m % num_packets) + 1 /\ m % num_packets \in 0..(num_packets - 1)
      BY <1>5, <3>3, RingNext DEF D!Place
    <3> QED BY <1>5, <3>1, <3>4
  <2> QED BY <1>4, <2>1, <2>2, <2>3, <2>4 DEF InPlace
<1> QED BY <1>2, <1>3, <1>7, <1>8 DEF LoggerInv

(* A packet that is written keeps the file in order.                       *)
LEMMA StoredKeeps ==
  ASSUME D!LoggerAssumption, LoggerInv, packets' \in Nat, UNCHANGED <<mode, opened, disk, before>>,
         NEW at \in Nat, D!Stored(at, packets'), at = pos \/ (mode = "Circular" /\ at = 0 /\ D!AtEnd(pos)),
         mode = "FixedSize" => ~D!AtEnd(pos),
         \/ missed' = missed /\ (mode = "Circular" => at < num_packets)
         \/ missed' = missed + 1 /\ mode = "Circular" /\ at = pos
  PROVE  LoggerInv'
<1>t. LoggerTypeOK /\ SizesKept /\ (mode = "Circular" => InLaps) /\ (missed = 0 => InPlace) /\ missed \in Nat
      /\ opened \in BOOLEAN /\ pos \in Nat /\ num_packets \in Nat \ {0}
  BY DEF LoggerInv, LoggerTypeOK, D!LoggerAssumption
<1>1. PICK packet \in Nat : packet = packets'
  OBVIOUS
<1>2. PICK l \in Seq(Nat) : l = cache
  BY <1>t DEF LoggerTypeOK
<1>3. at <= Len(l)
  BY <1>t, <1>2 DEF SizesKept
<1>4. cache' = FileWith(l, packet, at) /\ pos' = at + 1 /\ written' = Append(written, packet)
  BY <1>1, <1>2 DEF D!Stored, FileWith
<1>5. PICK after : after = FileWith(l, packet, at)
  OBVIOUS
<1>6. /\ after \in Seq(Nat) /\ after[at + 1] = packet
      /\ Len(after) = IF at < Len(l) THEN Len(l) ELSE at + 1
      /\ \A i \in 1..Len(after) : i # at + 1 => i \in 1..Len(l) /\ after[i] = l[i]
  <2>1. PICK T : T = Nat
    OBVIOUS
  <2>2. l \in Seq(T) /\ packet \in T
    BY <1>1, <1>2, <2>1
  <2>3. /\ after \in Seq(T) /\ after[at + 1] = packet
        /\ Len(after) = IF at < Len(l) THEN Len(l) ELSE at + 1
        /\ \A i \in 1..Len(after) : i # at + 1 => i \in 1..Len(l) /\ after[i] = l[i]
    BY <1>3, <1>5, <2>2, FileWithOneMore
  <2> QED BY <2>1, <2>3
<1>7. PacketStored(packet, at)
  BY <1>t, <1>1, <1>2, <1>3, <1>4, <1>5, <1>6 DEF PacketStored
<1>8. LoggerTypeOK'
  BY <1>t, <1>7, WrittenGrows DEF LoggerTypeOK, PacketStored
<1>9. SizesKept'
  BY <1>t, <1>7, StoredSizes DEF D!AtEnd
<1>10. mode' = "Circular" => InLaps'
  BY <1>t, <1>7, StoredInLaps
<1>11. missed' = 0 => InPlace'
  <2>1. SUFFICES ASSUME missed' = 0 PROVE InPlace'
    OBVIOUS
  <2>2. missed = 0 /\ missed' = missed /\ InPlace
    BY <1>t, <2>1
  <2>3. at = IF mode = "Circular" /\ D!AtEnd(pos) THEN 0 ELSE pos
    BY <1>t, <2>2 DEF D!AtEnd
  <2>4. D!Place(Len(written) + 1) = at + 1
    BY <1>t, <2>2, <2>3, NextPlace
  <2> QED BY <1>t, <1>7, <2>2, <2>4, StoredInPlace
<1> QED BY <1>8, <1>9, <1>10, <1>11 DEF LoggerInv

(* A write in each mode, a failed one, a close and a restart.              *)
LEMMA LoggerNext ==
  ASSUME D!LoggerAssumption, LoggerInv, D!Next
  PROVE  LoggerInv'
<1>t. /\ packets \in Nat /\ opened \in BOOLEAN /\ pos \in Nat /\ missed \in Nat /\ num_packets \in Nat \ {0}
      /\ mode \in {"Growing", "FixedSize", "Circular"} /\ LoggerTypeOK
  BY DEF LoggerInv, LoggerTypeOK, D!LoggerAssumption
<1>1. CASE D!Write
  <2>1. packets' \in Nat /\ UNCHANGED <<mode, opened, disk, before>>
    BY <1>t, <1>1 DEF D!Write
  <2>2. CASE UNCHANGED <<cache, pos, written, missed>>
    BY <1>t, <2>1, <2>2, NothingStored
  <2>3. CASE D!Failed(pos)
    BY <2>2, <2>3 DEF D!Failed
  <2>4. CASE mode = "Growing" /\ D!Stored(pos, packets') /\ UNCHANGED missed
    BY <1>t, <2>1, <2>4, StoredKeeps
  <2>5. CASE mode = "FixedSize" /\ ~D!AtEnd(pos) /\ D!Stored(pos, packets') /\ UNCHANGED missed
    BY <1>t, <2>1, <2>5, StoredKeeps
  <2>6. CASE mode = "Circular" /\ D!WriteCircular
    <3>1. CASE ~D!AtEnd(pos) /\ D!Stored(pos, packets') /\ UNCHANGED missed
      BY <1>t, <2>1, <2>6, <3>1, StoredKeeps DEF D!AtEnd
    <3>2. CASE D!AtEnd(pos) /\ D!Stored(0, packets') /\ UNCHANGED missed
      BY <1>t, <2>1, <2>6, <3>2, StoredKeeps
    <3>3. CASE D!Stored(pos, packets') /\ missed' = missed + 1
      BY <1>t, <2>1, <2>6, <3>3, StoredKeeps
    <3>4. CASE D!AtEnd(pos) /\ D!Failed(0)
      BY <2>1, <2>6, <3>4, LapEnds DEF D!Failed
    <3> QED BY <2>6, <3>1, <3>2, <3>3, <3>4 DEF D!WriteCircular
  <2> QED BY <1>1, <2>2, <2>3, <2>4, <2>5, <2>6 DEF D!Write
<1>2. CASE D!Close
  BY <1>t, <1>2, NothingStored DEF D!Close
<1>3. CASE D!Start
  <2>1. /\ cache' = disk /\ before' = disk /\ disk' = disk /\ pos' = 0 /\ written' = <<>> /\ missed' = 0
        /\ opened' \in BOOLEAN /\ UNCHANGED <<mode, packets>>
    BY <1>3 DEF D!Start
  <2>2. LoggerTypeOK'
    BY <1>t, <2>1 DEF LoggerTypeOK
  <2>3. Len(disk) \in Nat /\ DOMAIN (<<>>) = {} /\ Len(<<>>) = 0
    BY <1>t DEF LoggerTypeOK
  <2>4. InPlace'
    BY <1>t, <2>1, <2>3 DEF InPlace
  <2>5. SizesKept' /\ InLaps'
    BY <1>t, <2>1, <2>3 DEF LoggerInv, SizesKept, InLaps
  <2> QED BY <2>2, <2>4, <2>5 DEF LoggerInv
<1> QED BY <1>1, <1>2, <1>3 DEF D!Next

(* The last packet that belongs at a place is the one the file has there.  *)
LEMMA FileIsNewOverOld ==
  ASSUME D!LoggerAssumption, LoggerInv
  PROVE  D!NewOverOld
<1>t. /\ SizesKept /\ LoggerTypeOK /\ num_packets \in Nat \ {0}
      /\ (missed = 0 => InPlace) /\ (mode = "Circular" => InLaps)
  BY DEF LoggerInv, D!LoggerAssumption
<1>1. D!SizeKept
  BY <1>t DEF SizesKept, D!SizeKept
<1>2. ASSUME missed = 0, NEW i \in DOMAIN cache
      PROVE  LET here == {j \in DOMAIN written : D!Place(j) = i}
             IN  cache[i] = IF here = {} THEN before[i] ELSE written[CHOOSE j \in here : \A k \in here : k <= j]
  <2> DEFINE here == {j \in DOMAIN written : D!Place(j) = i}
  <2>1. CASE (\A j \in DOMAIN written : D!Place(j) # i) /\ cache[i] = before[i]
    BY <2>1
  <2>2. CASE \E j \in DOMAIN written : LastAt(i, j) /\ cache[i] = written[j]
    <3>1. PICK j \in here : (\A k \in here : k <= j) /\ cache[i] = written[j]
      BY <2>2 DEF LastAt
    <3>2. here \subseteq Nat
      BY <1>t DEF LoggerTypeOK
    <3>3. \A l \in here : (\A k \in here : k <= l) => l = j
      BY <3>1, <3>2
    <3>4. (CHOOSE l \in here : \A k \in here : k <= l) = j
      BY <3>1, <3>3
    <3> QED BY <3>1, <3>4
  <2> QED BY <1>t, <1>2, <2>1, <2>2 DEF InPlace
<1>3. ASSUME mode = "Circular", NEW j \in DOMAIN written, j + num_packets > Len(written)
      PROVE  \E i \in DOMAIN cache : cache[i] = written[j]
  <2>1. PICK n \in Nat, p \in Nat, l \in Nat : n = Len(written) /\ p = pos /\ l = Len(cache)
    <3>1. Len(written) \in Nat /\ pos \in Nat /\ Len(cache) \in Nat
      BY <1>t DEF LoggerTypeOK
    <3> QED BY <3>1
  <2>2. DOMAIN cache = 1..l /\ j \in 1..n /\ p <= l /\ p <= n /\ InLaps
    BY <1>t, <1>3, <2>1 DEF LoggerTypeOK, SizesKept, InLaps
  <2>3. CASE j > n - p
    <3>1. PICK k \in 1..p : k = j - (n - p)
      BY <2>2, <2>3
    <3>2. k \in 1..l /\ n - p + k = j
      BY <2>2, <3>1
    <3>3. cache[k] = written[n - p + k]
      BY <2>1, <2>2, <3>1 DEF InLaps
    <3> QED BY <2>2, <3>2, <3>3
  <2>4. CASE j <= n - p
    <3>1. p < num_packets /\ p < n
      BY <1>t, <1>3, <2>1, <2>2, <2>4
    <3>2. PICK end \in Nat : LapBefore(end)
      BY <2>1, <2>2, <3>1 DEF InLaps
    <3>3. /\ end >= num_packets /\ end <= l /\ end <= n - p
          /\ \A k \in (p + 1)..end : cache[k] = written[n - p - end + k]
      BY <2>1, <3>2 DEF LapBefore
    <3>4. PICK k \in (p + 1)..end : k = j - (n - p - end)
      BY <1>t, <1>3, <2>1, <2>2, <2>4, <3>3
    <3>5. k \in 1..l /\ n - p - end + k = j
      BY <2>2, <3>3, <3>4
    <3>6. cache[k] = written[n - p - end + k]
      BY <3>3
    <3> QED BY <2>2, <3>5, <3>6
  <2> QED BY <2>1, <2>2, <2>3, <2>4
<1> QED BY <1>1, <1>2, <1>3 DEF D!NewOverOld, D!EachInItsPlace, D!NewestKept

-----------------------------------------------------------------------------
(* The flight log.                                                         *)

Entry == [by : F!Writers, line : Nat, part : 1..F!Newline, boot : Nat]

LogTypeOK ==
  /\ DOMAIN files \subseteq F!Names /\ files \in [DOMAIN files -> Seq(Entry)]
  /\ disk \in [DOMAIN files -> Seq(Entry)]
  /\ name = F!NoName \/ name \in DOMAIN files
  /\ unanswered \subseteq F!Names /\ part \in [F!Writers -> 1..F!Newline] /\ line \in [F!Writers -> Nat]
  /\ inside \in {"no", "alone", "disturbed"}
  /\ lines \in Nat /\ boots \in Nat

Upto(l, boot) == \A i \in DOMAIN l : l[i].boot <= boot
OneFlight(l) == \A i, j \in DOMAIN l : l[i].boot = l[j].boot
Rising(l) == \A i, j \in DOMAIN l : i < j => l[i].boot <= l[j].boot
InFrontOf(l, m) == \A i \in DOMAIN l : i \in DOMAIN m /\ m[i] = l[i]

(* What is on the disk is of earlier flights, and all there is in any log  *)
(* but the open one.                                                       *)
FlightsInOrder ==
  \A n \in DOMAIN files :
    /\ Upto(disk[n], boots - 1) /\ Upto(files[n], boots) /\ Rising(files[n])
    /\ InFrontOf(disk[n], files[n])
    /\ n # name => files[n] = disk[n]

(* A name that was free when it was taken has one flight, which is the     *)
(* present one while the log is open.                                      *)
Free(n) == n \notin unanswered \cup {MaxNames - 1}
LogsKept ==
  \A n \in DOMAIN files : Free(n) =>
    /\ OneFlight(files[n])
    /\ n = name => \A i \in DOMAIN files[n] : files[n][i].boot = boots

Has(l, k, p) == \E i \in DOMAIN l : l[i].line = k /\ l[i].part = p

(* The lines of a log: the parts of each in order, and none missing before *)
(* one that is there; those of the timer in one piece.                     *)
Ordered(l) == \A i, j \in DOMAIN l : l[i].line = l[j].line /\ i < j => l[i].part < l[j].part
NoneMissing(l) == \A j \in DOMAIN l : l[j].line \notin broken => \A p \in 1..l[j].part : Has(l, l[j].line, p)
InOnePiece(l) ==
  \A i, k, j \in DOMAIN l :
    l[j].by = "timer" /\ l[i].line = l[j].line /\ i <= k /\ k <= j => l[k].line = l[j].line
Numbered(l) == \A i \in DOMAIN l : l[i].line <= lines
InLines(l) == Ordered(l) /\ NoneMissing(l) /\ InOnePiece(l) /\ Numbered(l)

Ended(l) == \A j \in DOMAIN l : l[j].line \notin broken => Has(l, l[j].line, F!Newline)
EndedOrOpen(l) ==
  \A j \in DOMAIN l : l[j].line \notin broken => F!Unfinished(l[j].line) \/ Has(l, l[j].line, F!Newline)

LinesKept ==
  /\ \A n \in DOMAIN files : InLines(files[n]) /\ InLines(disk[n]) /\ Ended(disk[n])
  /\ name # F!NoName => EndedOrOpen(files[name])

(* A writer with a line: the parts of it before the next one are in the    *)
(* log, as far as no error or interrupt broke it, and in no other.         *)
Writing(w) == part[w] # 1 \/ (w = "thread" /\ inside # "no")
Holds(l, w, k) ==
  /\ \A j \in DOMAIN l : l[j].line = k => l[j].by = w /\ l[j].part < part[w]
  /\ k \notin broken => \A p \in 1..(part[w] - 1) : Has(l, k, p)
  /\ w = "timer" => (\A j \in DOMAIN l : l[j].line # k) \/ l[Len(l)].line = k
NotIn(l, k) == \A j \in DOMAIN l : l[j].line # k

LinesOpen ==
  /\ name = F!NoName => \A w \in F!Writers : ~Writing(w)
  /\ \A w \in F!Writers : line[w] <= lines
  /\ \A w, v \in F!Writers : Writing(w) /\ Writing(v) /\ w # v => line[w] # line[v]
  /\ \A w \in F!Writers : Writing(w) =>
       Holds(files[name], w, line[w]) /\ \A n \in DOMAIN files : NotIn(disk[n], line[w])

LogInv == LogTypeOK /\ FlightsInOrder /\ LogsKept /\ LinesKept /\ LinesOpen

(* Of the names that are free there is a first one. *)
LEMMA FirstName ==
  ASSUME NEW free \in SUBSET Nat, free # {}
  PROVE  \E n \in free : \A m \in free : n <= m
<1>1. PICK n \in free : \A m \in free : <<m, n>> \notin OpToRel(<, Nat)
  BY WFMin, NatLessThanWellFounded, Zenon
<1>2. \A m \in free : ~(m < n)
  BY <1>1 DEF OpToRel
<1>3. n \in free
  BY <1>1, Zenon
<1> QED BY <1>2, <1>3

(* generateFlightLogPath gives a name, which is free unless it is the last. *)
LEMMA NameIsFree ==
  ASSUME F!NamesAssumption, NEW taken
  PROVE  F!FreeName(taken) \in F!Names /\ (F!FreeName(taken) \notin taken \/ F!FreeName(taken) = MaxNames - 1)
<1>1. CASE F!Names \subseteq taken
  BY <1>1 DEF F!FreeName, F!Names, F!NamesAssumption
<1>2. CASE ~(F!Names \subseteq taken)
  <2>1. F!Names \ taken \in SUBSET Nat /\ F!Names \ taken # {}
    BY <1>2 DEF F!Names
  <2>2. \E n \in F!Names \ taken : \A m \in F!Names \ taken : n <= m
    BY <2>1, FirstName
  <2>3. F!FreeName(taken) \in F!Names \ taken
    BY <1>2, <2>2 DEF F!FreeName
  <2> QED BY <2>3
<1> QED BY <1>1, <1>2

(* At first there is no log. *)
LEMMA LogStarts ==
  ASSUME F!NamesAssumption, F!Init
  PROVE  LogInv
<1>1. /\ files = <<>> /\ disk = <<>> /\ name = F!NoName /\ unanswered = {} /\ inside = "no" /\ lines = 0 /\ boots = 1
      /\ part = [w \in F!Writers |-> 1] /\ line = [w \in F!Writers |-> 0]
  BY DEF F!Init
<1>2. DOMAIN files = {} /\ files \in [{} -> Seq(Entry)] /\ disk \in [{} -> Seq(Entry)]
  BY <1>1
<1>3. LogTypeOK
  BY <1>1, <1>2 DEF LogTypeOK, F!Newline
<1>4. LinesOpen
  BY <1>1, <1>2 DEF LinesOpen, Writing
<1> QED BY <1>1, <1>2, <1>3, <1>4 DEF LogInv, FlightsInOrder, LogsKept, LinesKept

(* What is there of a line stays while a log grows. *)
LEMMA HasStays ==
  ASSUME NEW l, NEW a, NEW k, NEW p, InFrontOf(l, a), Has(l, k, p)
  PROVE  Has(a, k, p)
  BY DEF Has, InFrontOf

(* A log is opened: a new one is empty, and an old one is shared. *)
LEMMA OpenKeeps ==
  ASSUME F!NamesAssumption, LogInv, F!Open
  PROVE  LogInv'
<1>1. PICK n \in F!Names : /\ F!Opened(n)
                           /\ n \notin DOMAIN files \/ n \in unanswered' \/ n = MaxNames - 1
  <2>1. CASE F!Opened(F!FreeName(DOMAIN files))
    BY <2>1, NameIsFree
  <2>2. CASE \E n \in F!Names : F!Opened(n) /\ unanswered' = unanswered \cup {n}
    BY <2>2
  <2> QED BY <2>1, <2>2 DEF F!Open
<1>2. /\ name = F!NoName /\ UNCHANGED <<part, line, inside, broken, lines, boots>>
      /\ unanswered \subseteq unanswered' /\ unanswered' \subseteq F!Names
  <2>1. unanswered \subseteq F!Names
    BY DEF LogInv, LogTypeOK
  <2> QED BY <2>1 DEF F!Open, F!writing
<1>3. /\ name' = n /\ DOMAIN files' = DOMAIN files \cup {n} /\ n # F!NoName /\ F!NoName \notin DOMAIN files
      /\ files' = [f \in DOMAIN files \cup {n} |-> IF f \in DOMAIN files THEN files[f] ELSE <<>>]
      /\ disk' = [f \in DOMAIN files \cup {n} |-> IF f \in DOMAIN files THEN disk[f] ELSE <<>>]
  <2>1. DOMAIN disk = DOMAIN files /\ n # F!NoName /\ F!NoName \notin DOMAIN files
    BY DEF LogInv, LogTypeOK, F!Names, F!NoName, F!NamesAssumption
  <2> QED BY <1>1, <2>1 DEF F!Opened
<1>4. \A f \in DOMAIN files : files'[f] = files[f] /\ disk'[f] = disk[f] /\ files[f] = disk[f]
  BY <1>2, <1>3 DEF LogInv, FlightsInOrder
<1>5. n \notin DOMAIN files => files'[n] = <<>> /\ disk'[n] = <<>>
  BY <1>3
<1>6. \A f \in DOMAIN files' : f \in DOMAIN files \/ (f = n /\ files'[f] = <<>> /\ disk'[f] = <<>>)
  BY <1>3, <1>5
<1>7. LogTypeOK'
  <2>1. DOMAIN files' \subseteq F!Names
    BY <1>3 DEF LogInv, LogTypeOK
  <2>2. files' \in [DOMAIN files' -> Seq(Entry)] /\ disk' \in [DOMAIN files' -> Seq(Entry)]
    BY <1>3 DEF LogInv, LogTypeOK
  <2> QED BY <1>2, <1>3, <2>1, <2>2 DEF LogInv, LogTypeOK
<1>8. FlightsInOrder'
  <2>1. \A b : Upto(<<>>, b) /\ Rising(<<>>) /\ InFrontOf(<<>>, <<>>)
    BY DEF Upto, Rising, InFrontOf
  <2>2. ASSUME NEW f \in DOMAIN files'
        PROVE  /\ Upto(disk'[f], boots - 1) /\ Upto(files'[f], boots) /\ Rising(files'[f])
               /\ InFrontOf(disk'[f], files'[f]) /\ files'[f] = disk'[f]
    BY <1>4, <1>6, <2>1 DEF LogInv, FlightsInOrder
  <2> QED BY <1>2, <2>2 DEF FlightsInOrder, Upto, Rising, InFrontOf
<1>9. LogsKept'
  <2>1. OneFlight(<<>>) /\ \A i \in DOMAIN <<>> : FALSE
    BY DEF OneFlight
  <2>2. \A f \in DOMAIN files' : Free(f)' => Free(f) /\ (f = n => f \notin DOMAIN files)
    BY <1>1, <1>2 DEF Free
  <2>3. ASSUME NEW f \in DOMAIN files', Free(f)'
        PROVE  /\ OneFlight(files'[f])
               /\ f = name' => \A i \in DOMAIN files'[f] : files'[f][i].boot = boots'
    <3>1. CASE f = n
      BY <1>5, <2>1, <2>2, <2>3, <3>1
    <3>2. CASE f # n
      BY <1>3, <1>4, <1>6, <2>2, <2>3, <3>2 DEF LogInv, LogsKept
    <3> QED BY <3>1, <3>2
  <2> QED BY <2>3 DEF LogsKept, OneFlight
<1>10. LinesKept'
  <2>1. \A f \in DOMAIN files' : InLines(files'[f]) /\ InLines(disk'[f]) /\ Ended(disk'[f]) /\ files'[f] = disk'[f]
    <3>1. InLines(<<>>) /\ Ended(<<>>)
      BY DEF InLines, Ordered, NoneMissing, InOnePiece, Numbered, Ended
    <3> QED BY <1>4, <1>6, <3>1 DEF LogInv, LinesKept
  <2>2. \A f \in DOMAIN files' : InLines(files[f])' /\ InLines(disk[f])' /\ Ended(disk[f])'
    BY <1>2, <2>1 DEF InLines, Ordered, NoneMissing, InOnePiece, Numbered, Ended, Has
  <2>3. EndedOrOpen(files[name])'
    <3>1. Ended(files'[n])
      BY <1>3, <2>1
    <3> QED BY <1>2, <1>3, <3>1 DEF Ended, EndedOrOpen, Has, F!Newline
  <2> QED BY <2>2, <2>3 DEF LinesKept
<1>11. LinesOpen'
  <2>1. \A w \in F!Writers : ~Writing(w) /\ ~Writing(w)'
    BY <1>2 DEF LogInv, LinesOpen, Writing
  <2> QED BY <1>2, <2>1 DEF LogInv, LinesOpen
<1> QED BY <1>7, <1>8, <1>9, <1>10, <1>11 DEF LogInv

(* The thread goes into a write.  With its first part it has a line that   *)
(* is in no log.                                                           *)
LEMMA EnterKeeps ==
  ASSUME LogInv, F!Enter
  PROVE  LogInv'
<1>1. /\ name # F!NoName /\ inside = "no" /\ inside' = "alone" /\ part["timer"] = 1
      /\ UNCHANGED <<files, disk, name, unanswered, part, broken, boots>>
      /\ lines' = IF part["thread"] = 1 THEN lines + 1 ELSE lines
      /\ line' = IF part["thread"] = 1 THEN [line EXCEPT !["thread"] = lines'] ELSE line
  BY DEF F!Enter, F!Begins, F!TimerIsDone
<1>2. /\ part \in [F!Writers -> 1..3] /\ line \in [F!Writers -> Nat] /\ lines \in Nat /\ name \in DOMAIN files
      /\ files \in [DOMAIN files -> Seq(Entry)] /\ disk \in [DOMAIN files -> Seq(Entry)]
      /\ "thread" \in F!Writers /\ "timer" \in F!Writers
      /\ \A w \in F!Writers : w = "thread" \/ w = "timer"
  BY <1>1 DEF LogInv, LogTypeOK, F!Newline, F!Writers
<1>3. /\ lines' \in Nat /\ lines' >= lines /\ line' \in [F!Writers -> Nat]
      /\ part["thread"] = 1 => lines' = lines + 1 /\ line'["thread"] = lines'
      /\ part["thread"] # 1 => line' = line
      /\ line'["timer"] = line["timer"]
  BY <1>1, <1>2
<1>4. LogTypeOK'
  BY <1>1, <1>3 DEF LogInv, LogTypeOK, F!NoName
<1>5. FlightsInOrder' /\ LogsKept'
  BY <1>1 DEF LogInv, FlightsInOrder, LogsKept, Upto, Rising, InFrontOf, OneFlight, Free
<1>6. ASSUME NEW l \in Seq(Entry), InLines(l)
      PROVE  InLines(l)' /\ NotIn(l, lines + 1)
  <2>1. Numbered(l)' /\ NotIn(l, lines + 1)
    <3>1. \A i \in DOMAIN l : l[i].line \in Nat /\ l[i].line <= lines
      <4>1. \A i \in DOMAIN l : l[i] \in Entry
        OBVIOUS
      <4> QED BY <1>6, <4>1 DEF InLines, Numbered, Entry
    <3> QED BY <1>2, <1>3, <3>1 DEF Numbered, NotIn
  <2> QED BY <1>1, <1>6, <2>1 DEF InLines, Ordered, NoneMissing, InOnePiece, Has
<1>7. LinesKept'
  <2>1. \A n \in DOMAIN files : InLines(files[n])' /\ InLines(disk[n])'
    <3>1. ASSUME NEW n \in DOMAIN files
          PROVE  InLines(files[n])' /\ InLines(disk[n])'
      <4>1. files[n] \in Seq(Entry) /\ disk[n] \in Seq(Entry) /\ InLines(files[n]) /\ InLines(disk[n])
        BY <1>2 DEF LogInv, LinesKept
      <4>2. PICK l \in Seq(Entry), m \in Seq(Entry) : l = files[n] /\ m = disk[n]
        BY <4>1
      <4>3. InLines(l)' /\ InLines(m)'
        BY <1>6, <4>1, <4>2
      <4> QED BY <1>1, <4>2, <4>3 DEF InLines, Ordered, NoneMissing, InOnePiece, Numbered, Has
    <3> QED BY <3>1
  <2>2. \A k : F!Unfinished(k) => F!Unfinished(k)'
    BY <1>1, <1>2, <1>3 DEF F!Unfinished
  <2>3. EndedOrOpen(files[name])'
    BY <1>1, <2>2 DEF LogInv, LinesKept, EndedOrOpen, Has, F!Newline
  <2>4. \A n \in DOMAIN files : Ended(disk[n])'
    BY <1>1 DEF LogInv, LinesKept, Ended, Has, F!Newline
  <2> QED BY <1>1, <2>1, <2>3, <2>4 DEF LinesKept
<1>8. LinesOpen'
  <2>1. \A w \in F!Writers : Writing(w)' => w = "thread"
    BY <1>1, <1>2 DEF Writing
  <2>2. \A w \in F!Writers : line'[w] <= lines'
    BY <1>2, <1>3 DEF LogInv, LinesOpen
  <2>3. Holds(files[name], "thread", line["thread"])' /\ \A n \in DOMAIN files : NotIn(disk[n], line["thread"])'
    <3>1. CASE part["thread"] # 1
      BY <1>1, <1>2, <1>3, <3>1 DEF LogInv, LinesOpen, Writing, Holds, NotIn, Has
    <3>2. CASE part["thread"] = 1
      <4>1. NotIn(files[name], lines + 1) /\ \A n \in DOMAIN files : NotIn(disk[n], lines + 1)
        BY <1>2, <1>6 DEF LogInv, LinesKept
      <4>2. 1..(1 - 1) = {}
        OBVIOUS
      <4> QED BY <1>1, <1>3, <3>2, <4>1, <4>2 DEF NotIn, Holds
    <3> QED BY <3>1, <3>2
  <2> QED BY <1>1, <2>1, <2>2, <2>3 DEF LinesOpen
<1> QED BY <1>4, <1>5, <1>7, <1>8 DEF LogInv

(* A writer with its line, which may be a new one, before its next part.   *)
Ready(w) ==
  /\ name \in DOMAIN files /\ lines' \in Nat /\ lines' >= lines /\ line' \in [F!Writers -> Nat]
  /\ line'[w] <= lines' /\ (part[w] # 1 => line'[w] = line[w])
  /\ \A v \in F!Writers : v # w => line'[v] = line[v] /\ (Writing(v) => line[v] # line'[w])
  /\ Holds(files[name], w, line'[w]) /\ \A n \in DOMAIN files : NotIn(disk[n], line'[w])

(* The thread is inside a write with its line, and the timer begins one or *)
(* goes on.                                                                *)
LEMMA ThreadIsReady ==
  ASSUME LogInv, inside # "no", UNCHANGED <<line, lines>>
  PROVE  Ready("thread")
<1>1. Writing("thread") /\ "thread" \in F!Writers
  BY DEF Writing, F!Writers
<1>2. name \in DOMAIN files
  BY <1>1 DEF LogInv, LogTypeOK, LinesOpen
<1> QED BY <1>1, <1>2 DEF LogInv, LogTypeOK, LinesOpen, Ready

LEMMA TimerIsReady ==
  ASSUME LogInv, F!Begins("timer")
  PROVE  Ready("timer")
<1>1. /\ name \in DOMAIN files /\ part["timer"] \in 1..3 /\ lines \in Nat /\ line \in [F!Writers -> Nat]
      /\ "timer" \in F!Writers
  BY DEF LogInv, LogTypeOK, F!Begins, F!Writers, F!Newline
<1>2. CASE part["timer"] # 1
  <2>1. lines' = lines /\ line' = line /\ Writing("timer")
    BY <1>2 DEF F!Begins, Writing
  <2> QED BY <1>1, <1>2, <2>1 DEF LogInv, LinesOpen, Ready
<1>3. CASE part["timer"] = 1
  <2>1. lines' = lines + 1 /\ line' = [line EXCEPT !["timer"] = lines + 1]
    BY <1>3 DEF F!Begins
  <2>2. line' \in [F!Writers -> Nat] /\ line'["timer"] = lines + 1
    BY <1>1, <2>1
  <2>3. \A v \in F!Writers : v # "timer" => line'[v] = line[v] /\ line[v] # lines + 1
    <3>1. \A v \in F!Writers : line[v] <= lines /\ line[v] \in Nat
      BY <1>1 DEF LogInv, LinesOpen
    <3> QED BY <1>1, <2>1, <3>1
  <2>4. ASSUME NEW l \in Seq(Entry), Numbered(l) PROVE NotIn(l, lines + 1)
    <3>1. \A i \in DOMAIN l : l[i] \in Entry
      OBVIOUS
    <3> QED BY <1>1, <2>4, <3>1 DEF Numbered, NotIn, Entry
  <2>5. \A n \in DOMAIN files : NotIn(files[n], lines + 1) /\ NotIn(disk[n], lines + 1)
    <3>1. ASSUME NEW n \in DOMAIN files
          PROVE  NotIn(files[n], lines + 1) /\ NotIn(disk[n], lines + 1)
      <4>1. files[n] \in Seq(Entry) /\ disk[n] \in Seq(Entry) /\ Numbered(files[n]) /\ Numbered(disk[n])
        BY DEF LogInv, LogTypeOK, LinesKept, InLines
      <4> QED BY <2>4, <4>1
    <3> QED BY <3>1
  <2>6. Holds(files[name], "timer", lines + 1)
    <3>1. 1..(1 - 1) = {}
      OBVIOUS
    <3> QED BY <1>1, <1>3, <2>5, <3>1 DEF Holds, NotIn
  <2> QED BY <1>1, <1>3, <2>1, <2>2, <2>3, <2>5, <2>6 DEF Ready
<1> QED BY <1>2, <1>3

(* The open log as it is, or with one entry more. *)
Grown(l, a, e) ==
  /\ Len(l) \in Nat /\ Len(a) \in Nat /\ DOMAIN l = 1..Len(l) /\ DOMAIN a = 1..Len(a)
  /\ Len(l) <= Len(a) /\ Len(a) <= Len(l) + 1
  /\ \A i \in 1..Len(l) : a[i] = l[i]
  /\ \A i \in 1..Len(a) : i > Len(l) => a[i] = e

(* What a writer does with its line: it puts the part into the log or not, *)
(* and goes on or not; where it does not do both the line is broken.       *)
Writes(w, l, a, e) ==
  /\ l \in Seq(Entry) /\ a \in Seq(Entry) /\ e \in Entry /\ Grown(l, a, e)
  /\ e.by = w /\ e.line = line'[w] /\ e.part = part[w] /\ e.boot = boots
  /\ l = files[name] /\ files' = [files EXCEPT ![name] = a]
  /\ part' \in [F!Writers -> 1..F!Newline] /\ \A v \in F!Writers : v # w => part'[v] = part[v]
  /\ part'[w] = 1 \/ (part'[w] = part[w] + 1 /\ part[w] # F!Newline)
  /\ broken \subseteq broken' /\ broken' \subseteq broken \cup {line'[w]}
  /\ \/ line'[w] \in broken'
     \/ Len(a) = Len(l) + 1 /\ part'[w] = IF part[w] = F!Newline THEN 1 ELSE part[w] + 1
  /\ w = "thread" => inside' = "no" /\ part["timer"] = 1
  /\ w = "timer" => inside' \in {"no", "disturbed"} /\ (inside' = "no" <=> inside = "no")
  /\ UNCHANGED <<disk, name, unanswered, boots>>

(* The lines of the open log stay in order.                                *)
LEMMA LineGrows ==
  ASSUME LogInv, NEW w \in F!Writers, Ready(w), NEW l, NEW a, NEW e, Writes(w, l, a, e)
  PROVE  InLines(a)' /\ EndedOrOpen(a)'
<1>a. /\ l \in Seq(Entry) /\ e.by = w /\ e.line = line'[w] /\ e.part = part[w] /\ l = files[name] /\ Grown(l, a, e)
      /\ broken \subseteq broken' /\ e \in Entry
  BY DEF Writes
<1>b. /\ name \in DOMAIN files /\ Holds(l, w, line'[w]) /\ lines' >= lines /\ lines' \in Nat /\ line'[w] <= lines'
  BY <1>a DEF Ready
<1>c. name # F!NoName /\ lines \in Nat /\ part[w] \in 1..3
  <2>1. name # F!NoName
    BY <1>b DEF LogInv, LogTypeOK, F!NoName, F!Names
  <2> QED BY <2>1 DEF LogInv, LogTypeOK, F!Newline
<1>d. InLines(l) /\ EndedOrOpen(l)
  BY <1>a, <1>b, <1>c DEF LogInv, LinesKept
<1>e. /\ Len(l) \in Nat /\ Len(a) \in Nat /\ DOMAIN l = 1..Len(l) /\ DOMAIN a = 1..Len(a)
      /\ Len(l) <= Len(a) /\ Len(a) <= Len(l) + 1 /\ \A i \in 1..Len(l) : a[i] = l[i]
  BY <1>a DEF Grown
<1>f. \A i \in 1..Len(a) : i \notin 1..Len(l) => i = Len(l) + 1 /\ i = Len(a) /\ a[i] = e
  <2>1. PICK m \in Nat, n \in Nat : m = Len(l) /\ n = Len(a)
    BY <1>e
  <2>2. TAKE i \in 1..Len(a)
  <2>3. i \in 1..n /\ m <= n /\ n <= m + 1 /\ (i > m => a[i] = e)
    BY <1>a, <1>e, <2>1 DEF Grown
  <2>4. i \notin 1..m => i = m + 1 /\ i = n /\ a[i] = e
    BY <2>1, <2>3
  <2> QED BY <2>1, <2>4
<1>g. \A i \in DOMAIN l : l[i] \in Entry
  BY <1>a
<1>t. /\ Len(l) \in Nat /\ Len(a) \in Nat /\ DOMAIN l = 1..Len(l) /\ DOMAIN a = 1..Len(a)
      /\ Len(l) <= Len(a) /\ Len(a) <= Len(l) + 1
      /\ \A i \in 1..Len(l) : a[i] = l[i]
      /\ \A i \in 1..Len(a) : i \notin 1..Len(l) => i = Len(l) + 1 /\ i = Len(a) /\ a[i] = e
      /\ \A i \in DOMAIN l : l[i] \in Entry
      /\ e.by = w /\ e.line = line'[w] /\ e.part = part[w]
      /\ l = files[name] /\ name \in DOMAIN files /\ name # F!NoName
      /\ Holds(l, w, line'[w]) /\ broken \subseteq broken' /\ InLines(l) /\ EndedOrOpen(l)
      /\ lines' >= lines /\ lines' \in Nat /\ lines \in Nat /\ line'[w] <= lines' /\ part[w] \in 1..3
  BY <1>a, <1>b, <1>c, <1>d, <1>e, <1>f, <1>g, Zenon
<1>1. InFrontOf(l, a)
  BY <1>t DEF InFrontOf
<1>2. Ordered(a)
  BY <1>t DEF InLines, Ordered, Holds
<1>3. NoneMissing(a)'
  <2>1. SUFFICES ASSUME NEW j \in DOMAIN a, a[j].line \notin broken', NEW p \in 1..a[j].part
                 PROVE  Has(a, a[j].line, p)
    BY DEF NoneMissing, Has
  <2>2. CASE j \in DOMAIN l
    BY <1>t, <1>1, <2>1, <2>2, HasStays DEF InLines, NoneMissing
  <2>3. CASE j \notin DOMAIN l
    <3>1. a[j] = e /\ p \in 1..part[w] /\ line'[w] \notin broken
      BY <1>t, <2>1, <2>3
    <3>2. CASE p = part[w]
      BY <1>t, <3>1, <3>2 DEF Has
    <3>3. CASE p # part[w]
      <4>1. p \in 1..(part[w] - 1)
        <5>1. PICK q \in 1..3 : q = part[w]
          BY <1>c
        <5>2. p \in 1..q /\ p # q
          BY <3>1, <3>3, <5>1
        <5> QED BY <5>1, <5>2
      <4> QED BY <1>t, <1>1, <3>1, <4>1, HasStays DEF Holds
    <3> QED BY <3>2, <3>3
  <2> QED BY <2>2, <2>3
<1>4. InOnePiece(a)
  <2>1. SUFFICES ASSUME NEW i \in DOMAIN a, NEW k \in DOMAIN a, NEW j \in DOMAIN a,
                        a[j].by = "timer", a[i].line = a[j].line, i <= k, k <= j
                 PROVE  a[k].line = a[j].line
    BY DEF InOnePiece
  <2>2. CASE j \in DOMAIN l
    <3>1. i \in DOMAIN l /\ k \in DOMAIN l
      BY <1>e, <2>1, <2>2
    <3> QED BY <1>t, <2>1, <2>2, <3>1 DEF InLines, InOnePiece
  <2>3. CASE j \notin DOMAIN l
    <3>1. a[j] = e /\ w = "timer" /\ j = Len(l) + 1
      BY <1>t, <2>1, <2>3
    <3>2. CASE k = j
      BY <3>2
    <3>3. CASE k # j
      <4>1. k \in DOMAIN l /\ i \in DOMAIN l /\ Len(l) \in DOMAIN l /\ k <= Len(l)
        BY <1>e, <2>1, <3>1, <3>3
      <4>2. l[i].line = line'[w] /\ l[Len(l)].line = line'[w]
        BY <1>t, <2>1, <3>1, <4>1 DEF Holds
      <4>3. l[Len(l)].by = "timer"
        BY <1>t, <3>1, <4>1, <4>2 DEF Holds
      <4>4. l[k].line = line'[w]
        <5>1. InOnePiece(l) /\ i <= k
          BY <1>d, <2>1 DEF InLines
        <5> QED BY <4>1, <4>2, <4>3, <5>1 DEF InOnePiece
      <4> QED BY <1>t, <3>1, <4>1, <4>4
    <3> QED BY <3>2, <3>3
  <2> QED BY <2>2, <2>3
<1>5. Numbered(a)'
  <2>1. \A i \in DOMAIN l : l[i].line \in Nat /\ l[i].line <= lines
    BY <1>t DEF InLines, Numbered, Entry
  <2>2. e.line \in Nat
    BY DEF Writes, Entry
  <2>3. ASSUME NEW i \in DOMAIN a PROVE a[i].line <= lines'
    <3>1. CASE i \in DOMAIN l
      <4>1. a[i] = l[i] /\ l[i].line \in Nat /\ l[i].line <= lines
        BY <1>e, <2>1, <3>1
      <4> QED BY <1>b, <1>c, <4>1
    <3>2. CASE i \notin DOMAIN l
      BY <1>a, <1>b, <1>e, <1>f, <2>3, <3>2
    <3> QED BY <3>1, <3>2
  <2> QED BY <2>3 DEF Numbered
<1>6. InLines(a)'
  BY <1>2, <1>3, <1>4, <1>5 DEF InLines, Ordered, InOnePiece
<1>7. EndedOrOpen(a)'
  <2>1. SUFFICES ASSUME NEW j \in DOMAIN a, a[j].line \notin broken'
                 PROVE  F!Unfinished(a[j].line)' \/ Has(a, a[j].line, F!Newline)
    BY DEF EndedOrOpen, Has, F!Newline
  <2>2. CASE a[j].line = line'[w]
    <3>1. Len(a) = Len(l) + 1 /\ part'[w] = IF part[w] = F!Newline THEN 1 ELSE part[w] + 1
      BY <2>1, <2>2 DEF Writes
    <3>2. CASE part[w] = F!Newline
      <4>1. Len(a) \in DOMAIN a /\ a[Len(a)] = e
        BY <1>t, <3>1
      <4> QED BY <1>t, <2>2, <3>2, <4>1 DEF Has
    <3>3. CASE part[w] # F!Newline
      <4>1. part'[w] # 1
        BY <1>t, <3>1, <3>3
      <4> QED BY <2>2, <4>1 DEF F!Unfinished, F!Writers
    <3> QED BY <3>2, <3>3
  <2>3. CASE a[j].line # line'[w]
    <3>1. j \in DOMAIN l /\ a[j] = l[j]
      BY <1>t, <2>1, <2>3
    <3>2. CASE Has(l, a[j].line, F!Newline)
      BY <1>1, <3>2, HasStays
    <3>3. CASE F!Unfinished(a[j].line)
      <4>1. PICK v \in F!Writers : part[v] # 1 /\ line[v] = a[j].line
        BY <3>3 DEF F!Unfinished
      <4>2. v # w
        BY <2>3, <4>1 DEF Ready
      <4>3. part'[v] = part[v] /\ line'[v] = line[v]
        BY <4>2 DEF Writes, Ready
      <4> QED BY <4>1, <4>3 DEF F!Unfinished, F!Writers
    <3> QED BY <1>t, <2>1, <3>1, <3>2, <3>3 DEF EndedOrOpen
  <2> QED BY <2>2, <2>3
<1> QED BY <1>6, <1>7

(* The other files and the other writer know nothing of it. *)
LEMMA LineKeeps ==
  ASSUME LogInv, NEW w \in F!Writers, Ready(w), NEW l, NEW a, NEW e, Writes(w, l, a, e)
  PROVE  LogInv'
<1>a. /\ l \in Seq(Entry) /\ a \in Seq(Entry) /\ e \in Entry /\ Grown(l, a, e) /\ l = files[name]
      /\ files' = [files EXCEPT ![name] = a] /\ e.boot = boots
      /\ e.by = w /\ e.line = line'[w] /\ e.part = part[w]
      /\ broken \subseteq broken' /\ broken' \subseteq broken \cup {line'[w]}
      /\ UNCHANGED <<disk, name, unanswered, boots>>
  BY DEF Writes
<1>b. /\ name \in DOMAIN files /\ lines' \in Nat /\ lines' >= lines /\ line' \in [F!Writers -> Nat]
      /\ \A v \in F!Writers : v # w => line'[v] = line[v] /\ (Writing(v) => line[v] # line'[w])
  BY DEF Ready
<1>c. name # F!NoName /\ boots \in Nat /\ lines \in Nat
  BY <1>b DEF LogInv, LogTypeOK, F!NoName, F!Names
<1>d. /\ DOMAIN files' = DOMAIN files /\ files'[name] = a /\ DOMAIN disk = DOMAIN files
      /\ \A n \in DOMAIN files : n # name => files'[n] = files[n]
  BY <1>a, <1>b DEF LogInv, LogTypeOK
<1>e. /\ Len(l) \in Nat /\ Len(a) \in Nat /\ DOMAIN l = 1..Len(l) /\ DOMAIN a = 1..Len(a)
      /\ Len(l) <= Len(a) /\ \A i \in 1..Len(l) : a[i] = l[i]
  BY <1>a DEF Grown
<1>f. \A i \in DOMAIN a : i \in DOMAIN l \/ (a[i] = e /\ i > Len(l))
  BY <1>a, <1>e DEF Grown
<1>g. InFrontOf(l, a)
  BY <1>e DEF InFrontOf
<1>1. LogTypeOK'
  <2>1. files' \in [DOMAIN files' -> Seq(Entry)]
    BY <1>a, <1>d DEF LogInv, LogTypeOK
  <2>2. part' \in [F!Writers -> 1..F!Newline] /\ inside' \in {"no", "alone", "disturbed"}
    BY DEF Writes, F!Writers
  <2> QED BY <1>a, <1>b, <1>d, <2>1, <2>2 DEF LogInv, LogTypeOK
<1>2. FlightsInOrder'
  <2>1. Upto(l, boots) /\ Rising(l) /\ InFrontOf(disk[name], l) /\ Upto(disk[name], boots - 1)
    BY <1>a, <1>b DEF LogInv, FlightsInOrder
  <2>2. Upto(a, boots)
    BY <1>a, <1>c, <1>e, <1>f, <2>1 DEF Upto
  <2>3. Rising(a)
    <3>1. SUFFICES ASSUME NEW i \in DOMAIN a, NEW j \in DOMAIN a, i < j PROVE a[i].boot <= a[j].boot
      BY DEF Rising
    <3>2. CASE j \in DOMAIN l
      <4>1. i \in DOMAIN l
        BY <1>e, <3>1, <3>2
      <4> QED BY <1>e, <2>1, <3>1, <3>2, <4>1 DEF Rising
    <3>3. CASE j \notin DOMAIN l
      BY <1>a, <1>f, <2>2, <3>3 DEF Upto
    <3> QED BY <3>2, <3>3
  <2>4. InFrontOf(disk[name], a)
    BY <1>g, <2>1 DEF InFrontOf
  <2>5. \A n \in DOMAIN files :
          /\ Upto(disk[n], boots - 1) /\ Upto(files'[n], boots) /\ Rising(files'[n])
          /\ InFrontOf(disk[n], files'[n])
          /\ n # name => files'[n] = disk[n]
    BY <1>d, <2>1, <2>2, <2>3, <2>4 DEF LogInv, FlightsInOrder
  <2> QED BY <1>a, <1>d, <2>5 DEF FlightsInOrder, Upto, Rising, InFrontOf
<1>3. LogsKept'
  <2>1. ASSUME NEW n \in DOMAIN files, Free(n)
        PROVE  OneFlight(files'[n]) /\ (n = name => \A i \in DOMAIN files'[n] : files'[n][i].boot = boots)
    <3>1. CASE n = name
      <4>1. \A i \in DOMAIN l : l[i].boot = boots
        BY <1>a, <2>1, <3>1 DEF LogInv, LogsKept
      <4>2. \A i \in DOMAIN a : a[i].boot = boots
        BY <1>a, <1>e, <1>f, <4>1
      <4> QED BY <1>d, <3>1, <4>2 DEF OneFlight
    <3>2. CASE n # name
      BY <1>d, <2>1, <3>2 DEF LogInv, LogsKept
    <3> QED BY <3>1, <3>2
  <2>2. \A n : Free(n)' <=> Free(n)
    BY <1>a DEF Free
  <2> QED BY <1>a, <1>d, <2>1, <2>2 DEF LogsKept, OneFlight
<1>4. ASSUME NEW m \in Seq(Entry), InLines(m), NotIn(m, line'[w])
      PROVE  InLines(m)' /\ (Ended(m) => Ended(m)')
  <2>1. \A j \in DOMAIN m : m[j] \in Entry
    OBVIOUS
  <2>2. Numbered(m)'
    <3>1. \A j \in DOMAIN m : m[j].line \in Nat /\ m[j].line <= lines
      BY <1>4, <2>1 DEF InLines, Numbered, Entry
    <3> QED BY <1>b, <1>c, <3>1 DEF Numbered
  <2>3. NoneMissing(m)' /\ (Ended(m) => Ended(m)')
    BY <1>a, <1>4 DEF InLines, NoneMissing, Ended, Has, F!Newline
  <2> QED BY <1>4, <2>2, <2>3 DEF InLines, Ordered, InOnePiece
<1>5. LinesKept'
  <2>1. InLines(a)' /\ EndedOrOpen(a)'
    BY LineGrows
  <2>2. ASSUME NEW n \in DOMAIN files
        PROVE  InLines(disk[n])' /\ Ended(disk[n])'
    <3>1. PICK m : m = disk[n]
      OBVIOUS
    <3>2. m \in Seq(Entry) /\ InLines(m) /\ Ended(m) /\ NotIn(m, line'[w])
      BY <1>d, <3>1 DEF LogInv, LogTypeOK, LinesKept, Ready
    <3>3. InLines(m)' /\ Ended(m)'
      BY <1>4, <3>2
    <3> QED BY <1>a, <3>1, <3>3 DEF InLines, Ordered, NoneMissing, InOnePiece, Numbered, Ended, Has, F!Newline
  <2>3. ASSUME NEW n \in DOMAIN files, n # name
        PROVE  InLines(files[n])'
    <3>1. files'[n] = disk[n] /\ disk' = disk
      BY <1>a, <1>d, <2>3 DEF LogInv, FlightsInOrder
    <3> QED BY <2>2, <3>1 DEF InLines, Ordered, NoneMissing, InOnePiece, Numbered, Has
  <2>4. InLines(files[name])' /\ EndedOrOpen(files[name])'
    BY <1>a, <1>d, <2>1 DEF InLines, Ordered, NoneMissing, InOnePiece, Numbered, EndedOrOpen, Has, F!Newline
  <2>5. ASSUME NEW n \in DOMAIN files PROVE InLines(files[n])'
    <3>1. CASE n = name
      BY <1>a, <2>4, <3>1 DEF InLines, Ordered, NoneMissing, InOnePiece, Numbered, Has
    <3>2. CASE n # name
      BY <2>3, <3>2
    <3> QED BY <3>1, <3>2
  <2> QED BY <1>d, <2>2, <2>4, <2>5 DEF LinesKept
<1>6. LinesOpen'
  <2>1. /\ \A v \in F!Writers : line'[v] <= lines'
        /\ \A v \in F!Writers : v # w => part'[v] = part[v]
        /\ \A v \in F!Writers : v # w /\ Writing(v)' => Writing(v)
    <3>1. ASSUME NEW v \in F!Writers PROVE line'[v] <= lines'
      <4>1. line[v] <= lines /\ line[v] \in Nat
        BY DEF LogInv, LogTypeOK, LinesOpen
      <4> QED BY <1>b, <1>c, <4>1 DEF Ready
    <3>2. ASSUME NEW v \in F!Writers, v # w PROVE part'[v] = part[v] /\ (Writing(v)' => Writing(v))
      <4>1. part'[v] = part[v]
        BY <3>2 DEF Writes
      <4>2. v = "thread" => w = "timer"
        BY <3>2 DEF F!Writers
      <4> QED BY <4>1, <4>2 DEF Writing, Writes
    <3> QED BY <3>1, <3>2
  <2>2. \A v, u \in F!Writers : Writing(v)' /\ Writing(u)' /\ v # u => line'[v] # line'[u]
    BY <1>b, <2>1 DEF F!Writers
  <2>3. Writing(w)' => Holds(a, w, line[w])' /\ \A n \in DOMAIN files : NotIn(disk[n], line'[w])
    <3>1. SUFFICES ASSUME Writing(w)' PROVE Holds(a, w, line[w])'
      BY DEF Ready
    <3>2. part'[w] = part[w] + 1 /\ part[w] \in 1..3
      <4>1. part'[w] # 1
        BY <3>1 DEF Writing, Writes
      <4> QED BY <4>1 DEF Writes, LogInv, LogTypeOK, F!Newline
    <3>3. Holds(l, w, line'[w])
      BY <1>a DEF Ready
    <3>4. \A j \in DOMAIN a : a[j].line = line'[w] => a[j].by = w /\ a[j].part < part'[w]
      <4>1. \A j \in DOMAIN l : l[j].part \in Nat
        <5>1. \A j \in DOMAIN l : l[j] \in Entry
          BY <1>a
        <5> QED BY <5>1 DEF Entry, F!Newline
      <4> QED BY <1>a, <1>e, <1>f, <3>2, <3>3, <4>1 DEF Holds
    <3>5. line'[w] \notin broken' => \A p \in 1..(part'[w] - 1) : Has(a, line'[w], p)
      <4>1. SUFFICES ASSUME line'[w] \notin broken', NEW p \in 1..(part'[w] - 1) PROVE Has(a, line'[w], p)
        OBVIOUS
      <4>2. CASE p = part[w]
        <5>1. Len(a) = Len(l) + 1
          BY <4>1 DEF Writes
        <5>2. Len(a) \in DOMAIN a /\ a[Len(a)] = e
          BY <1>e, <1>f, <5>1
        <5> QED BY <1>a, <4>2, <5>2 DEF Has
      <4>3. CASE p # part[w]
        <5>1. p \in 1..(part[w] - 1)
          BY <3>2, <4>1, <4>3
        <5>2. line'[w] \notin broken
          BY <1>a, <4>1
        <5> QED BY <1>g, <3>3, <5>1, <5>2, HasStays DEF Holds
      <4> QED BY <4>2, <4>3
    <3>6. w = "timer" => (\A j \in DOMAIN a : a[j].line # line'[w]) \/ a[Len(a)].line = line'[w]
      <4>1. CASE Len(a) = Len(l)
        <5>1. \A j \in DOMAIN a : a[j] = l[j] /\ j \in DOMAIN l
          BY <1>e, <4>1
        <5>2. (\A j \in DOMAIN l : l[j].line # line'[w]) => \A j \in DOMAIN a : a[j].line # line'[w]
          BY <5>1
        <5>3. ASSUME l[Len(l)].line = line'[w], NEW j \in DOMAIN a PROVE a[Len(a)].line = line'[w]
          BY <1>e, <4>1, <5>1, <5>3
        <5> QED BY <3>3, <5>2, <5>3 DEF Holds
      <4>2. CASE Len(a) # Len(l)
        <5>1. Len(a) \in DOMAIN a /\ a[Len(a)] = e
          <6>1. Len(a) > Len(l)
            <7>1. PICK m \in Nat, n \in Nat : m = Len(l) /\ n = Len(a)
              BY <1>e
            <7>2. m <= n /\ m # n
              BY <1>e, <4>2, <7>1
            <7>3. n > m
              BY <7>1, <7>2
            <7> QED BY <7>1, <7>3
          <6>2. Len(a) \in DOMAIN a /\ Len(a) \notin DOMAIN l
            BY <1>e, <6>1
          <6> QED BY <1>f, <6>2
        <5> QED BY <1>a, <5>1
      <4> QED BY <4>1, <4>2
    <3> QED BY <3>4, <3>5, <3>6 DEF Holds, Has
  <2>4. ASSUME NEW v \in F!Writers, v # w, Writing(v)'
        PROVE  Holds(a, v, line[v])' /\ \A n \in DOMAIN files : NotIn(disk[n], line'[v])
    <3>1. Writing(v) /\ part'[v] = part[v] /\ line'[v] = line[v] /\ line[v] # line'[w]
      BY <1>b, <2>1, <2>4
    <3>2. Holds(l, v, line[v]) /\ \A n \in DOMAIN files : NotIn(disk[n], line[v])
      BY <1>a, <3>1 DEF LogInv, LinesOpen
    <3>3. \A j \in DOMAIN a : a[j].line = line[v] => j \in DOMAIN l /\ a[j] = l[j]
      BY <1>a, <1>e, <1>f, <3>1
    <3>4. \A j \in DOMAIN a : a[j].line = line[v] => a[j].by = v /\ a[j].part < part[v]
      BY <3>2, <3>3 DEF Holds
    <3>5. line[v] \notin broken' => \A p \in 1..(part[v] - 1) : Has(a, line[v], p)
      BY <1>a, <1>g, <3>2, HasStays DEF Holds
    <3>6. v = "timer" => FALSE
      <4>1. SUFFICES ASSUME v = "timer" PROVE FALSE
        OBVIOUS
      <4>2. w = "thread"
        BY <2>4, <4>1 DEF F!Writers
      <4> QED BY <3>1, <4>1, <4>2 DEF Writes, Writing
    <3> QED BY <3>1, <3>2, <3>4, <3>5, <3>6 DEF Holds, Has
  <2>5. ASSUME NEW v \in F!Writers, Writing(v)'
        PROVE  Holds(files[name], v, line[v])' /\ \A n \in DOMAIN files' : NotIn(disk[n], line[v])'
    <3>1. Holds(a, v, line[v])' /\ \A n \in DOMAIN files : NotIn(disk[n], line'[v])
      <4>1. CASE v = w
        <5>1. Holds(a, w, line[w])' /\ \A n \in DOMAIN files : NotIn(disk[n], line'[w])
          BY <2>3, <2>5, <4>1 DEF Writing
        <5> QED BY <4>1, <5>1 DEF Holds, Has
      <4>2. CASE v # w
        BY <2>4, <2>5, <4>2
      <4> QED BY <4>1, <4>2
    <3> QED BY <1>a, <1>d, <3>1 DEF Holds, NotIn, Has
  <2> QED BY <1>a, <1>c, <2>1, <2>2, <2>5 DEF LinesOpen, F!NoName
<1> QED BY <1>1, <1>2, <1>3, <1>5, <1>6 DEF LogInv

(* A part of a line, and the end of a flight. *)
LEMMA WriteKeeps ==
  ASSUME LogInv, NEW w \in F!Writers, Ready(w), NEW disturbed \in BOOLEAN, F!Ends(w, disturbed),
         w = "thread" => inside' = "no" /\ part["timer"] = 1,
         w = "timer" => inside' \in {"no", "disturbed"} /\ (inside' = "no" <=> inside = "no"),
         UNCHANGED <<disk, name, unanswered, boots>>
  PROVE  LogInv'
<1>1. PICK l, e : /\ l \in Seq(Entry) /\ l = files[name]
                  /\ e = [by |-> w, line |-> line'[w], part |-> part[w], boot |-> boots]
  BY DEF Ready, LogInv, LogTypeOK
<1>a. l \in Seq(Entry)
  BY <1>1
<1> USE <1>a
<1>2. e \in Entry /\ part[w] \in 1..3 /\ part \in [F!Writers -> 1..3]
  BY <1>1 DEF LogInv, LogTypeOK, Ready, Entry, F!Newline
<1>3. PICK a \in Seq(Entry) : Grown(l, a, e) /\ files' = [files EXCEPT ![name] = a] /\ (a = l \/ a = Append(l, e))
                            /\ (F!Wrote(w) => a = Append(l, e))
  <2>1. CASE F!Wrote(w)
    <3>1. PICK a : a = Append(l, e)
      OBVIOUS
    <3>2. /\ a \in Seq(Entry) /\ Len(a) = Len(l) + 1 /\ DOMAIN a = 1..(Len(l) + 1) /\ a[Len(l) + 1] = e
          /\ \A i \in 1..Len(l) : a[i] = l[i]
      BY <1>2, <3>1, Appended
    <3>3. Len(l) \in Nat /\ DOMAIN l = 1..Len(l)
      OBVIOUS
    <3>4. Grown(l, a, e)
      <4>1. PICK m \in Nat : m = Len(l)
        BY <3>3, Zenon
      <4>2. \A i \in 1..(m + 1) : i > m => i = m + 1
        BY <4>1
      <4> QED BY <3>2, <3>3, <4>1, <4>2 DEF Grown
    <3>5. files' = [files EXCEPT ![name] = a]
      BY <1>1, <2>1, <3>1 DEF F!Wrote, F!Appended, Ready
    <3> QED BY <3>1, <3>2, <3>4, <3>5
  <2>2. CASE ~F!Wrote(w)
    <3>1. UNCHANGED files
      BY <2>2 DEF F!Ends
    <3>2. files' = [files EXCEPT ![name] = l]
      BY <1>1, <3>1 DEF LogInv, LogTypeOK
    <3>3. Grown(l, l, e)
      <4>1. PICK m \in Nat : m = Len(l)
        BY <1>1
      <4>2. DOMAIN l = 1..m /\ \A i \in 1..m : ~(i > m)
        BY <1>1, <4>1
      <4> QED BY <4>1, <4>2 DEF Grown
    <3> QED BY <2>2, <3>2, <3>3
  <2> QED BY <2>1, <2>2
<1>4. F!Advances(w) \/ F!Stops(w)
  BY DEF F!Ends
<1>5. /\ part' \in [F!Writers -> 1..F!Newline] /\ \A v \in F!Writers : v # w => part'[v] = part[v]
      /\ part'[w] = 1 \/ (part'[w] = part[w] + 1 /\ part[w] # F!Newline)
      /\ F!Advances(w) => part'[w] = IF part[w] = F!Newline THEN 1 ELSE part[w] + 1
  BY <1>2, <1>4 DEF F!Advances, F!Stops, F!Newline
<1>6. /\ broken \subseteq broken' /\ broken' \subseteq broken \cup {line'[w]}
      /\ line'[w] \in broken' \/ (F!Wrote(w) /\ F!Advances(w))
  BY DEF F!Ends
<1>7. Len(Append(l, e)) = Len(l) + 1
  BY <1>2, Appended
<1>8. Writes(w, l, a, e)
  BY <1>1, <1>2, <1>3, <1>5, <1>6, <1>7 DEF Writes
<1> QED BY <1>8, LineKeeps

(* The program ends, or the power goes off: the next flight finds what was *)
(* on the disk, and the lines that were not at their end are broken.       *)
LEMMA EndKeeps ==
  ASSUME F!NamesAssumption, LogInv, F!Close \/ F!PowerOff
  PROVE  LogInv'
<1>1. /\ boots' = boots + 1 /\ boots \in Nat /\ name' = F!NoName /\ part' = [w \in F!Writers |-> 1]
      /\ inside' = "no" /\ UNCHANGED <<unanswered, line, lines>> /\ broken \subseteq broken'
      /\ \A k : F!Unfinished(k) => k \in broken'
      /\ files' = disk' /\ (disk' = files \/ disk' = disk) /\ (disk' = files => name # F!NoName \/ disk' = disk)
      /\ DOMAIN disk = DOMAIN files
  <2>1. \A k : F!Unfinished(k) => k \in {line[w] : w \in {v \in F!Writers : part[v] # 1}}
    BY DEF F!Unfinished
  <2> QED BY <2>1 DEF LogInv, LogTypeOK, F!Close, F!PowerOff, F!IsOver
<1>2. DOMAIN files' = DOMAIN files /\ disk' \in [DOMAIN files -> Seq(Entry)]
  BY <1>1 DEF LogInv, LogTypeOK
<1>3. LogTypeOK'
  BY <1>1, <1>2 DEF LogInv, LogTypeOK, F!Writers, F!Newline
<1>4. FlightsInOrder'
  <2>1. ASSUME NEW n \in DOMAIN files PROVE Upto(disk'[n], boots) /\ Rising(disk'[n]) /\ Upto(disk'[n], boots + 1)
    <3>1. disk'[n] = files[n] \/ disk'[n] = disk[n]
      BY <1>1
    <3>2. Upto(files[n], boots) /\ Rising(files[n]) /\ InFrontOf(disk[n], files[n])
      BY DEF LogInv, FlightsInOrder
    <3>3. Upto(disk'[n], boots) /\ Rising(disk'[n])
      BY <3>1, <3>2 DEF Upto, Rising, InFrontOf
    <3>4. ASSUME NEW i \in DOMAIN disk'[n] PROVE disk'[n][i].boot <= boots + 1
      <4>1. disk'[n] \in Seq(Entry)
        BY <1>2
      <4>2. disk'[n][i] \in Entry
        BY <4>1
      <4> QED BY <1>1, <3>3, <4>2 DEF Upto, Entry
    <3> QED BY <3>3, <3>4 DEF Upto
  <2>2. boots' - 1 = boots
    BY <1>1
  <2> QED BY <1>1, <1>2, <2>1, <2>2 DEF FlightsInOrder, InFrontOf, Upto, Rising
<1>5. LogsKept'
  <2>1. \A n \in DOMAIN files : n # name'
    BY <1>1 DEF LogInv, LogTypeOK, F!Names, F!NoName, F!NamesAssumption
  <2>2. ASSUME NEW n \in DOMAIN files, Free(n) PROVE OneFlight(disk'[n])
    <3>1. OneFlight(files[n]) /\ InFrontOf(disk[n], files[n]) /\ (disk'[n] = files[n] \/ disk'[n] = disk[n])
      BY <1>1, <2>2 DEF LogInv, LogsKept, FlightsInOrder
    <3> QED BY <3>1 DEF OneFlight, InFrontOf
  <2>3. \A n : Free(n)' <=> Free(n)
    BY <1>1 DEF Free
  <2> QED BY <1>1, <1>2, <2>1, <2>2, <2>3 DEF LogsKept, OneFlight
<1>6. LinesKept'
  <2>1. \A n \in DOMAIN files : InLines(disk'[n])
    BY <1>1 DEF LogInv, LinesKept
  <2>2. ASSUME NEW n \in DOMAIN files, NEW j \in DOMAIN disk'[n], disk'[n][j].line \notin broken'
        PROVE  Has(disk'[n], disk'[n][j].line, F!Newline)
    <3>1. CASE disk'[n] = disk[n]
      BY <1>1, <2>2, <3>1 DEF LogInv, LinesKept, Ended
    <3>2. CASE disk'[n] # disk[n]
      <4>1. disk'[n] = files[n] /\ n = name /\ name # F!NoName
        <5>1. disk'[n] = files[n] /\ name # F!NoName
          BY <1>1, <3>2
        <5> QED BY <3>2, <5>1 DEF LogInv, FlightsInOrder
      <4>2. EndedOrOpen(disk'[n])
        BY <4>1 DEF LogInv, LinesKept
      <4> QED BY <1>1, <2>2, <4>2 DEF EndedOrOpen
    <3> QED BY <3>1, <3>2
  <2>3. \A n \in DOMAIN files' : InLines(files[n])' /\ InLines(disk[n])'
    <3>1. ASSUME NEW m, InLines(m) PROVE InLines(m)'
      <4>1. NoneMissing(m)'
        BY <1>1, <3>1 DEF InLines, NoneMissing, Has
      <4> QED BY <1>1, <3>1, <4>1 DEF InLines, Ordered, InOnePiece, Numbered
    <3>2. ASSUME NEW n \in DOMAIN files' PROVE InLines(files[n])' /\ InLines(disk[n])'
      <4>1. PICK m : m = disk'[n] /\ m = files'[n]
        BY <1>1
      <4>2. InLines(m)'
        BY <1>2, <2>1, <3>1, <4>1
      <4> QED BY <4>1, <4>2 DEF InLines, Ordered, NoneMissing, InOnePiece, Numbered, Has
    <3> QED BY <3>2
  <2>4. \A n \in DOMAIN files' : Ended(disk[n])'
    BY <1>2, <2>2 DEF Ended, Has, F!Newline
  <2> QED BY <1>1, <2>3, <2>4 DEF LinesKept, F!NoName
<1>7. LinesOpen'
  BY <1>1 DEF LogInv, LinesOpen, Writing
<1> QED BY <1>3, <1>4, <1>5, <1>6, <1>7 DEF LogInv

(* The six together. *)
LEMMA LogNext ==
  ASSUME F!NamesAssumption, LogInv, F!Next
  PROVE  LogInv'
<1>1. CASE F!Open
  BY <1>1, OpenKeeps
<1>2. CASE F!Enter
  BY <1>2, EnterKeeps
<1>3. CASE F!Leave
  <2>1. Ready("thread") /\ F!Ends("thread", inside = "disturbed") /\ part["timer"] = 1 /\ inside' = "no"
    BY <1>3, ThreadIsReady DEF F!Leave, F!TimerIsDone
  <2>2. (inside = "disturbed") \in BOOLEAN /\ "thread" \in F!Writers
    BY DEF F!Writers
  <2>3. UNCHANGED <<disk, name, unanswered, boots>>
    BY <1>3 DEF F!Leave
  <2> QED BY <2>1, <2>2, <2>3, WriteKeeps
<1>4. CASE F!TimerWrites
  <2>1. Ready("timer") /\ F!Ends("timer", inside # "no")
    BY <1>4, TimerIsReady DEF F!TimerWrites
  <2>2. (inside # "no") \in BOOLEAN /\ "timer" \in F!Writers
    BY DEF F!Writers
  <2>3. inside' \in {"no", "disturbed"} /\ (inside' = "no" <=> inside = "no") /\ UNCHANGED <<disk, name, unanswered, boots>>
    BY <1>4 DEF F!TimerWrites
  <2> QED BY <2>1, <2>2, <2>3, WriteKeeps
<1>5. CASE F!Close \/ F!PowerOff
  BY <1>5, EndKeeps
<1> QED BY <1>1, <1>2, <1>3, <1>4, <1>5 DEF F!Next

(* A log that was free is of one flight, and the lines are in order. *)
LEMMA LogIsWhole ==
  ASSUME LogInv
  PROVE  F!OldLogsKept /\ F!LinesInOrder
<1>1. F!OldLogsKept
  BY DEF LogInv, LogsKept, FlightsInOrder, Free, OneFlight, Rising, InFrontOf, F!OldLogsKept
<1>2. ASSUME NEW n \in DOMAIN files
      PROVE  InLines(files[n]) /\ EndedOrOpen(files[n])
  <2>1. CASE n = name
    <3>1. name # F!NoName
      BY <2>1 DEF LogInv, LogTypeOK, F!NoName, F!Names
    <3> QED BY <2>1, <3>1 DEF LogInv, LinesKept
  <2>2. CASE n # name
    <3>1. files[n] = disk[n] /\ Ended(disk[n])
      BY <2>2 DEF LogInv, LinesKept, FlightsInOrder
    <3> QED BY <3>1 DEF LogInv, LinesKept, Ended, EndedOrOpen
  <2> QED BY <2>1, <2>2
<1>3. ASSUME NEW n \in DOMAIN files, NEW j \in DOMAIN files[n]
      PROVE  LET this == files[n][j]
                 ofThis == {i \in DOMAIN files[n] : files[n][i].line = this.line}
             IN  /\ \A i \in ofThis : i < j => files[n][i].part < this.part
                 /\ this.line \notin broken =>
                      /\ \A p \in 1..this.part : \E i \in ofThis : files[n][i].part = p
                      /\ F!Unfinished(this.line) \/ \E i \in ofThis : files[n][i].part = F!Newline
                 /\ this.by = "timer" =>
                      \A i \in ofThis : \A k \in DOMAIN files[n] : i <= k /\ k <= j => k \in ofThis
  <2>1. PICK l : l = files[n]
    OBVIOUS
  <2>2. j \in DOMAIN l /\ Ordered(l) /\ NoneMissing(l) /\ InOnePiece(l) /\ EndedOrOpen(l)
    BY <1>2, <1>3, <2>1 DEF InLines
  <2>3. \A i \in DOMAIN l : l[i].line = l[j].line /\ i < j => l[i].part < l[j].part
    BY <2>2 DEF Ordered
  <2>4. l[j].line \notin broken => \A p \in 1..l[j].part : Has(l, l[j].line, p)
    BY <2>2 DEF NoneMissing
  <2>5. l[j].line \notin broken => F!Unfinished(l[j].line) \/ Has(l, l[j].line, F!Newline)
    BY <2>2 DEF EndedOrOpen
  <2>6. l[j].by = "timer" => \A i, k \in DOMAIN l : l[i].line = l[j].line /\ i <= k /\ k <= j => l[k].line = l[j].line
    BY <2>2 DEF InOnePiece
  <2> QED BY <2>1, <2>3, <2>4, <2>5, <2>6 DEF Has
<1> QED BY <1>1, <1>3 DEF F!LinesInOrder

-----------------------------------------------------------------------------
(* The frame files.                                                        *)

FrameType == [boot : Nat, time : Nat]

FramesTypeOK ==
  /\ disk \in [S!LogFiles -> Seq(FrameType)] /\ cache \in [S!LogFiles -> Seq(FrameType)]
  /\ wpos \in [S!LogFiles -> Nat] /\ sample \in Nat /\ boots \in Nat
  /\ pc \in {"init", "detect", "flight", "over"}

FrameAt(time) == [boot |-> boots, time |-> time]

(* A file on the disk is empty, or it is a whole lap.                      *)
WholeLap(l, size) ==
  /\ Len(l) = size /\ l[1].boot <= boots
  /\ \A i \in 1..size : l[i].boot = l[1].boot /\ l[i].time + 1 = l[1].time + i
LapsKept == \A f \in S!LogFiles : disk[f] = <<>> \/ WholeLap(disk[f], Size[f])

(* The circular file when its last frame is that of sample d: the lap that *)
(* is being written, and after it what it has not come to, which is of     *)
(* earlier boots or of the lap before.                                     *)
Circular(l, w, size, d) ==
  /\ w <= size /\ w <= Len(l) /\ Len(l) <= size /\ w <= d
  /\ \A i \in 1..w : l[i] = FrameAt((d - w) + i)
  /\ \/ d = w /\ \A i \in (w + 1)..Len(l) : l[i].boot < boots
     \/ size + w <= d /\ Len(l) = size /\ \A i \in (w + 1)..size : l[i] = FrameAt((d - (w + size)) + i)

(* The file that is written once, which goes on from sample d.             *)
Once(l, w, size, d) ==
  /\ w <= size /\ w <= Len(l) /\ Len(l) <= size
  /\ \A i \in 1..w : l[i] = FrameAt(d + i)
  /\ \A i \in (w + 1)..Len(l) : l[i].boot < boots

Written(d) ==
  /\ Circular(cache["detect"], wpos["detect"], Size["detect"], d)
  /\ Once(cache["flight"], wpos["flight"], Size["flight"], d)
  /\ pc \in {"init", "detect"} => sample = d /\ wpos["flight"] = 0
  /\ pc = "flight" => sample = d + wpos["flight"]
FramesInOrder == \E d \in 0..sample : Written(d)

FramesInv == FramesTypeOK /\ LapsKept /\ FramesInOrder

(* The files are empty before anything is written. *)
LEMMA FramesStart ==
  ASSUME S!SizeAssumption, S!Init
  PROVE  FramesInv
<1>1. /\ disk = [f \in S!LogFiles |-> <<>>] /\ cache = [f \in S!LogFiles |-> <<>>]
      /\ wpos = [f \in S!LogFiles |-> 0] /\ pc = "init" /\ sample = 0 /\ boots = 1
  BY DEF S!Init, S!Empty
<1>2. FramesTypeOK
  BY <1>1 DEF FramesTypeOK
<1>3. LapsKept
  BY <1>1 DEF LapsKept
<1>4. Written(0)
  <2>1. /\ cache["detect"] = <<>> /\ cache["flight"] = <<>> /\ wpos["detect"] = 0 /\ wpos["flight"] = 0
        /\ Size["detect"] \in Nat /\ Size["flight"] \in Nat
    BY <1>1 DEF S!LogFiles, S!SizeAssumption
  <2> QED BY <1>1, <2>1 DEF Written, Circular, Once
<1>5. FramesInOrder
  BY <1>1, <1>4 DEF FramesInOrder
<1> QED BY <1>2, <1>3, <1>5 DEF FramesInv

(* A frame goes where the circular file has not come to, or to its start. *)
LEMMA CircularGrows ==
  ASSUME NEW l \in Seq(FrameType), NEW w \in Nat, NEW size \in Nat \ {0}, NEW d \in Nat, boots \in Nat,
         Circular(l, w, size, d), NEW at \in Nat, at = IF w + 1 > size THEN 0 ELSE w
  PROVE  /\ at <= Len(l) /\ FileWith(l, FrameAt(d + 1), at) \in Seq(FrameType)
         /\ Circular(FileWith(l, FrameAt(d + 1), at), at + 1, size, d + 1)
<1>1. PICK after : after = FileWith(l, FrameAt(d + 1), at)
  OBVIOUS
<1>2. PICK n \in Nat : n = Len(l)
  OBVIOUS
<1>3. /\ w <= size /\ w <= n /\ n <= size /\ w <= d /\ at <= n
      /\ \A i \in 1..w : l[i] = FrameAt((d - w) + i)
  <2>1. w <= size /\ w <= n /\ n <= size /\ w <= d /\ \A i \in 1..w : l[i] = FrameAt((d - w) + i)
    BY <1>2 DEF Circular
  <2>2. at <= n
    BY <2>1
  <2> QED BY <2>1, <2>2
<1>4. FrameAt(d + 1) \in FrameType
  BY DEF FrameAt, FrameType
<1>5. /\ after \in Seq(FrameType) /\ after[at + 1] = FrameAt(d + 1)
      /\ Len(after) = IF at < n THEN n ELSE at + 1
      /\ \A i \in 1..Len(after) : i # at + 1 => i \in 1..n /\ after[i] = l[i]
  BY <1>1, <1>2, <1>3, <1>4, FileWithOneMore
<1>6. CASE w = size
  <2>1. at = 0 /\ n = size /\ Len(after) = size /\ d - w \in Nat
    BY <1>3, <1>5, <1>6
  <2>2. ASSUME NEW i \in 2..size PROVE after[i] = FrameAt(((d + 1) - (1 + size)) + i)
    <3>1. i \in 1..w /\ after[i] = l[i] /\ (d - w) + i = ((d + 1) - (1 + size)) + i
      BY <1>5, <1>6, <2>1
    <3> QED BY <1>3, <3>1
  <2>3. \A i \in 1..1 : after[i] = FrameAt(((d + 1) - 1) + i)
    BY <1>5, <2>1
  <2>4. 0 + 1 = 1 /\ 1 + 1 = 2 /\ 1 <= size /\ 1 <= d + 1 /\ size + 1 <= d + 1
    BY <1>3, <1>6
  <2>5. Circular(after, 1, size, d + 1)
    BY <2>1, <2>2, <2>3, <2>4 DEF Circular
  <2> QED BY <1>1, <1>3, <1>5, <2>1, <2>4, <2>5
<1>7. CASE w # size
  <2>1. at = w /\ w < size
    BY <1>3, <1>7
  <2>2. ASSUME NEW i \in 1..(w + 1) PROVE after[i] = FrameAt(((d + 1) - (w + 1)) + i)
    <3>1. CASE i = w + 1
      <4>1. ((d + 1) - (w + 1)) + i = d + 1
        BY <1>3, <3>1
      <4> QED BY <1>5, <2>1, <3>1, <4>1
    <3>2. CASE i # w + 1
      <4>1. i \in 1..w /\ i \in 1..Len(after) /\ i # at + 1 /\ (d - w) + i = ((d + 1) - (w + 1)) + i
        BY <1>3, <1>5, <2>1, <3>2
      <4>2. after[i] = l[i] /\ l[i] = FrameAt((d - w) + i)
        BY <1>3, <1>5, <4>1
      <4> QED BY <4>1, <4>2
    <3> QED BY <3>1, <3>2
  <2>3. /\ w + 1 <= size /\ w + 1 <= Len(after) /\ Len(after) <= size /\ w + 1 <= d + 1
    BY <1>3, <1>5, <2>1
  <2>4. \A i \in ((w + 1) + 1)..Len(after) : i \in (w + 1)..n /\ after[i] = l[i]
    BY <1>3, <1>5, <2>1
  <2>5. \/ d + 1 = w + 1 /\ \A i \in ((w + 1) + 1)..Len(after) : after[i].boot < boots
        \/ /\ size + (w + 1) <= d + 1 /\ Len(after) = size
           /\ \A i \in ((w + 1) + 1)..size : after[i] = FrameAt(((d + 1) - ((w + 1) + size)) + i)
    <3>1. CASE d = w /\ \A i \in (w + 1)..n : l[i].boot < boots
      BY <2>4, <3>1
    <3>2. CASE size + w <= d /\ n = size /\ \A i \in (w + 1)..size : l[i] = FrameAt((d - (w + size)) + i)
      <4>1. size + (w + 1) <= d + 1 /\ Len(after) = size
        BY <1>3, <1>5, <2>1, <3>2
      <4>2. \A i \in ((w + 1) + 1)..size : (d - (w + size)) + i = ((d + 1) - ((w + 1) + size)) + i
        OBVIOUS
      <4>3. \A i \in ((w + 1) + 1)..size : after[i] = l[i] /\ l[i] = FrameAt((d - (w + size)) + i)
        BY <2>4, <3>2, <4>1
      <4> QED BY <4>1, <4>2, <4>3
    <3> QED BY <1>2, <3>1, <3>2 DEF Circular
  <2>6. Circular(after, w + 1, size, d + 1)
    BY <2>2, <2>3, <2>5 DEF Circular
  <2> QED BY <1>1, <1>2, <1>3, <1>5, <2>1, <2>6
<1> QED BY <1>6, <1>7

(* A frame goes at the end of what this boot has of the other file. *)
LEMMA OnceGrows ==
  ASSUME NEW l \in Seq(FrameType), NEW w \in Nat, NEW size \in Nat, NEW d \in Nat, boots \in Nat,
         Once(l, w, size, d), w + 1 <= size
  PROVE  /\ w <= Len(l) /\ FileWith(l, FrameAt((d + w) + 1), w) \in Seq(FrameType)
         /\ Once(FileWith(l, FrameAt((d + w) + 1), w), w + 1, size, d)
<1>1. PICK after : after = FileWith(l, FrameAt((d + w) + 1), w)
  OBVIOUS
<1>2. PICK n \in Nat : n = Len(l)
  OBVIOUS
<1>3. /\ w <= n /\ n <= size /\ \A i \in 1..w : l[i] = FrameAt(d + i)
      /\ \A i \in (w + 1)..n : l[i].boot < boots
  BY <1>2 DEF Once
<1>4. FrameAt((d + w) + 1) \in FrameType
  BY DEF FrameAt, FrameType
<1>5. /\ after \in Seq(FrameType) /\ after[w + 1] = FrameAt((d + w) + 1)
      /\ Len(after) = IF w < n THEN n ELSE w + 1
      /\ \A i \in 1..Len(after) : i # w + 1 => i \in 1..n /\ after[i] = l[i]
  BY <1>1, <1>2, <1>3, <1>4, FileWithOneMore
<1>6. w + 1 <= Len(after) /\ Len(after) <= size
  BY <1>3, <1>5
<1>7. ASSUME NEW i \in 1..(w + 1) PROVE after[i] = FrameAt(d + i)
  <2>1. CASE i = w + 1
    <3>1. (d + w) + 1 = d + i
      BY <2>1
    <3> QED BY <1>5, <2>1, <3>1
  <2>2. CASE i # w + 1
    <3>1. i \in 1..w /\ i \in 1..Len(after)
      BY <1>3, <1>5, <2>2
    <3> QED BY <1>3, <1>5, <2>2, <3>1
  <2> QED BY <2>1, <2>2
<1>8. \A i \in ((w + 1) + 1)..Len(after) : i \in (w + 1)..n /\ after[i] = l[i]
  BY <1>3, <1>5
<1>9. Once(after, w + 1, size, d)
  BY <1>3, <1>6, <1>7, <1>8 DEF Once
<1> QED BY <1>1, <1>2, <1>3, <1>5, <1>9

(* A file that is full is a lap, and the circular one may begin again. *)
LEMMA FullIsWhole ==
  ASSUME NEW l \in Seq(FrameType), NEW w \in Nat, NEW size \in Nat \ {0}, NEW d \in Nat, boots \in Nat,
         w + 1 > size, Circular(l, w, size, d) \/ Once(l, w, size, d)
  PROVE  WholeLap(l, size) /\ (Circular(l, w, size, d) => Circular(l, 0, size, d))
<1>1. w = size /\ Len(l) = size
  BY DEF Circular, Once
<1>2. PICK t \in Nat : (Circular(l, w, size, d) => t = d - size) /\ \A i \in 1..size : l[i] = FrameAt(t + i)
  <2>1. CASE Circular(l, w, size, d)
    <3>1. d - size \in Nat /\ \A i \in 1..size : l[i] = FrameAt((d - size) + i)
      BY <1>1, <2>1 DEF Circular
    <3> QED BY <3>1
  <2>2. CASE Once(l, w, size, d) /\ ~Circular(l, w, size, d)
    BY <1>1, <2>2 DEF Once
  <2> QED BY <2>1, <2>2
<1>3. \A i \in 1..size : l[i].boot = boots /\ l[i].time = t + i
  <2>1. \A time : FrameAt(time).boot = boots /\ FrameAt(time).time = time
    BY DEF FrameAt
  <2>2. \A i \in 1..size : l[i] = FrameAt(t + i)
    BY <1>2
  <2> QED BY <2>1, <2>2
<1>4. l[1].boot = boots /\ l[1].time = t + 1
  <2>1. 1 \in 1..size
    OBVIOUS
  <2> QED BY <1>3, <2>1
<1>5. WholeLap(l, size)
  <2>1. \A i \in 1..size : (t + i) + 1 = (t + 1) + i
    BY <1>2
  <2> QED BY <1>1, <1>3, <1>4, <2>1 DEF WholeLap
<1>6. ASSUME Circular(l, w, size, d) PROVE Circular(l, 0, size, d)
  <2>1. t = d - size /\ size <= d /\ 0 + size = size /\ 0 + 1 = 1
    BY <1>1, <1>2, <1>6 DEF Circular
  <2> QED BY <1>1, <1>2, <2>1 DEF Circular
<1> QED BY <1>5, <1>6

(* Where a file is synchronised it is full, and what is on the disk is a *)
(* lap.                                                                    *)
LEMMA SyncKeeps ==
  ASSUME S!SizeAssumption, FramesInv, NEW file \in S!LogFiles, S!Synced(file), boots' = boots
  PROVE  LapsKept' /\ disk' \in [S!LogFiles -> Seq(FrameType)]
<1>1. /\ disk \in [S!LogFiles -> Seq(FrameType)] /\ cache \in [S!LogFiles -> Seq(FrameType)]
      /\ wpos[file] \in Nat /\ boots \in Nat /\ Size[file] \in Nat \ {0} /\ sample \in Nat
  BY DEF FramesInv, FramesTypeOK, S!SizeAssumption
<1>2. CASE S!Full(file) /\ disk' = [disk EXCEPT ![file] = cache[file]]
  <2>1. PICK d \in 0..sample : Written(d)
    BY DEF FramesInv, FramesInOrder
  <2>2. \/ Circular(cache[file], wpos[file], Size[file], d)
        \/ Once(cache[file], wpos[file], Size[file], d)
    BY <2>1 DEF Written, S!LogFiles
  <2>3. wpos[file] + 1 > Size[file] /\ d \in Nat /\ cache[file] \in Seq(FrameType)
    BY <1>1, <1>2, <2>1 DEF S!Full
  <2>4. WholeLap(cache[file], Size[file])
    BY <1>1, <2>2, <2>3, FullIsWhole
  <2>5. disk' = [disk EXCEPT ![file] = cache[file]]
    BY <1>2
  <2>6. ASSUME NEW f \in S!LogFiles
        PROVE  disk'[f] = <<>> \/ WholeLap(disk'[f], Size[f])
    BY <1>1, <2>4, <2>5 DEF FramesInv, LapsKept
  <2>7. LapsKept'
    BY <2>6 DEF LapsKept, WholeLap
  <2> QED BY <1>1, <2>5, <2>7
<1>3. CASE disk' = disk
  BY <1>1, <1>3 DEF FramesInv, LapsKept, WholeLap
<1> QED BY <1>2, <1>3 DEF S!Synced

(* A turn that writes nothing, or that ends where nothing is written. *)
LEMMA NothingPut ==
  ASSUME FramesInv, LapsKept', disk' \in [S!LogFiles -> Seq(FrameType)],
         UNCHANGED <<cache, wpos, boots>>, sample' \in Nat, sample <= sample',
         pc' = "over"
  PROVE  FramesInv'
<1>1. PICK d \in 0..sample : Written(d)
  BY DEF FramesInv, FramesInOrder
<1>2. d \in 0..sample' /\ Written(d)'
  BY <1>1 DEF FramesInv, FramesTypeOK, Written, Circular, Once, FrameAt
<1>3. FramesTypeOK'
  BY DEF FramesInv, FramesTypeOK
<1> QED BY <1>2, <1>3 DEF FramesInv, FramesInOrder

(* A turn of the first loop of sensor_log. *)
LEMMA DetectKeeps ==
  ASSUME S!SizeAssumption, FramesInv, S!Detect
  PROVE  FramesInv'
<1>1. PICK d \in 0..sample : Written(d)
  BY DEF FramesInv, FramesInOrder
<1>2. PICK l, w, size : l = cache["detect"] /\ w = wpos["detect"] /\ size = Size["detect"]
  OBVIOUS
<1>3. /\ l \in Seq(FrameType) /\ w \in Nat /\ size \in Nat \ {0} /\ d \in Nat /\ boots \in Nat
      /\ d = sample /\ wpos["flight"] = 0 /\ Circular(l, w, size, d) /\ "detect" \in S!LogFiles
      /\ boots' = boots /\ sample' = d + 1 /\ sample' \in Nat /\ sample <= sample'
  <2>1. sample \in Nat /\ boots \in Nat /\ pc = "detect" /\ boots' = boots /\ sample' = sample + 1
    BY DEF FramesInv, FramesTypeOK, S!Detect, S!Read
  <2>2. l \in Seq(FrameType) /\ w \in Nat /\ size \in Nat \ {0} /\ "detect" \in S!LogFiles
    BY <1>2 DEF FramesInv, FramesTypeOK, S!LogFiles, S!SizeAssumption
  <2>3. d = sample /\ wpos["flight"] = 0 /\ Circular(l, w, size, d)
    BY <1>1, <1>2, <2>1 DEF Written
  <2> QED BY <2>1, <2>2, <2>3
<1>4. PICK at \in Nat : at = S!Start("detect") /\ at = IF w + 1 > size THEN 0 ELSE w
  BY <1>2, <1>3 DEF S!Start, S!Full
<1>5. CASE S!Synced("detect") /\ S!Put("detect", S!Frame) /\ pc' \in {"detect", "flight"}
  <2>1. LapsKept' /\ disk' \in [S!LogFiles -> Seq(FrameType)]
    BY <1>3, <1>5, SyncKeeps
  <2>2. PICK after : after = FileWith(l, FrameAt(d + 1), at)
    OBVIOUS
  <2>3. after \in Seq(FrameType) /\ Circular(after, at + 1, size, d + 1)
    BY <1>3, <1>4, <2>2, CircularGrows
  <2>4. cache' = [cache EXCEPT !["detect"] = after] /\ wpos' = [wpos EXCEPT !["detect"] = at + 1]
    BY <1>2, <1>3, <1>4, <1>5, <2>2 DEF S!Put, S!Frame, FileWith, FrameAt
  <2>5. FramesTypeOK'
    BY <1>3, <1>4, <1>5, <2>1, <2>3, <2>4 DEF FramesInv, FramesTypeOK
  <2>6. /\ cache'["detect"] = after /\ cache'["flight"] = cache["flight"]
        /\ wpos'["detect"] = at + 1 /\ wpos'["flight"] = 0
    BY <1>3, <2>4 DEF FramesInv, FramesTypeOK, S!LogFiles
  <2>7. Circular(cache["detect"], wpos["detect"], Size["detect"], d + 1)'
    BY <1>2, <1>3, <2>3, <2>6 DEF Circular, FrameAt
  <2>8. Once(cache["flight"], wpos["flight"], Size["flight"], d + 1)'
    BY <1>1, <1>3, <2>6 DEF Written, Once
  <2>9. d + 1 \in 0..sample' /\ Written(d + 1)'
    BY <1>3, <1>5, <2>6, <2>7, <2>8 DEF Written
  <2> QED BY <2>1, <2>5, <2>9 DEF FramesInv, FramesInOrder
<1>6. CASE S!Synced("detect") /\ S!PutFails("detect") /\ pc' = "over"
  <2>1. LapsKept' /\ disk' \in [S!LogFiles -> Seq(FrameType)]
    BY <1>3, <1>6, SyncKeeps
  <2>2. cache' = cache /\ wpos' = [wpos EXCEPT !["detect"] = at]
    BY <1>4, <1>6 DEF S!PutFails
  <2>3. FramesTypeOK'
    BY <1>3, <1>4, <1>6, <2>1, <2>2 DEF FramesInv, FramesTypeOK
  <2>4. wpos'["detect"] = at /\ wpos'["flight"] = 0
    BY <1>3, <2>2 DEF FramesInv, FramesTypeOK, S!LogFiles
  <2>5. Circular(l, at, size, d)
    <3>1. CASE w + 1 > size
      BY <1>3, <1>4, <3>1, FullIsWhole
    <3>2. CASE ~(w + 1 > size)
      BY <1>3, <1>4, <3>2
    <3> QED BY <3>1, <3>2
  <2>6. Circular(cache["detect"], wpos["detect"], Size["detect"], d)'
    BY <1>2, <1>3, <2>2, <2>4, <2>5 DEF Circular, FrameAt
  <2>7. Once(cache["flight"], wpos["flight"], Size["flight"], d)'
    BY <1>1, <1>3, <2>2, <2>4 DEF Written, Once
  <2>8. d \in 0..sample' /\ Written(d)'
    BY <1>3, <1>6, <2>6, <2>7 DEF Written
  <2> QED BY <2>1, <2>3, <2>8 DEF FramesInv, FramesInOrder
<1>7. CASE pc' = "over" /\ UNCHANGED <<disk, cache, wpos>>
  <2>1. LapsKept' /\ disk' \in [S!LogFiles -> Seq(FrameType)]
    BY <1>3, <1>7 DEF FramesInv, FramesTypeOK, LapsKept, WholeLap
  <2> QED BY <1>3, <1>7, <2>1, NothingPut
<1> QED BY <1>5, <1>6, <1>7 DEF S!Detect

(* A turn of the second. *)
LEMMA FlightKeeps ==
  ASSUME S!SizeAssumption, FramesInv, S!Flight
  PROVE  FramesInv'
<1>1. PICK d \in 0..sample : Written(d)
  BY DEF FramesInv, FramesInOrder
<1>2. PICK l, w, size : l = cache["flight"] /\ w = wpos["flight"] /\ size = Size["flight"]
  OBVIOUS
<1>3. /\ l \in Seq(FrameType) /\ w \in Nat /\ size \in Nat \ {0} /\ d \in Nat /\ boots \in Nat
      /\ sample = d + w /\ Once(l, w, size, d) /\ "flight" \in S!LogFiles
      /\ boots' = boots /\ sample' = (d + w) + 1 /\ sample' \in Nat /\ sample <= sample'
  <2>1. sample \in Nat /\ boots \in Nat /\ pc = "flight" /\ boots' = boots /\ sample' = sample + 1
    BY DEF FramesInv, FramesTypeOK, S!Flight, S!Read
  <2>2. l \in Seq(FrameType) /\ w \in Nat /\ size \in Nat \ {0} /\ "flight" \in S!LogFiles
    BY <1>2 DEF FramesInv, FramesTypeOK, S!LogFiles, S!SizeAssumption
  <2>3. sample = d + w /\ Once(l, w, size, d)
    BY <1>1, <1>2, <2>1 DEF Written
  <2> QED BY <2>1, <2>2, <2>3
<1>4. CASE ~S!Full("flight") /\ S!Synced("flight") /\ S!Put("flight", S!Frame) /\ UNCHANGED pc
  <2>1. LapsKept' /\ disk' \in [S!LogFiles -> Seq(FrameType)]
    BY <1>3, <1>4, SyncKeeps
  <2>2. w + 1 <= size /\ S!Start("flight") = w
    BY <1>2, <1>3, <1>4 DEF S!Start, S!Full
  <2>3. PICK after : after = FileWith(l, FrameAt((d + w) + 1), w)
    OBVIOUS
  <2>4. after \in Seq(FrameType) /\ Once(after, w + 1, size, d)
    BY <1>3, <2>2, <2>3, OnceGrows
  <2>5. cache' = [cache EXCEPT !["flight"] = after] /\ wpos' = [wpos EXCEPT !["flight"] = w + 1]
    BY <1>2, <1>3, <1>4, <2>2, <2>3 DEF S!Put, S!Frame, FileWith, FrameAt
  <2>6. FramesTypeOK'
    BY <1>3, <1>4, <2>1, <2>4, <2>5 DEF FramesInv, FramesTypeOK
  <2>7. /\ cache'["flight"] = after /\ cache'["detect"] = cache["detect"]
        /\ wpos'["flight"] = w + 1 /\ wpos'["detect"] = wpos["detect"]
    BY <1>3, <2>5 DEF FramesInv, FramesTypeOK, S!LogFiles
  <2>8. Once(cache["flight"], wpos["flight"], Size["flight"], d)'
    BY <1>2, <1>3, <2>4, <2>7 DEF Once, FrameAt
  <2>9. Circular(cache["detect"], wpos["detect"], Size["detect"], d)'
    BY <1>1, <1>3, <2>7 DEF Written, Circular, FrameAt
  <2>10. pc' = "flight"
    BY <1>4 DEF S!Flight
  <2>11. d \in 0..sample' /\ Written(d)'
    BY <1>3, <2>7, <2>8, <2>9, <2>10 DEF Written
  <2> QED BY <2>1, <2>6, <2>11 DEF FramesInv, FramesInOrder
<1>5. CASE pc' = "over" /\ UNCHANGED <<cache, wpos>> /\ (S!Synced("flight") \/ UNCHANGED disk)
  <2>1. CASE S!Synced("flight")
    BY <1>3, <1>5, <2>1, SyncKeeps, NothingPut
  <2>2. CASE disk' = disk
    <3>1. LapsKept' /\ disk' \in [S!LogFiles -> Seq(FrameType)]
      BY <1>3, <2>2 DEF FramesInv, FramesTypeOK, LapsKept, WholeLap
    <3> QED BY <1>3, <1>5, <3>1, NothingPut
  <2> QED BY <1>5, <2>1, <2>2
<1>6. CASE ~S!Full("flight") /\ S!Synced("flight") /\ S!PutFails("flight") /\ pc' = "over"
  <2>1. wpos' = wpos /\ cache' = cache
    BY <1>3, <1>6 DEF S!PutFails, S!Start, FramesInv, FramesTypeOK
  <2> QED BY <1>5, <1>6, <2>1
<1> QED BY <1>4, <1>5, <1>6 DEF S!Flight

(* The loops, and the steps between them and between two boots. *)
LEMMA FramesNext ==
  ASSUME S!SizeAssumption, FramesInv, S!Next
  PROVE  FramesInv'
<1>1. CASE S!Open \/ S!TimeIsUp
  <2>1. /\ UNCHANGED <<disk, cache, wpos, sample, boots>> /\ pc' \in {"detect", "flight", "over"}
        /\ pc' = "detect" => pc = "init"
        /\ pc' = "flight" => pc = "detect"
    BY <1>1 DEF S!Open, S!TimeIsUp
  <2>2. PICK d \in 0..sample : Written(d)
    BY DEF FramesInv, FramesInOrder
  <2>3. FramesTypeOK' /\ LapsKept'
    BY <2>1 DEF FramesInv, FramesTypeOK, LapsKept, WholeLap
  <2>4. Circular(cache["detect"], wpos["detect"], Size["detect"], d)'
    BY <2>1, <2>2 DEF Written, Circular, FrameAt
  <2>5. Once(cache["flight"], wpos["flight"], Size["flight"], d)'
    BY <2>1, <2>2 DEF Written, Once, FrameAt
  <2>6. d \in 0..sample' /\ Written(d)'
    <3>1. sample \in Nat /\ pc \in {"init", "detect"} => sample = d /\ wpos["flight"] = 0
      BY <2>2 DEF Written
    <3> QED BY <2>1, <2>2, <2>4, <2>5, <3>1 DEF Written, FramesInv, FramesTypeOK
  <2> QED BY <2>3, <2>6 DEF FramesInv, FramesInOrder
<1>2. CASE S!Boot
  <2>1. /\ boots' = boots + 1 /\ boots \in Nat /\ cache' = disk /\ disk' = disk /\ pc' = "init"
        /\ sample' = 0 /\ wpos' = [f \in S!LogFiles |-> 0] /\ disk \in [S!LogFiles -> Seq(FrameType)]
    BY <1>2 DEF S!Boot, FramesInv, FramesTypeOK
  <2>2. FramesTypeOK'
    BY <2>1 DEF FramesTypeOK
  <2>3. ASSUME NEW f \in S!LogFiles
        PROVE  /\ Len(disk[f]) \in Nat /\ Len(disk[f]) <= Size[f] /\ Size[f] \in Nat /\ wpos'[f] = 0
               /\ \A i \in 1..Len(disk[f]) : disk[f][i].boot < boots'
               /\ (disk[f] = <<>> \/ WholeLap(disk[f], Size[f]))'
    <3>1. disk[f] \in Seq(FrameType) /\ Size[f] \in Nat \ {0} /\ wpos'[f] = 0
      BY <2>1 DEF S!SizeAssumption
    <3>2. CASE disk[f] = <<>>
      BY <2>1, <3>1, <3>2
    <3>3. CASE WholeLap(disk[f], Size[f])
      <4>1. /\ Len(disk[f]) = Size[f] /\ disk[f][1].boot <= boots /\ disk[f][1] \in FrameType
            /\ \A i \in 1..Size[f] : disk[f][i].boot = disk[f][1].boot
        BY <3>1, <3>3 DEF WholeLap
      <4>2. disk[f][1].boot < boots' /\ disk[f][1].boot <= boots'
        BY <2>1, <4>1 DEF FrameType
      <4>3. WholeLap(disk[f], Size[f])'
        BY <2>1, <3>3, <4>2 DEF WholeLap
      <4> QED BY <3>1, <4>1, <4>2, <4>3
    <3> QED BY <3>2, <3>3 DEF FramesInv, LapsKept
  <2>4. LapsKept'
    BY <2>3 DEF LapsKept
  <2>5. "detect" \in S!LogFiles /\ "flight" \in S!LogFiles
    BY DEF S!LogFiles
  <2>6. 0 + 1 = 1 /\ \A i \in 1..0 : FALSE
    OBVIOUS
  <2>7. Circular(cache["detect"], wpos["detect"], Size["detect"], 0)'
    BY <2>1, <2>3, <2>5, <2>6 DEF Circular
  <2>8. Once(cache["flight"], wpos["flight"], Size["flight"], 0)'
    BY <2>1, <2>3, <2>5, <2>6 DEF Once
  <2>9. 0 \in 0..sample' /\ Written(0)'
    BY <2>1, <2>3, <2>5, <2>7, <2>8 DEF Written
  <2> QED BY <2>2, <2>4, <2>9 DEF FramesInv, FramesInOrder
<1> QED BY <1>1, <1>2, DetectKeeps, FlightKeeps DEF S!Next

(* The samples of this boot that are in a file. *)
Ours(l) == {i \in DOMAIN l : l[i].boot = boots}
Times(l) == {l[i].time : i \in Ours(l)}

(* The circular file has the latest samples up to d, and no others. *)
LEMMA CircularTimes ==
  ASSUME NEW l \in Seq(FrameType), NEW w \in Nat, NEW size \in Nat \ {0}, NEW d \in Nat, boots \in Nat,
         Circular(l, w, size, d)
  PROVE  \E k \in 0..d : /\ k = 0 => d = 0
                         /\ Times(l) = ((d - k) + 1)..d
<1>1. /\ DOMAIN l = 1..Len(l) /\ Len(l) \in Nat /\ w <= Len(l) /\ w <= d
      /\ \A time : FrameAt(time).boot = boots /\ FrameAt(time).time = time
  BY DEF Circular, FrameAt
<1>2. \A i \in 1..w : i \in Ours(l) /\ l[i].time = (d - w) + i
  <2>1. \A i \in 1..w : i \in 1..Len(l) /\ l[i] = FrameAt((d - w) + i)
    <3>1. \A i \in 1..w : i \in 1..Len(l)
      BY <1>1
    <3>2. \A i \in 1..w : l[i] = FrameAt((d - w) + i)
      BY DEF Circular
    <3> QED BY <3>1, <3>2
  <2> QED BY <1>1, <2>1 DEF Ours
<1>3. CASE d = w /\ \A i \in (w + 1)..Len(l) : l[i].boot < boots
  <2>1. ASSUME NEW i \in Ours(l) PROVE i \in 1..w /\ l[i].time = i
    <3>1. i \in 1..w
      <4>1. SUFFICES ASSUME i \notin 1..w PROVE FALSE
        OBVIOUS
      <4>2. i \in (w + 1)..Len(l) /\ l[i].boot = boots
        BY <1>1, <2>1, <4>1 DEF Ours
      <4>3. l[i] \in FrameType
        BY <1>1, <4>2
      <4> QED BY <1>3, <4>2, <4>3 DEF FrameType
    <3> QED BY <1>2, <1>3, <3>1
  <2>2. \A t \in ((d - d) + 1)..d : t \in Ours(l) /\ l[t].time = t
    BY <1>2, <1>3
  <2>3. Times(l) = ((d - d) + 1)..d
    BY <2>1, <2>2, <1>3 DEF Times
  <2>4. d \in 0..d
    OBVIOUS
  <2> QED BY <2>3, <2>4
<1>4. CASE size + w <= d /\ Len(l) = size /\ \A i \in (w + 1)..size : l[i] = FrameAt((d - (w + size)) + i)
  <2>1. \A i \in (w + 1)..size : i \in Ours(l) /\ l[i].time = (d - (w + size)) + i
    BY <1>1, <1>4 DEF Ours
  <2>2. ASSUME NEW i \in Ours(l) PROVE l[i].time \in ((d - size) + 1)..d
    <3>1. CASE i \in 1..w
      BY <1>1, <1>2, <1>4, <3>1
    <3>2. CASE i \in (w + 1)..size
      BY <1>1, <1>4, <2>1, <3>2
    <3>3. i \in 1..w \/ i \in (w + 1)..size
      BY <1>1, <1>4 DEF Ours
    <3> QED BY <3>1, <3>2, <3>3
  <2>3. ASSUME NEW t \in ((d - size) + 1)..d PROVE \E i \in Ours(l) : l[i].time = t
    <3>1. CASE t > d - w
      <4>1. t - (d - w) \in 1..w /\ (d - w) + (t - (d - w)) = t
        BY <1>1, <3>1
      <4> QED BY <1>2, <4>1
    <3>2. CASE ~(t > d - w)
      <4>1. t - (d - (w + size)) \in (w + 1)..size /\ (d - (w + size)) + (t - (d - (w + size))) = t
        BY <1>1, <1>4, <3>2
      <4> QED BY <2>1, <4>1
    <3> QED BY <3>1, <3>2
  <2>4. Times(l) = ((d - size) + 1)..d
    BY <2>2, <2>3 DEF Times
  <2>5. size \in 0..d
    BY <1>4
  <2> QED BY <2>4, <2>5
<1> QED BY <1>3, <1>4 DEF Circular

(* The other has those that came after, and no others. *)
LEMMA OnceTimes ==
  ASSUME NEW l \in Seq(FrameType), NEW w \in Nat, NEW size \in Nat, NEW d \in Nat, boots \in Nat,
         Once(l, w, size, d)
  PROVE  Times(l) = (d + 1)..(d + w)
<1>1. /\ DOMAIN l = 1..Len(l) /\ Len(l) \in Nat /\ w <= Len(l)
      /\ \A time : FrameAt(time).boot = boots /\ FrameAt(time).time = time
  BY DEF Once, FrameAt
<1>2. \A i \in 1..w : i \in Ours(l) /\ l[i].time = d + i
  BY <1>1 DEF Once, Ours
<1>3. ASSUME NEW i \in Ours(l) PROVE l[i].time \in (d + 1)..(d + w)
  <2>1. i \in 1..w
    <3>1. SUFFICES ASSUME i \notin 1..w PROVE FALSE
      OBVIOUS
    <3>2. i \in (w + 1)..Len(l) /\ l[i].boot = boots
      BY <1>1, <1>3, <3>1 DEF Ours
    <3>3. l[i] \in FrameType
      BY <1>1, <3>2
    <3> QED BY <3>2, <3>3 DEF Once, FrameType
  <2> QED BY <1>2, <2>1
<1>4. ASSUME NEW t \in (d + 1)..(d + w) PROVE \E i \in Ours(l) : l[i].time = t
  <2>1. t - d \in 1..w /\ d + (t - d) = t
    OBVIOUS
  <2> QED BY <1>2, <2>1
<1> QED BY <1>3, <1>4 DEF Times

(* No sample is lost between the two files, and the disk has whole laps. *)
LEMMA FramesAreWhole ==
  ASSUME S!SizeAssumption, FramesInv
  PROVE  S!PicksUp /\ S!WholeLaps
<1>1. PICK d \in 0..sample : Written(d)
  BY DEF FramesInv, FramesInOrder
<1>2. PICK w : w = wpos["flight"]
  OBVIOUS
<1>3. /\ d \in Nat /\ w \in Nat /\ boots \in Nat
      /\ pc = "flight" => sample = d + w
      /\ "detect" \in S!LogFiles /\ "flight" \in S!LogFiles
  <2>1. sample \in Nat /\ boots \in Nat /\ wpos["flight"] \in Nat
    BY DEF FramesInv, FramesTypeOK, S!LogFiles
  <2> QED BY <1>1, <1>2, <2>1 DEF Written, S!LogFiles
<1>4. PICK k \in 0..d : (k = 0 => d = 0) /\ S!Newest("detect") = ((d - k) + 1)..d
  <2>1. /\ cache["detect"] \in Seq(FrameType) /\ wpos["detect"] \in Nat /\ Size["detect"] \in Nat \ {0}
        /\ Circular(cache["detect"], wpos["detect"], Size["detect"], d)
    BY <1>1, <1>3 DEF FramesInv, FramesTypeOK, S!SizeAssumption, Written
  <2>2. S!Newest("detect") = Times(cache["detect"])
    BY DEF S!Newest, S!Now, Times, Ours
  <2> QED BY <1>3, <2>1, <2>2, CircularTimes
<1>5. S!Newest("flight") = (d + 1)..(d + w)
  <2>1. /\ cache["flight"] \in Seq(FrameType) /\ Size["flight"] \in Nat
        /\ Once(cache["flight"], w, Size["flight"], d)
    BY <1>1, <1>2, <1>3 DEF FramesInv, FramesTypeOK, S!SizeAssumption, Written
  <2>2. S!Newest("flight") = Times(cache["flight"])
    BY DEF S!Newest, S!Now, Times, Ours
  <2> QED BY <1>3, <2>1, <2>2, OnceTimes
<1>11. k \in Nat /\ k <= d /\ (k = 0 => d = 0)
  BY <1>3, <1>4
<1>6. S!Newest("detect") \cup S!Newest("flight") = ((d - k) + 1)..(d + w)
  <2>1. (((d - k) + 1)..d) \cup ((d + 1)..(d + w)) = ((d - k) + 1)..(d + w)
    BY <1>3, <1>11
  <2> QED BY <1>4, <1>5, <2>1
<1>7. pc = "flight" => sample \in ((d - k) + 1)..(d + w) \/ sample = 0
  BY <1>3, <1>11
<1>8. S!PicksUp
  <2>1. \A t \in (d + 1)..(d + w) : \A u \in ((d - k) + 1)..d : u < t
    BY <1>3, <1>11
  <2>2. \A t, u \in ((d - k) + 1)..(d + w) : \A v \in t..u : v \in ((d - k) + 1)..(d + w)
    BY <1>3, <1>11
  <2> QED BY <1>4, <1>5, <1>6, <1>7, <2>1, <2>2 DEF S!PicksUp
<1>9. ASSUME NEW f \in S!LogFiles, WholeLap(disk[f], Size[f]), NEW i \in 1..(Size[f] - 1)
      PROVE  disk[f][i + 1] = [disk[f][i] EXCEPT !.time = @ + 1]
  <2>1. disk[f] \in Seq(FrameType) /\ Size[f] \in Nat \ {0} /\ Len(disk[f]) = Size[f]
    BY <1>9 DEF FramesInv, FramesTypeOK, S!SizeAssumption, WholeLap
  <2>2. i \in 1..Size[f] /\ i + 1 \in 1..Size[f] /\ 1 \in 1..Size[f]
    BY <2>1
  <2>3. disk[f][i] \in FrameType /\ disk[f][i + 1] \in FrameType /\ disk[f][1] \in FrameType
    BY <2>1, <2>2
  <2>4. /\ disk[f][i + 1].boot = disk[f][i].boot
        /\ disk[f][i].time + 1 = disk[f][1].time + i /\ disk[f][i + 1].time + 1 = disk[f][1].time + (i + 1)
    BY <1>9, <2>2 DEF WholeLap
  <2>5. disk[f][i + 1].time = disk[f][i].time + 1
    BY <2>3, <2>4 DEF FrameType
  <2> QED BY <2>3, <2>4, <2>5 DEF FrameType
<1>10. S!WholeLaps
  BY <1>9 DEF S!WholeLaps, FramesInv, LapsKept, WholeLap
<1> QED BY <1>8, <1>10

-----------------------------------------------------------------------------
(* The records of the reefer.                                              *)

Record == [boot : Nat, n : Nat]

RecordsTypeOK ==
  /\ queue \in [G!Reader -> Seq(Record)] /\ contents \in [G!Reader -> Seq(Record)]
  /\ saved \in [G!Reader -> Seq(Record)] /\ backlog \in [G!Reader -> Seq(Record)]
  /\ readings \in [G!Reader -> Nat] /\ lost \in [G!Reader -> Nat] /\ power \in Nat
  /\ control \in Seq({"BEGIN_STORAGE", "FINISH_STORAGE"})

(* Records of this flight, in the order of the readings, of the first n.   *)
InOrder(l) == \A i, j \in DOMAIN l : i < j => l[i].n < l[j].n
OfFlight(l, n) == \A i \in DOMAIN l : l[i].boot = power /\ l[i].n <= n
Before(l, m) == \A i \in DOMAIN l, j \in DOMAIN m : l[i].n < m[j].n

Records(r) == readings[r] \div Pack[r]

(* What was read is in the file, then in the queue, and the rest is lost.  *)
RecordsInOrder ==
  \A r \in G!Reader :
    /\ Len(contents[r]) + Len(queue[r]) + lost[r] = Records(r)
    /\ InOrder(contents[r]) /\ InOrder(queue[r]) /\ Before(contents[r], queue[r])
    /\ OfFlight(contents[r], Records(r)) /\ OfFlight(queue[r], Records(r))

(* The order to finish comes when everything is set up, and storage closes *)
(* its files once it has come.                                             *)
FinishOrdered == main \in {"finishing", "landed", "over"}
Closing == storage \in {"closing", "done"}
OrdersInOrder ==
  /\ main = "setup" => control = <<>>
  /\ storage = "waiting" => main \in {"setup", "begin storage"} /\ control \in {<<>>, <<"BEGIN_STORAGE">>}
  /\ main = "setup" => storage = "waiting"
  /\ storage \in {"polling", "closing", "done"} /\ control # <<>> => FinishOrdered
  /\ Closing => FinishOrdered

(* On the flash are the records of this flight, if they were closed, and   *)
(* behind them those of earlier ones.                                      *)
SavedInOrder ==
  G!NewestFirst /\ \A r \in G!Reader : \A i \in DOMAIN saved[r] :
    \/ saved[r][i].boot < power
    \/ saved[r][i].boot = power /\ Closing /\ i <= Len(contents[r])

RecordsInv == RecordsTypeOK /\ RecordsInOrder /\ OrdersInOrder /\ SavedInOrder

(* Readings to a record: the next reading makes one full, or does not. *)
LEMMA NextRecord ==
  ASSUME NEW size \in Nat \ {0}, NEW m \in Nat
  PROVE  /\ m \div size \in Nat
         /\ (m + 1) \div size = IF (m + 1) % size = 0 THEN (m \div size) + 1 ELSE m \div size
<1> DEFINE q == m \div size
           p == (m + 1) \div size
           r == m % size
           s == (m + 1) % size
<1>1. /\ m = size * q + r /\ q \in Int /\ r \in Int /\ 0 <= r /\ r < size
      /\ m + 1 = size * p + s /\ p \in Int /\ s \in Int /\ 0 <= s /\ s < size
  BY SMT
<1> HIDE DEF q, p, r, s
<1>2. PICK d \in Int : d = p - q
  BY <1>1
<1>3. size * d = size * p - size * q
  BY <1>1, <1>2, SMT
<1>4. size * d = r + 1 - s
  <2>1. size * p \in Int /\ size * q \in Int
    BY <1>1
  <2> QED BY <1>1, <1>3, <2>1
<1>5. d >= 0
  <2>1. d <= -1 => size * d <= -size
    BY SMT
  <2> QED BY <1>1, <1>2, <1>4, <2>1
<1>6. d <= 1
  <2>1. d >= 2 => size * d >= 2 * size
    BY SMT
  <2> QED BY <1>1, <1>2, <1>4, <2>1
<1>7. d = 0 => s = r + 1
  BY <1>1, <1>4
<1>8. d = 1 => s = r + 1 - size
  BY <1>1, <1>4
<1>9. p = IF s = 0 THEN q + 1 ELSE q
  <2>1. d = 0 \/ d = 1
    BY <1>2, <1>5, <1>6
  <2>2. CASE d = 0
    BY <1>1, <1>2, <1>7, <2>2
  <2>3. CASE d = 1
    BY <1>1, <1>2, <1>8, <2>3
  <2> QED BY <2>1, <2>2, <2>3
<1>10. q >= 0
  <2>1. q <= -1 => size * q <= -size
    BY <1>1, SMT
  <2>2. size * q \in Int
    BY <1>1
  <2> QED BY <1>1, <2>1, <2>2
<1>11. q \in Nat
  BY <1>1, <1>10
<1> QED BY <1>9, <1>11 DEF q, p, s

(* How many records a reader has made is a number. *)
LEMMA RecordsType ==
  ASSUME G!PackAssumption, RecordsTypeOK, NEW r \in G!Reader
  PROVE  Records(r) \in Nat
<1>1. Pack[r] \in Nat \ {0} /\ readings[r] \in Nat
  BY DEF G!PackAssumption, RecordsTypeOK
<1> QED BY <1>1, NextRecord DEF Records

(* Nothing is recorded before the power comes on. *)
LEMMA RecordsStart ==
  ASSUME G!PackAssumption, G!Init
  PROVE  RecordsInv
<1>1. /\ main = "setup" /\ readings = [r \in G!Reader |-> 0] /\ queue = [r \in G!Reader |-> <<>>]
      /\ control = <<>> /\ storage = "waiting" /\ contents = [r \in G!Reader |-> <<>>]
      /\ lost = [r \in G!Reader |-> 0] /\ backlog = [r \in G!Reader |-> <<>>]
      /\ saved = [r \in G!Reader |-> <<>>] /\ power = 1
  BY DEF G!Init, G!NoneYet, G!Nothing
<1>2. RecordsTypeOK
  BY <1>1 DEF RecordsTypeOK
<1>3. \A r \in G!Reader : Records(r) = 0
  <2>1. \A p \in Nat \ {0} : 0 \div p = 0
    BY SMT
  <2>2. \A r \in G!Reader : Pack[r] \in Nat \ {0} /\ readings[r] = 0
    BY <1>1 DEF G!PackAssumption
  <2> QED BY <2>1, <2>2 DEF Records
<1>4. RecordsInOrder
  BY <1>1, <1>3 DEF RecordsInOrder, InOrder, Before, OfFlight
<1>5. OrdersInOrder
  BY <1>1 DEF OrdersInOrder, FinishOrdered, Closing
<1>7. SavedInOrder
  BY <1>1 DEF SavedInOrder, G!NewestFirst
<1> QED BY <1>2, <1>4, <1>5, <1>7 DEF RecordsInv

(* A step that moves no record. *)
LEMMA RecordsStay ==
  ASSUME RecordsInv, UNCHANGED <<readings, queue, contents, saved, backlog, lost, power>>,
         control' \in Seq({"BEGIN_STORAGE", "FINISH_STORAGE"}), OrdersInOrder',
         Closing' <=> Closing
  PROVE  RecordsInv'
<1>1. RecordsTypeOK /\ RecordsInOrder /\ SavedInOrder
  BY DEF RecordsInv
<1>2. RecordsTypeOK'
  BY <1>1 DEF RecordsTypeOK
<1>3. \A r : Records(r)' = Records(r)
  BY DEF Records
<1>4. RecordsInOrder'
  BY <1>1, <1>3 DEF RecordsInOrder, InOrder, Before, OfFlight
<1>6. SavedInOrder'
  BY <1>1 DEF SavedInOrder, G!NewestFirst
<1> QED BY <1>2, <1>4, <1>6 DEF RecordsInv

(* Main, the detectors and the shell move no record; the order to finish   *)
(* comes with what is queued then.                                         *)
LEMMA MainKeeps ==
  ASSUME RecordsInv, G!MainStep \/ G!Detect \/ G!Nogo \/ \E r \in G!Reader : G!Wake(r)
  PROVE  RecordsInv'
<1> DEFINE Same == UNCHANGED <<readings, queue, contents, saved, backlog, lost, power, storage>>
<1>1. RecordsTypeOK /\ RecordsInOrder /\ OrdersInOrder /\ SavedInOrder
  BY DEF RecordsInv
<1>2. control \in Seq({"BEGIN_STORAGE", "FINISH_STORAGE"})
  BY <1>1 DEF RecordsTypeOK
<1>3. CASE G!Setup
  <2>1. Same /\ main = "setup" /\ main' = "begin storage" /\ control' = <<"BEGIN_STORAGE">>
    BY <1>3 DEF G!Setup, G!storing, G!bounds, G!reading
  <2>2. storage = "waiting"
    BY <1>1, <2>1 DEF OrdersInOrder
  <2>3. control' \in Seq({"BEGIN_STORAGE", "FINISH_STORAGE"})
    <3>1. <<"BEGIN_STORAGE">> \in Seq({"BEGIN_STORAGE", "FINISH_STORAGE"})
      OBVIOUS
    <3>2. control' = <<"BEGIN_STORAGE">>
      BY <2>1
    <3> QED BY <3>1, <3>2
  <2>4. OrdersInOrder'
    BY <2>1, <2>2 DEF OrdersInOrder, Closing, FinishOrdered
  <2> QED BY <2>1, <2>2, <2>3, <2>4, RecordsStay DEF Closing
<1>4. CASE Same /\ UNCHANGED <<main, control>>
  <2>1. OrdersInOrder' /\ (Closing' <=> Closing)
    BY <1>1, <1>4 DEF OrdersInOrder, Closing, FinishOrdered
  <2> QED BY <1>2, <1>4, <2>1, RecordsStay
<1>5. CASE /\ Same /\ control' = control
           /\ main \notin {"setup", "begin storage"} \/ storage # "waiting"
           /\ main # "setup" /\ main' \notin {"setup", "begin storage"}
           /\ FinishOrdered => FinishOrdered'
  <2>1. OrdersInOrder' /\ (Closing' <=> Closing)
    BY <1>1, <1>5 DEF OrdersInOrder, Closing
  <2> QED BY <1>2, <1>5, <2>1, RecordsStay
<1>6. CASE G!finish_data_storage
  <2>1. /\ main = "stopping" /\ main' = "finishing" /\ control' = Append(control, "FINISH_STORAGE")
        /\ backlog' = queue /\ UNCHANGED <<readings, queue, contents, saved, lost, power, storage>>
    BY <1>6 DEF G!finish_data_storage, G!storing, G!bounds, G!reading
  <2>2. storage # "waiting" /\ ~Closing /\ ~Closing'
    BY <1>1, <2>1 DEF OrdersInOrder, FinishOrdered, Closing
  <2>3. control' \in Seq({"BEGIN_STORAGE", "FINISH_STORAGE"})
    BY <1>2, <2>1
  <2>4. RecordsTypeOK'
    BY <1>1, <2>1, <2>3 DEF RecordsTypeOK
  <2>5. \A r : Records(r)' = Records(r)
    BY <2>1 DEF Records
  <2>6. RecordsInOrder'
    BY <1>1, <2>1, <2>5 DEF RecordsInOrder, InOrder, Before, OfFlight
  <2>7. OrdersInOrder'
    BY <2>1, <2>2 DEF OrdersInOrder, FinishOrdered, Closing
  <2>9. SavedInOrder'
    BY <1>1, <2>1, <2>2 DEF SavedInOrder, G!NewestFirst
  <2> QED BY <2>4, <2>6, <2>7, <2>9 DEF RecordsInv
<1>7. CASE G!start_data_storage_thread \/ G!Check \/ G!PadRun \/ G!FlightOver \/ G!LandedEntered \/ G!LandedOver
  <2>1. Same /\ control' = control
    BY <1>7 DEF G!start_data_storage_thread, G!Check, G!PadRun, G!FlightOver, G!LandedEntered, G!LandedOver,
                G!storing, G!bounds, G!reading, G!queues
  <2>2. /\ main \notin {"setup", "begin storage"} \/ storage # "waiting"
        /\ main # "setup" /\ main' \notin {"setup", "begin storage"}
        /\ FinishOrdered => FinishOrdered'
    BY <1>7 DEF G!start_data_storage_thread, G!Check, G!PadRun, G!FlightOver, G!LandedEntered, G!LandedOver,
                G!Terminate, FinishOrdered
  <2> QED BY <1>5, <2>1, <2>2
<1>8. CASE G!Detect \/ G!Nogo \/ \E r \in G!Reader : G!Wake(r)
  <2>1. Same /\ UNCHANGED <<main, control>>
    BY <1>8 DEF G!Detect, G!Nogo, G!Wake, G!storing, G!bounds, G!reading, G!queues
  <2> QED BY <1>4, <2>1
<1> QED BY <1>3, <1>6, <1>7, <1>8 DEF G!MainStep

(* A reading may make a record, which is queued behind the others or lost. *)
LEMMA ReadKeeps ==
  ASSUME G!PackAssumption, RecordsInv, NEW r \in G!Reader, G!Read(r)
  PROVE  RecordsInv'
<1>1. RecordsTypeOK /\ RecordsInOrder /\ OrdersInOrder /\ SavedInOrder
  BY DEF RecordsInv
<1>2. /\ readings' = [readings EXCEPT ![r] = @ + 1]
      /\ UNCHANGED <<main, control, storage, contents, saved, backlog, power>>
  BY DEF G!Read, G!storing, G!bounds
<1>3. readings[r] \in Nat /\ Pack[r] \in Nat \ {0} /\ lost[r] \in Nat /\ power \in Nat
  BY <1>1 DEF RecordsTypeOK, G!PackAssumption
<1>4. readings' \in [G!Reader -> Nat] /\ readings'[r] = readings[r] + 1
      /\ \A s \in G!Reader : s # r => readings'[s] = readings[s]
  BY <1>1, <1>2, <1>3 DEF RecordsTypeOK
<1>5. PICK m : m = Records(r)
  OBVIOUS
<1>6. PICK x : x = [boot |-> power, n |-> Records(r)']
  OBVIOUS
<1>7. m \in Nat /\ Records(r)' \in Nat
      /\ Records(r)' = IF G!FullPack(r, readings[r] + 1) THEN m + 1 ELSE m
  BY <1>3, <1>4, <1>5, NextRecord DEF Records, G!FullPack
<1>8. x \in Record /\ x.boot = power /\ x.n = Records(r)'
  BY <1>3, <1>6, <1>7 DEF Record
<1>9. \A s \in G!Reader : s # r => Records(s)' = Records(s)
  BY <1>4 DEF Records
<1>10. \/ /\ queue' = queue /\ lost' = lost /\ Records(r)' = m
       \/ /\ queue' = [queue EXCEPT ![r] = Append(queue[r], x)] /\ lost' = lost /\ Records(r)' = m + 1
       \/ /\ queue' = queue /\ lost' = [lost EXCEPT ![r] = lost[r] + 1] /\ Records(r)' = m + 1
  <2>1. [boot |-> power, n |-> readings'[r] \div Pack[r]] = x
    BY <1>2, <1>6 DEF Records
  <2>2. CASE ~G!FullPack(r, readings'[r])
    BY <1>4, <1>7, <2>2 DEF G!Read
  <2>3. CASE G!FullPack(r, readings'[r]) /\ Len(queue[r]) < QueueSize
    BY <1>4, <1>7, <2>1, <2>3 DEF G!Read
  <2>4. CASE G!FullPack(r, readings'[r]) /\ ~(Len(queue[r]) < QueueSize)
    BY <1>4, <1>7, <2>4 DEF G!Read
  <2> QED BY <2>2, <2>3, <2>4
<1>11. queue[r] \in Seq(Record) /\ Len(queue[r]) \in Nat /\ DOMAIN queue[r] = 1..Len(queue[r])
       /\ contents[r] \in Seq(Record) /\ Len(contents[r]) \in Nat
  BY <1>1 DEF RecordsTypeOK
<1>12. \A s \in G!Reader : s # r => queue'[s] = queue[s] /\ lost'[s] = lost[s]
  BY <1>1, <1>10 DEF RecordsTypeOK
<1>13. /\ Len(contents[r]) + Len(queue[r]) + lost[r] = m
       /\ InOrder(contents[r]) /\ InOrder(queue[r]) /\ Before(contents[r], queue[r])
       /\ OfFlight(contents[r], m) /\ OfFlight(queue[r], m)
  BY <1>1, <1>5 DEF RecordsInOrder
<1>14. queue'[r] = queue[r] \/ (queue'[r] = Append(queue[r], x) /\ x.n = m + 1)
  BY <1>1, <1>8, <1>10 DEF RecordsTypeOK
<1>15. /\ queue'[r] \in Seq(Record) /\ Len(queue'[r]) \in {Len(queue[r]), Len(queue[r]) + 1}
       /\ Len(queue[r]) + 1 = Len(queue'[r]) => queue'[r][Len(queue[r]) + 1] = x /\ x.n = m + 1
       /\ \A i \in 1..Len(queue[r]) : queue'[r][i] = queue[r][i]
  <2>1. CASE queue'[r] = queue[r]
    BY <1>11, <2>1
  <2>2. CASE queue'[r] = Append(queue[r], x) /\ x.n = m + 1
    BY <1>8, <1>11, <2>2, Appended
  <2> QED BY <1>14, <2>1, <2>2
<1>16. RecordsTypeOK'
  <2>1. queue' \in [G!Reader -> Seq(Record)]
    BY <1>1, <1>10, <1>14, <1>15 DEF RecordsTypeOK
  <2>2. lost[r] + 1 \in Nat
    BY <1>3
  <2>3. lost' \in [G!Reader -> Nat]
    BY <1>1, <1>10, <2>2 DEF RecordsTypeOK
  <2> QED BY <1>1, <1>2, <1>4, <2>1, <2>3 DEF RecordsTypeOK
<1>17. RecordsInOrder'
  <2>1. SUFFICES ASSUME NEW s \in G!Reader
                 PROVE /\ Len(contents[s]) + Len(queue'[s]) + lost'[s] = Records(s)'
                       /\ InOrder(contents[s]) /\ InOrder(queue'[s]) /\ Before(contents[s], queue'[s])
                       /\ OfFlight(contents[s], Records(s)') /\ OfFlight(queue'[s], Records(s)')
    BY <1>2 DEF RecordsInOrder, OfFlight, InOrder, Before
  <2>2. CASE s # r
    BY <1>1, <1>9, <1>12, <2>2 DEF RecordsInOrder
  <2>3. CASE s = r
    <3>0. /\ Len(contents[r]) + (Len(queue[r]) + 1) + lost[r] = m + 1
          /\ Len(contents[r]) + Len(queue[r]) + (lost[r] + 1) = m + 1
      <4>1. \A a, b, c, d \in Nat : a + b + c = d => a + (b + 1) + c = d + 1 /\ a + b + (c + 1) = d + 1
        OBVIOUS
      <4>2. Len(contents[r]) \in Nat /\ Len(queue[r]) \in Nat /\ lost[r] \in Nat /\ m \in Nat
        BY <1>3, <1>7, <1>11
      <4>3. Len(contents[r]) + Len(queue[r]) + lost[r] = m
        BY <1>13
      <4> DEFINE a == Len(contents[r])
                 b == Len(queue[r])
                 c == lost[r]
      <4> HIDE DEF a, b, c
      <4>4. a + b + c = m /\ a \in Nat /\ b \in Nat /\ c \in Nat
        BY <4>2, <4>3 DEF a, b, c
      <4>5. a + (b + 1) + c = m + 1 /\ a + b + (c + 1) = m + 1
        BY <4>1, <4>2, <4>4
      <4> QED BY <4>5 DEF a, b, c
    <3>1. Len(contents[r]) + Len(queue'[r]) + lost'[r] = Records(r)'
      <4>1. CASE queue' = queue /\ lost' = lost /\ Records(r)' = m
        BY <1>13, <4>1
      <4>2. CASE queue' = [queue EXCEPT ![r] = Append(queue[r], x)] /\ lost' = lost /\ Records(r)' = m + 1
        <5>1. queue'[r] = Append(queue[r], x)
          BY <1>1, <4>2 DEF RecordsTypeOK
        <5>2. Len(queue'[r]) = Len(queue[r]) + 1
          BY <1>8, <1>11, <5>1
        <5>3. lost'[r] = lost[r] /\ Records(r)' = m + 1
          BY <4>2
        <5>4. Len(contents[r]) + (Len(queue[r]) + 1) + lost[r] = m + 1
          BY <3>0
        <5> QED BY <5>2, <5>3, <5>4
      <4>3. CASE queue' = queue /\ lost' = [lost EXCEPT ![r] = lost[r] + 1] /\ Records(r)' = m + 1
        <5>1. lost'[r] = lost[r] + 1
          BY <1>1, <4>3 DEF RecordsTypeOK
        <5>2. queue'[r] = queue[r] /\ Records(r)' = m + 1
          BY <4>3
        <5>3. Len(contents[r]) + Len(queue[r]) + (lost[r] + 1) = m + 1
          BY <3>0
        <5> QED BY <5>1, <5>2, <5>3
      <4> QED BY <1>10, <4>1, <4>2, <4>3
    <3>2. \A i \in 1..Len(queue[r]) : queue[r][i] \in Record /\ queue[r][i].n \in Nat /\ queue[r][i].n <= m
                                      /\ queue[r][i].boot = power
      <4>1. \A i \in 1..Len(queue[r]) : queue[r][i] \in Record
        BY <1>11
      <4> QED BY <1>11, <1>13, <4>1 DEF Record, OfFlight
    <3>3. \A i \in 1..Len(contents[r]) : contents[r][i].n \in Nat /\ contents[r][i].n <= m
                                         /\ contents[r][i].boot = power
      <4>1. \A i \in 1..Len(contents[r]) : contents[r][i] \in Record
        BY <1>11
      <4> QED BY <1>11, <1>13, <4>1 DEF Record, OfFlight
    <3>4. m <= Records(r)'
      BY <1>7
    <3>5. OfFlight(contents[r], Records(r)')
      BY <1>7, <1>11, <3>3, <3>4 DEF OfFlight
    <3>6. DOMAIN queue'[r] = 1..Len(queue'[r])
      BY <1>15
    <3>7. \A i \in DOMAIN queue'[r] :
            \/ i \in 1..Len(queue[r]) /\ queue'[r][i] = queue[r][i]
            \/ i = Len(queue[r]) + 1 /\ queue'[r][i] = x /\ x.n = m + 1
      BY <1>11, <1>15, <3>6
    <3>8. OfFlight(queue'[r], Records(r)')
      BY <1>7, <1>8, <3>2, <3>4, <3>7 DEF OfFlight
    <3>9. InOrder(queue'[r])
      <4>1. SUFFICES ASSUME NEW i \in DOMAIN queue'[r], NEW j \in DOMAIN queue'[r], i < j
                     PROVE queue'[r][i].n < queue'[r][j].n
        BY DEF InOrder
      <4>2. i \in 1..Len(queue[r]) /\ queue'[r][i] = queue[r][i]
        BY <1>11, <1>15, <3>6, <3>7, <4>1
      <4>3. CASE j \in 1..Len(queue[r]) /\ queue'[r][j] = queue[r][j]
        BY <1>11, <1>13, <4>1, <4>2, <4>3 DEF InOrder
      <4>4. CASE queue'[r][j] = x /\ x.n = m + 1
        BY <1>7, <3>2, <4>2, <4>4
      <4> QED BY <3>7, <4>3, <4>4
    <3>10. Before(contents[r], queue'[r])
      <4>1. SUFFICES ASSUME NEW i \in DOMAIN contents[r], NEW j \in DOMAIN queue'[r]
                     PROVE contents[r][i].n < queue'[r][j].n
        BY DEF Before
      <4>2. CASE j \in 1..Len(queue[r]) /\ queue'[r][j] = queue[r][j]
        BY <1>11, <1>13, <4>1, <4>2 DEF Before
      <4>3. CASE queue'[r][j] = x /\ x.n = m + 1
        BY <1>7, <1>11, <3>3, <4>3
      <4> QED BY <3>7, <4>2, <4>3
    <3> QED BY <1>13, <2>3, <3>1, <3>5, <3>8, <3>9, <3>10
  <2> QED BY <2>2, <2>3
<1>18. OrdersInOrder'
  BY <1>1, <1>2 DEF OrdersInOrder, FinishOrdered, Closing
<1>20. SavedInOrder'
  BY <1>1, <1>2 DEF SavedInOrder, G!NewestFirst, Closing
<1> QED BY <1>16, <1>17, <1>18, <1>20 DEF RecordsInv

(* The storage thread opens its files: the first order is taken. *)
LEMMA FilesOpenKeeps ==
  ASSUME RecordsInv, G!Open
  PROVE  RecordsInv'
<1>1. /\ storage = "waiting" /\ control # <<>> /\ control' = Tail(control) /\ storage' \in {"polling", "failed"}
      /\ UNCHANGED <<main, readings, queue, contents, saved, power, lost, backlog>>
  BY DEF G!Open, G!reading
<1>2. main = "begin storage" /\ control = <<"BEGIN_STORAGE">>
  BY <1>1 DEF RecordsInv, OrdersInOrder
<1>3. control' = <<>>
  <2>1. Tail(<<"BEGIN_STORAGE">>) = <<>>
    OBVIOUS
  <2> QED BY <1>1, <1>2, <2>1
<1>4. OrdersInOrder' /\ (Closing' <=> Closing)
  BY <1>1, <1>2, <1>3 DEF OrdersInOrder, Closing
<1>5. <<>> \in Seq({"BEGIN_STORAGE", "FINISH_STORAGE"})
  OBVIOUS
<1>6. control' \in Seq({"BEGIN_STORAGE", "FINISH_STORAGE"}) /\ ~(storage' = "polling" /\ control' # <<>>)
  BY <1>3, <1>5
<1> QED BY <1>1, <1>4, <1>6, RecordsStay

(* The first record of a queue goes to the end of the file, or is lost. *)
LEMMA RecordTaken ==
  ASSUME NEW c \in Seq(Record), NEW q \in Seq(Record), q # <<>>, NEW m \in Nat,
         InOrder(c), InOrder(q), Before(c, q), OfFlight(c, m), OfFlight(q, m)
  PROVE  /\ Tail(q) \in Seq(Record) /\ InOrder(Tail(q)) /\ OfFlight(Tail(q), m) /\ Before(c, Tail(q))
         /\ \A i \in DOMAIN Tail(q) : Tail(q)[i].n > q[1].n
         /\ Append(c, Head(q)) \in Seq(Record) /\ InOrder(Append(c, Head(q))) /\ OfFlight(Append(c, Head(q)), m)
         /\ Before(Append(c, Head(q)), Tail(q))
         /\ Len(Tail(q)) = Len(q) - 1 /\ Len(Append(c, Head(q))) = Len(c) + 1
<1>t. PICK t : t = Tail(q)
  OBVIOUS
<1>a. PICK a : a = Append(c, Head(q))
  OBVIOUS
<1>1. /\ Len(q) \in Nat /\ Len(q) > 0 /\ DOMAIN q = 1..Len(q) /\ Head(q) = q[1]
      /\ Len(c) \in Nat /\ DOMAIN c = 1..Len(c)
  OBVIOUS
<1>2. t \in Seq(Record) /\ Len(t) = Len(q) - 1 /\ DOMAIN t = 1..(Len(q) - 1)
  BY <1>t
<1>3. \A i \in 1..(Len(q) - 1) : t[i] = q[i + 1] /\ i + 1 \in 1..Len(q) /\ 1 < i + 1
  BY <1>1, <1>t
<1>4. q[1] \in Record /\ 1 \in 1..Len(q)
  BY <1>1
<1>5. /\ a \in Seq(Record) /\ Len(a) = Len(c) + 1 /\ a[Len(c) + 1] = q[1] /\ \A i \in 1..Len(c) : a[i] = c[i]
      /\ DOMAIN a = 1..(Len(c) + 1)
  <2>1. a = Append(c, q[1])
    BY <1>1, <1>a
  <2> QED BY <1>1, <1>4, <2>1, Appended
<1>6. \A i \in DOMAIN a : (i \in 1..Len(c) /\ a[i] = c[i]) \/ (i = Len(c) + 1 /\ a[i] = q[1])
  BY <1>1, <1>5
<1>7. InOrder(t)
  <2>1. \A i, j \in DOMAIN t : i < j => i + 1 < j + 1
    BY <1>1, <1>2
  <2> QED BY <1>1, <1>2, <1>3, <2>1 DEF InOrder
<1>8. OfFlight(t, m) /\ Before(c, t)
  <2>1. OfFlight(t, m)
    <3>1. \A i \in DOMAIN t : t[i] = q[i + 1] /\ i + 1 \in DOMAIN q
      BY <1>1, <1>2, <1>3, Zenon
    <3>2. \A j \in DOMAIN q : q[j].boot = power /\ q[j].n <= m
      BY DEF OfFlight
    <3> QED BY <3>1, <3>2, Zenon DEF OfFlight
  <2>2. Before(c, t)
    BY <1>1, <1>2, <1>3 DEF Before
  <2> QED BY <2>1, <2>2
<1>9. ASSUME NEW i \in DOMAIN t PROVE q[1].n < t[i].n /\ q[1].n \in Nat /\ t[i].n \in Nat
  <2>1. t[i] \in Record
    BY <1>2, <1>9
  <2> QED BY <1>1, <1>2, <1>3, <1>4, <1>9, <2>1 DEF InOrder, Record
<1>10. InOrder(a)
  BY <1>1, <1>4, <1>5, <1>6 DEF InOrder, Before
<1>11. OfFlight(a, m)
  BY <1>1, <1>4, <1>6 DEF OfFlight
<1>12. Before(a, t)
  <2>1. SUFFICES ASSUME NEW i \in DOMAIN a, NEW j \in DOMAIN t PROVE a[i].n < t[j].n
    BY DEF Before
  <2>2. CASE i \in 1..Len(c) /\ a[i] = c[i]
    BY <1>1, <1>8, <2>2 DEF Before
  <2>3. CASE a[i] = q[1]
    BY <1>9, <2>3
  <2> QED BY <1>6, <2>2, <2>3
<1>13. \A i \in DOMAIN t : t[i].n > q[1].n
  BY <1>9
<1> QED BY <1>t, <1>a, <1>2, <1>5, <1>7, <1>8, <1>10, <1>11, <1>12, <1>13

(* A round of the storage thread: every queue that has a record gives up   *)
(* its first, and an order ends the rounds.                                *)
LEMMA StoreKeeps ==
  ASSUME G!PackAssumption, RecordsInv, G!Store
  PROVE  RecordsInv'
<1>1. RecordsTypeOK /\ RecordsInOrder /\ OrdersInOrder /\ SavedInOrder
  BY DEF RecordsInv
<1>2. /\ storage = "polling" /\ control' = <<>> /\ storage' = IF control = <<>> THEN "polling" ELSE "closing"
      /\ UNCHANGED <<main, readings, saved, power, backlog>>
      /\ queue' = [r \in G!Reader |-> IF r \in G!Taken THEN Tail(queue[r]) ELSE queue[r]]
  BY DEF G!Store, G!reading
<1>3. PICK failing \in {{}} \cup {{r} : r \in G!Taken} :
        /\ contents' = [r \in G!Reader |-> IF r \in G!Taken \ failing
                                           THEN Append(contents[r], Head(queue[r])) ELSE contents[r]]
        /\ lost' = [r \in G!Reader |-> IF r \in failing THEN lost[r] + 1 ELSE lost[r]]
  BY DEF G!Store
<1>4. failing \subseteq G!Taken /\ G!Taken = {r \in G!Reader : queue[r] # <<>>}
  BY <1>3 DEF G!Taken
<1>5. \A r : Records(r)' = Records(r)
  BY <1>2 DEF Records
<1>6. ASSUME NEW r \in G!Reader, r \notin G!Taken
      PROVE  queue'[r] = queue[r] /\ queue[r] = <<>> /\ contents'[r] = contents[r] /\ lost'[r] = lost[r]
  BY <1>2, <1>3, <1>4, <1>6
<1>7. ASSUME NEW r \in G!Taken
      PROVE  /\ queue'[r] = Tail(queue[r]) /\ queue[r] # <<>> /\ r \in G!Reader
             /\ \/ contents'[r] = contents[r] /\ lost'[r] = lost[r] + 1
                \/ contents'[r] = Append(contents[r], Head(queue[r])) /\ lost'[r] = lost[r]
  <2>1. r \in G!Reader /\ queue[r] # <<>> /\ queue'[r] = Tail(queue[r])
    BY <1>2, <1>4, <1>7
  <2>2. CASE r \in failing
    BY <1>3, <2>1, <2>2
  <2>3. CASE r \notin failing
    BY <1>3, <2>1, <2>3
  <2> QED BY <2>1, <2>2, <2>3
<1>8. ASSUME NEW r \in G!Reader
      PROVE  /\ queue[r] \in Seq(Record) /\ contents[r] \in Seq(Record) /\ lost[r] \in Nat /\ Records(r) \in Nat
             /\ Len(contents[r]) + Len(queue[r]) + lost[r] = Records(r)
             /\ InOrder(contents[r]) /\ InOrder(queue[r]) /\ Before(contents[r], queue[r])
             /\ OfFlight(contents[r], Records(r)) /\ OfFlight(queue[r], Records(r))
  BY <1>1, RecordsType DEF RecordsTypeOK, RecordsInOrder
<1>9. ASSUME NEW r \in G!Taken
      PROVE  /\ queue'[r] \in Seq(Record) /\ contents'[r] \in Seq(Record) /\ lost'[r] \in Nat
             /\ Len(contents'[r]) + Len(queue'[r]) + lost'[r] = Records(r)
             /\ InOrder(contents'[r]) /\ InOrder(queue'[r]) /\ Before(contents'[r], queue'[r])
             /\ OfFlight(contents'[r], Records(r)) /\ OfFlight(queue'[r], Records(r))
             /\ \A i \in DOMAIN queue'[r] : queue'[r][i].n > queue[r][1].n
  <2>1. r \in G!Reader /\ queue'[r] = Tail(queue[r]) /\ queue[r] # <<>>
    BY <1>7
  <2>2. PICK a : a = Append(contents[r], Head(queue[r]))
    OBVIOUS
  <2>3. /\ queue'[r] \in Seq(Record) /\ InOrder(queue'[r]) /\ OfFlight(queue'[r], Records(r))
        /\ \A i \in DOMAIN queue'[r] : queue'[r][i].n > queue[r][1].n
        /\ Before(contents[r], queue'[r]) /\ Len(contents[r]) + Len(queue'[r]) + (lost[r] + 1) = Records(r)
        /\ a \in Seq(Record) /\ InOrder(a) /\ OfFlight(a, Records(r)) /\ Before(a, queue'[r])
        /\ Len(a) + Len(queue'[r]) + lost[r] = Records(r)
    <3>1. PICK c, q, l, m, t : c = contents[r] /\ q = queue[r] /\ l = lost[r] /\ m = Records(r) /\ t = queue'[r]
      OBVIOUS
    <3>2. /\ q \in Seq(Record) /\ c \in Seq(Record) /\ l \in Nat /\ m \in Nat /\ Len(c) + Len(q) + l = m
          /\ InOrder(c) /\ InOrder(q) /\ Before(c, q) /\ OfFlight(c, m) /\ OfFlight(q, m)
      BY <1>8, <2>1, <3>1
    <3>3. q # <<>> /\ t = Tail(q) /\ a = Append(c, Head(q))
      BY <2>1, <2>2, <3>1
    <3>4. /\ Tail(q) \in Seq(Record) /\ InOrder(Tail(q)) /\ OfFlight(Tail(q), m) /\ Before(c, Tail(q))
          /\ \A i \in DOMAIN Tail(q) : Tail(q)[i].n > q[1].n
          /\ Append(c, Head(q)) \in Seq(Record) /\ InOrder(Append(c, Head(q))) /\ OfFlight(Append(c, Head(q)), m)
          /\ Before(Append(c, Head(q)), Tail(q))
          /\ Len(Tail(q)) = Len(q) - 1 /\ Len(Append(c, Head(q))) = Len(c) + 1
      BY <3>2, <3>3, RecordTaken, ZenonT(30)
    <3>5. /\ t \in Seq(Record) /\ InOrder(t) /\ OfFlight(t, m) /\ \A i \in DOMAIN t : t[i].n > q[1].n
          /\ Before(c, t) /\ a \in Seq(Record) /\ InOrder(a) /\ OfFlight(a, m) /\ Before(a, t)
      BY <3>3, <3>4
    <3>6. Len(t) = Len(q) - 1 /\ Len(a) = Len(c) + 1 /\ Len(c) \in Nat /\ Len(q) \in Nat
      BY <3>2, <3>3, <3>4
    <3>7. Len(c) + Len(t) + (l + 1) = m /\ Len(a) + Len(t) + l = m
      BY <3>2, <3>6
    <3> QED BY <3>1, <3>5, <3>7
  <2>4. CASE contents'[r] = contents[r] /\ lost'[r] = lost[r] + 1
    <3>1. lost[r] + 1 \in Nat
      BY <1>1, <2>1 DEF RecordsTypeOK
    <3> QED BY <1>8, <2>1, <2>3, <2>4, <3>1
  <2>5. CASE contents'[r] = a /\ lost'[r] = lost[r]
    BY <1>8, <2>1, <2>3, <2>5
  <2> QED BY <1>7, <2>2, <2>4, <2>5
<1>10. RecordsTypeOK'
  <2>1. \A r \in G!Reader : queue'[r] \in Seq(Record) /\ contents'[r] \in Seq(Record) /\ lost'[r] \in Nat
    BY <1>6, <1>8, <1>9
  <2>2. queue' \in [G!Reader -> Seq(Record)]
    BY <1>2, <2>1
  <2>3. contents' \in [G!Reader -> Seq(Record)]
    BY <1>3, <2>1
  <2>4. lost' \in [G!Reader -> Nat]
    BY <1>3, <2>1
  <2>5. <<>> \in Seq({"BEGIN_STORAGE", "FINISH_STORAGE"})
    OBVIOUS
  <2> QED BY <1>1, <1>2, <2>2, <2>3, <2>4, <2>5 DEF RecordsTypeOK
<1>11. RecordsInOrder'
  <2>1. SUFFICES ASSUME NEW r \in G!Reader
                 PROVE /\ Len(contents'[r]) + Len(queue'[r]) + lost'[r] = Records(r)
                       /\ InOrder(contents'[r]) /\ InOrder(queue'[r]) /\ Before(contents'[r], queue'[r])
                       /\ OfFlight(contents'[r], Records(r)) /\ OfFlight(queue'[r], Records(r))
    BY <1>2, <1>5 DEF RecordsInOrder, OfFlight, InOrder, Before
  <2>2. CASE r \in G!Taken
    BY <1>9, <2>2
  <2>3. CASE r \notin G!Taken
    BY <1>6, <1>8, <2>3
  <2> QED BY <2>2, <2>3
<1>12. OrdersInOrder'
  BY <1>1, <1>2 DEF OrdersInOrder, FinishOrdered, Closing
<1>14. SavedInOrder'
  BY <1>1, <1>2 DEF SavedInOrder, G!NewestFirst, Closing
<1> QED BY <1>10, <1>11, <1>12, <1>14 DEF RecordsInv

(* Of a file written over, each thing is the new one or, behind the new,   *)
(* what was there.                                                         *)
LEMMA NewOverTheOld ==
  ASSUME NEW T, NEW old \in Seq(T), NEW new \in Seq(T)
  PROVE  /\ G!WrittenOver(old, new) \in Seq(T)
         /\ \A i \in DOMAIN G!WrittenOver(old, new) :
              \/ i \in DOMAIN old /\ G!WrittenOver(old, new)[i] = old[i] /\ i > Len(new)
              \/ i \in DOMAIN new /\ G!WrittenOver(old, new)[i] = new[i]
<1>1. Len(old) \in Nat /\ Len(new) \in Nat /\ DOMAIN old = 1..Len(old) /\ DOMAIN new = 1..Len(new)
  OBVIOUS
<1>2. PICK m : m = Len(new) + 1
  OBVIOUS
<1>3. PICK n : n = Len(old)
  OBVIOUS
<1>4. PICK rest : rest = SubSeq(old, m, n)
  OBVIOUS
<1>5. m \in Int /\ n \in Int /\ \A i \in m..n : old[i] \in T
  BY <1>1, <1>2, <1>3
<1>6. /\ rest \in Seq(T) /\ Len(rest) = IF m <= n THEN n - m + 1 ELSE 0
      /\ \A i \in 1..(n - m + 1) : rest[i] = old[m + i - 1]
  <2>1. /\ SubSeq(old, m, n) \in Seq(T) /\ Len(SubSeq(old, m, n)) = IF m <= n THEN n - m + 1 ELSE 0
        /\ \A i \in 1..(n - m + 1) : SubSeq(old, m, n)[i] = old[m + i - 1]
    BY <1>5, SubSeqProperties
  <2> QED BY <1>4, <2>1
<1>7. Len(rest) \in Nat
  BY <1>6
<1>8. PICK both : both = new \o rest
  OBVIOUS
<1>9. /\ both \in Seq(T) /\ Len(both) = Len(new) + Len(rest)
      /\ \A i \in 1..(Len(new) + Len(rest)) : both[i] = IF i <= Len(new) THEN new[i] ELSE rest[i - Len(new)]
  BY <1>6, <1>8, ConcatProperties, Zenon
<1>10. DOMAIN both = 1..(Len(new) + Len(rest))
  BY <1>9
<1>11. ASSUME NEW i \in DOMAIN both
       PROVE  \/ i \in DOMAIN old /\ both[i] = old[i] /\ i > Len(new)
              \/ i \in DOMAIN new /\ both[i] = new[i]
  <2>1. i \in Nat /\ 1 <= i /\ i <= Len(new) + Len(rest)
    BY <1>1, <1>7, <1>10, <1>11
  <2>2. CASE i <= Len(new)
    BY <1>1, <1>9, <1>10, <1>11, <2>1, <2>2
  <2>3. CASE i > Len(new)
    <3>1. both[i] = rest[i - Len(new)]
      BY <1>1, <1>9, <1>10, <1>11, <2>1, <2>3
    <3>2. m <= n /\ Len(rest) = n - m + 1
      <4>1. Len(rest) > 0
        BY <1>1, <1>7, <2>1, <2>3
      <4>2. (m <= n /\ Len(rest) = n - m + 1) \/ Len(rest) = 0
        BY <1>6
      <4> QED BY <4>1, <4>2
    <3>3. PICK k : k = i - Len(new)
      OBVIOUS
    <3>4. k \in 1..(n - m + 1) /\ m + k - 1 = i /\ i \in 1..Len(old)
      BY <1>1, <1>2, <1>3, <2>1, <2>3, <3>2, <3>3
    <3>5. rest[k] = old[i]
      BY <1>6, <3>4
    <3> QED BY <1>1, <2>3, <3>1, <3>3, <3>4, <3>5
  <2> QED BY <1>1, <2>1, <2>2, <2>3
<1>12. G!WrittenOver(old, new) = both
  BY <1>2, <1>3, <1>4, <1>8 DEF G!WrittenOver
<1> QED BY <1>9, <1>11, <1>12

(* A file is closed: what this flight wrote is before what is left of the  *)
(* flights before it.                                                      *)
LEMMA CloseKeeps ==
  ASSUME RecordsInv, G!Close
  PROVE  RecordsInv'
<1>1. RecordsTypeOK /\ RecordsInOrder /\ OrdersInOrder /\ SavedInOrder
  BY DEF RecordsInv
<1>2. /\ storage = "closing" /\ storage' \in {"closing", "done"}
      /\ UNCHANGED <<main, readings, queue, control, contents, power, lost, backlog>>
  BY DEF G!Close, G!reading, G!queues
<1>3. \/ saved' = saved
      \/ \E r : saved' = [saved EXCEPT ![r] = G!WrittenOver(saved[r], contents[r])]
  BY DEF G!Close
<1>4. ASSUME NEW q \in G!Reader
      PROVE saved'[q] = saved[q] \/ saved'[q] = G!WrittenOver(saved[q], contents[q])
  BY <1>1, <1>3 DEF RecordsTypeOK
<1>5. Closing /\ Closing'
  BY <1>2 DEF Closing
<1>6. ASSUME NEW q \in G!Reader
      PROVE  /\ saved'[q] \in Seq(Record)
             /\ \A i \in DOMAIN saved'[q] :
                  \/ i \in DOMAIN saved[q] /\ saved'[q][i] = saved[q][i] /\ (saved'[q] = saved[q] \/ i > Len(contents[q]))
                  \/ i \in DOMAIN contents[q] /\ saved'[q][i] = contents[q][i]
  <2>1. CASE saved'[q] = saved[q]
    BY <1>1, <2>1 DEF RecordsTypeOK
  <2>2. CASE saved'[q] = G!WrittenOver(saved[q], contents[q])
    <3>1. PICK old : old = saved[q]
      OBVIOUS
    <3>2. PICK new : new = contents[q]
      OBVIOUS
    <3>3. old \in Seq(Record) /\ new \in Seq(Record)
      BY <1>1, <3>1, <3>2 DEF RecordsTypeOK
    <3>4. /\ G!WrittenOver(old, new) \in Seq(Record)
          /\ \A i \in DOMAIN G!WrittenOver(old, new) :
               \/ i \in DOMAIN old /\ G!WrittenOver(old, new)[i] = old[i] /\ i > Len(new)
               \/ i \in DOMAIN new /\ G!WrittenOver(old, new)[i] = new[i]
      BY <3>3, NewOverTheOld
    <3> QED BY <2>2, <3>1, <3>2, <3>4
  <2> QED BY <1>4, <2>1, <2>2
<1>7. RecordsTypeOK'
  <2>1. saved' \in [G!Reader -> Seq(Record)]
    <3>1. DOMAIN saved = G!Reader /\ saved = [q \in G!Reader |-> saved[q]]
      BY <1>1 DEF RecordsTypeOK
    <3>2. saved' = [q \in G!Reader |-> saved'[q]]
      BY <1>3, <3>1
    <3> QED BY <1>6, <3>2
  <2> QED BY <1>1, <1>2, <2>1 DEF RecordsTypeOK
<1>8. RecordsInOrder'
  BY <1>1, <1>2 DEF RecordsInOrder, OfFlight, InOrder, Before, Records
<1>9. OrdersInOrder'
  BY <1>1, <1>2 DEF OrdersInOrder, FinishOrdered, Closing
<1>11. SavedInOrder'
  <2>1. \A r \in G!Reader : \A i \in DOMAIN contents[r] : contents[r][i].boot = power
    BY <1>1 DEF RecordsInOrder, OfFlight
  <2>2. ASSUME NEW q \in G!Reader
        PROVE  /\ DOMAIN contents[q] = 1..Len(contents[q]) /\ DOMAIN saved[q] = 1..Len(saved[q])
               /\ DOMAIN saved'[q] = 1..Len(saved'[q]) /\ Len(contents[q]) \in Nat
               /\ Len(saved'[q]) \in Nat /\ Len(saved[q]) \in Nat
    BY <1>1, <1>6 DEF RecordsTypeOK
  <2>3. G!NewestFirst'
    <3>1. SUFFICES ASSUME NEW q \in G!Reader, NEW i \in DOMAIN saved'[q], NEW j \in DOMAIN saved'[q], i < j
                   PROVE  \/ saved'[q][i].boot > saved'[q][j].boot
                          \/ saved'[q][i].boot = saved'[q][j].boot /\ saved'[q][i].n < saved'[q][j].n
      BY DEF G!NewestFirst
    <3>2. CASE i \in DOMAIN saved[q] /\ j \in DOMAIN saved[q] /\ saved'[q][i] = saved[q][i] /\ saved'[q][j] = saved[q][j]
      BY <1>1, <3>1, <3>2 DEF SavedInOrder, G!NewestFirst
    <3>3. CASE /\ i \in DOMAIN contents[q] /\ saved'[q][i] = contents[q][i]
               /\ j \in DOMAIN contents[q] /\ saved'[q][j] = contents[q][j]
      <4>1. contents[q][i].n < contents[q][j].n
        BY <1>1, <3>1, <3>3 DEF RecordsInOrder, InOrder
      <4> QED BY <2>1, <3>3, <4>1
    <3>4. CASE /\ i \in DOMAIN contents[q] /\ saved'[q][i] = contents[q][i]
               /\ j \in DOMAIN saved[q] /\ saved'[q][j] = saved[q][j] /\ j > Len(contents[q])
      <4>1. contents[q][i].boot = power
        BY <2>1, <3>4
      <4>2. ~(j <= Len(contents[q]))
        BY <2>2, <3>4
      <4>3. saved[q][j].boot < power
        BY <1>1, <3>4, <4>2 DEF SavedInOrder
      <4>4. saved[q][j] \in Record /\ power \in Nat
        BY <1>1, <3>4 DEF RecordsTypeOK
      <4>5. saved[q][j].boot \in Nat
        BY <4>4 DEF Record
      <4> QED BY <3>4, <4>1, <4>3, <4>4, <4>5
    <3>5. CASE saved'[q] = saved[q]
      BY <3>1, <3>2, <3>5
    <3>6. ASSUME saved'[q] # saved[q], j \in DOMAIN contents[q], i > Len(contents[q]) PROVE FALSE
      BY <2>2, <3>1, <3>6
    <3> QED BY <1>6, <3>2, <3>3, <3>4, <3>5, <3>6
  <2>4. \A q \in G!Reader : \A i \in DOMAIN saved'[q] :
          \/ saved'[q][i].boot < power
          \/ saved'[q][i].boot = power /\ i <= Len(contents[q])
    <3>1. SUFFICES ASSUME NEW q \in G!Reader, NEW i \in DOMAIN saved'[q]
                   PROVE  \/ saved'[q][i].boot < power
                          \/ saved'[q][i].boot = power /\ i <= Len(contents[q])
      OBVIOUS
    <3>2. CASE i \in DOMAIN saved[q] /\ saved'[q][i] = saved[q][i]
      BY <1>1, <3>2 DEF SavedInOrder
    <3>3. CASE i \in DOMAIN contents[q] /\ saved'[q][i] = contents[q][i]
      BY <2>1, <2>2, <3>3
    <3> QED BY <1>6, <3>2, <3>3
  <2> QED BY <1>2, <1>5, <2>3, <2>4 DEF SavedInOrder
<1> QED BY <1>7, <1>8, <1>9, <1>11 DEF RecordsInv

(* Without power the flight's records are lost, but for those saved. *)
LEMMA PowerCycleKeeps ==
  ASSUME G!PackAssumption, RecordsInv, G!PowerCycle
  PROVE  RecordsInv'
<1>1. RecordsTypeOK /\ SavedInOrder
  BY DEF RecordsInv
<1>2. /\ main' = "setup" /\ readings' = [r \in G!Reader |-> 0] /\ queue' = [r \in G!Reader |-> <<>>]
      /\ control' = <<>> /\ storage' = "waiting" /\ contents' = [r \in G!Reader |-> <<>>]
      /\ lost' = [r \in G!Reader |-> 0] /\ backlog' = [r \in G!Reader |-> <<>>]
      /\ saved' = saved /\ power' = power + 1
  BY DEF G!PowerCycle, G!NoneYet, G!Nothing
<1>3. RecordsTypeOK'
  BY <1>1, <1>2 DEF RecordsTypeOK
<1>4. \A r \in G!Reader : Records(r)' = 0
  <2>1. \A p \in Nat \ {0} : 0 \div p = 0
    BY SMT
  <2>2. \A r \in G!Reader : Pack[r] \in Nat \ {0} /\ readings'[r] = 0
    BY <1>2 DEF G!PackAssumption
  <2> QED BY <2>1, <2>2 DEF Records
<1>5. RecordsInOrder'
  BY <1>2, <1>4 DEF RecordsInOrder, InOrder, Before, OfFlight
<1>6. OrdersInOrder'
  BY <1>2 DEF OrdersInOrder, FinishOrdered, Closing
<1>8. SavedInOrder'
  <2>1. SUFFICES ASSUME NEW r \in G!Reader, NEW i \in DOMAIN saved[r] PROVE saved[r][i].boot < power + 1
    BY <1>1, <1>2 DEF SavedInOrder, G!NewestFirst
  <2>2. saved[r][i] \in Record /\ power \in Nat
    BY <1>1 DEF RecordsTypeOK
  <2>3. saved[r][i].boot \in Nat
    BY <2>2 DEF Record
  <2>4. saved[r][i].boot < power \/ saved[r][i].boot = power
    BY <1>1 DEF SavedInOrder
  <2> QED BY <2>2, <2>3, <2>4
<1> QED BY <1>3, <1>5, <1>6, <1>8 DEF RecordsInv

(* Every step of the reefer keeps the records. *)
LEMMA RecordsNext ==
  ASSUME G!PackAssumption, RecordsInv, G!Next
  PROVE  RecordsInv'
<1>1. CASE G!MainStep \/ G!Detect \/ G!Nogo \/ \E r \in G!Reader : G!Wake(r)
  BY <1>1, MainKeeps
<1>2. CASE \E r \in G!Reader : G!Read(r)
  BY <1>2, ReadKeeps
<1>3. CASE G!StorageStep
  BY <1>3, FilesOpenKeeps, StoreKeeps, CloseKeeps DEF G!StorageStep
<1>4. CASE G!PowerCycle
  BY <1>4, PowerCycleKeeps
<1> QED BY <1>1, <1>2, <1>3, <1>4 DEF G!Next

(* What the flight promises of its records, of any that has a queue and a  *)
(* file as they are.                                                       *)
LEMMA RecordsAreAccountedFor ==
  ASSUME RecordsInv
  PROVE  G!RecordsAccountedFor /\ G!NewestFirst
<1>1. RecordsTypeOK /\ RecordsInOrder /\ SavedInOrder
  BY DEF RecordsInv
<1>2. G!RecordsAccountedFor
  <2>1. SUFFICES ASSUME NEW r \in G!Reader
                 PROVE  LET here == contents[r] \o queue[r]
                        IN  /\ Len(here) + lost[r] = readings[r] \div Pack[r]
                            /\ \A i, j \in DOMAIN here : i < j => here[i].n < here[j].n
    BY DEF G!RecordsAccountedFor
  <2>2. PICK c, q : c = contents[r] /\ q = queue[r]
    OBVIOUS
  <2>3. /\ c \in Seq(Record) /\ q \in Seq(Record) /\ Len(c) + Len(q) + lost[r] = readings[r] \div Pack[r]
        /\ InOrder(c) /\ InOrder(q) /\ Before(c, q)
    BY <1>1, <2>2 DEF RecordsTypeOK, RecordsInOrder, Records
  <2>4. /\ Len(c) \in Nat /\ Len(q) \in Nat /\ DOMAIN c = 1..Len(c) /\ DOMAIN q = 1..Len(q)
    BY <2>3
  <2>5. PICK here : here = c \o q
    OBVIOUS
  <2>6. /\ here \in Seq(Record) /\ Len(here) = Len(c) + Len(q)
        /\ \A i \in 1..(Len(c) + Len(q)) : here[i] = IF i <= Len(c) THEN c[i] ELSE q[i - Len(c)]
    BY <2>3, <2>5, ConcatProperties, Zenon
  <2>7. DOMAIN here = 1..(Len(c) + Len(q))
    BY <2>6
  <2>8. ASSUME NEW i \in DOMAIN here, NEW j \in DOMAIN here, i < j PROVE here[i].n < here[j].n
    <3>1. CASE j <= Len(c)
      <4>1. here[i] = c[i] /\ here[j] = c[j] /\ i \in DOMAIN c /\ j \in DOMAIN c
        BY <2>4, <2>6, <2>7, <2>8, <3>1
      <4> QED BY <2>3, <2>8, <4>1 DEF InOrder
    <3>2. CASE i <= Len(c) /\ ~(j <= Len(c))
      <4>1. here[i] = c[i] /\ here[j] = q[j - Len(c)] /\ i \in DOMAIN c /\ j - Len(c) \in DOMAIN q
        BY <2>4, <2>6, <2>7, <2>8, <3>2
      <4> QED BY <2>3, <4>1 DEF Before
    <3>3. CASE ~(i <= Len(c)) /\ ~(j <= Len(c))
      <4>1. /\ here[i] = q[i - Len(c)] /\ here[j] = q[j - Len(c)]
            /\ i - Len(c) \in DOMAIN q /\ j - Len(c) \in DOMAIN q /\ i - Len(c) < j - Len(c)
        BY <2>4, <2>6, <2>7, <2>8, <3>3
      <4> QED BY <2>3, <4>1 DEF InOrder
    <3> QED BY <2>4, <2>7, <2>8, <3>1, <3>2, <3>3
  <2> QED BY <2>2, <2>3, <2>5, <2>6, <2>8
<1>4. G!NewestFirst
  BY <1>1 DEF SavedInOrder
<1> QED BY <1>2, <1>4

-----------------------------------------------------------------------------
(* The launch detection of the reefer.                                     *)

DetectionTypeOK ==
  /\ thread \in [L!Detector -> {"waiting", "reading", "left"}]
  /\ DOMAIN buffer = L!Detector /\ DOMAIN index = L!Detector
  /\ \A d \in L!Detector : buffer[d] \in [L!Slots(d) -> Nat] /\ index[d] \in L!Slots(d)
  /\ read \in [L!Detector -> Seq(Int)] /\ saved \in [L!Detector -> Seq(Int)]
  /\ atLaunch \in [L!Detector -> Nat] /\ accel_running_sum \in Int /\ boost_detected \in BOOLEAN

(* A buffer has the latest readings, those of this lap before its index    *)
(* and those of the lap before behind it.                                  *)
Base(d) == Len(read[d]) - index[d]
RingInOrder ==
  \A d \in L!Detector :
    /\ Base(d) = 0 \/ Base(d) >= BufferSize[d]
    /\ \A i \in L!Slots(d) :
         buffer[d][i] = IF i < index[d] THEN Base(d) + i + 1
                        ELSE IF Base(d) = 0 THEN 0 ELSE (Base(d) - BufferSize[d]) + i + 1

(* The sums of the first readings, and the running sum as their difference. *)
SumsOf(sums, r) ==
  /\ sums \in [0..Len(r) -> Int] /\ sums[0] = 0
  /\ \A k \in 1..Len(r) : sums[k] = sums[k - 1] + r[k]
SumInOrder ==
  \E sums : SumsOf(sums, read["accel"])
            /\ accel_running_sum = sums[Len(read["accel"])] - sums[L!First("accel", Len(read["accel"]))]

(* After the launch each detector reads once more at most. *)
LaunchInOrder ==
  boost_detected =>
    \A d \in L!Detector :
      /\ atLaunch[d] <= Len(read[d]) /\ Len(read[d]) <= atLaunch[d] + 1
      /\ thread[d] = "reading" => Len(read[d]) = atLaunch[d]

(* What is to be kept and has been passed is saved.                        *)
Kept(d, n) == 1 <= n /\ n <= atLaunch[d] /\ n > (atLaunch[d] - BufferSize[d]) + 1
SavingInOrder ==
  /\ main \in {"checking", "on pad"} => saved = [d \in L!Detector |-> <<>>]
  /\ main \in {"accel", "altitude", "flying"} =>
       /\ boost_detected
       /\ \A d \in L!Detector :
            /\ Len(saved[d]) <= BufferSize[d]
            /\ \A i \in L!Slots(d) : i < Len(saved[d]) /\ Kept(d, buffer[d][i]) => saved[d][i + 1] = buffer[d][i]
  /\ main \in {"altitude", "flying"} /\ "accel" \notin unsaved => Len(saved["accel"]) = BufferSize["accel"]
  /\ main = "flying" /\ "altitude" \notin unsaved => Len(saved["altitude"]) = BufferSize["altitude"]

DetectionInv ==
  DetectionTypeOK /\ RingInOrder /\ SumInOrder /\ L!BoostIffLaunched /\ LaunchInOrder /\ SavingInOrder

(* The sum of some readings is the difference of two sums. *)
LEMMA SumIs ==
  ASSUME NEW r \in Seq(Int), NEW sums, SumsOf(sums, r), NEW n \in 0..Len(r), NEW m \in 0..n
  PROVE  L!Sum(r, m, n) = sums[n] - sums[m]
<1>1. Len(r) \in Nat /\ n \in Nat
  OBVIOUS
<1>3. m \in Nat /\ m \in 0..n
  BY <1>1
<1>4. /\ \A k \in 0..n : sums[k] \in Int
      /\ \A k \in 1..n : sums[k] = sums[k - 1] + r[k] /\ r[k] \in Int /\ k - 1 \in 0..n
  <2>1. 0..n \subseteq 0..Len(r) /\ 1..n \subseteq 1..Len(r) /\ \A k \in 1..n : k - 1 \in 0..n
    BY <1>1
  <2>2. \A k \in 1..Len(r) : r[k] \in Int
    OBVIOUS
  <2> QED BY <2>1, <2>2, Zenon DEF SumsOf
<1> DEFINE Body(f) == [k \in 0..n |-> IF k <= m THEN 0 ELSE f[k - 1] + r[k]]
           s == [k \in 0..n |-> IF k <= m THEN 0 ELSE sums[k] - sums[m]]
<1>5. s = Body(s)
  <2>1. SUFFICES ASSUME NEW k \in 0..n, ~(k <= m) PROVE sums[k] - sums[m] = s[k - 1] + r[k]
    OBVIOUS
  <2>2. k \in 1..n /\ k - 1 \in 0..n /\ m <= k - 1 /\ k - 1 \in Int
    BY <1>1, <1>3, <2>1
  <2>3. sums[m] \in Int /\ sums[k - 1] \in Int /\ r[k] \in Int /\ sums[k] = sums[k - 1] + r[k]
    BY <1>3, <1>4, <2>2
  <2>4. s[k - 1] = sums[k - 1] - sums[m]
    <3>1. CASE k - 1 <= m
      <4>1. k - 1 = m
        BY <1>3, <2>2, <3>1
      <4> QED BY <2>2, <2>3, <4>1
    <3>2. CASE ~(k - 1 <= m)
      BY <2>2, <3>2
    <3> QED BY <3>1, <3>2
  <2> QED BY <2>3, <2>4
<1>6. ASSUME NEW f, f = Body(f) PROVE f[n] = s[n]
  <2> DEFINE wrong == {k \in 0..n : f[k] # s[k]}
  <2>1. SUFFICES ASSUME n \in wrong PROVE FALSE
    BY <1>1
  <2>2. wrong \in SUBSET Nat /\ wrong # {}
    <3>1. 0..n \subseteq Nat
      BY <1>1
    <3> HIDE DEF s
    <3> QED BY <2>1, <3>1
  <2>3. PICK k \in wrong : \A l \in wrong : ~(l < k)
    <3> HIDE DEF wrong
    <3>1. PICK k \in wrong : \A l \in wrong : <<l, k>> \notin OpToRel(<, Nat)
      BY <2>2, WFMin, NatLessThanWellFounded, Zenon
    <3>2. \A l \in wrong : ~(l < k)
      BY <2>2, <3>1 DEF OpToRel
    <3> QED BY <3>1, <3>2
  <2>4. k \in 0..n /\ f[k] # s[k]
    BY <2>3
  <2>5. CASE k <= m
    <3>1. Body(f)[k] = 0 /\ s[k] = 0
      BY <2>4, <2>5
    <3> QED BY <1>6, <2>4, <3>1
  <2>6. CASE ~(k <= m)
    <3>1. k - 1 \in 0..n /\ k - 1 < k
      BY <1>1, <1>3, <2>4, <2>6
    <3>2. f[k - 1] = s[k - 1]
      BY <2>3, <3>1
    <3>3. Body(f)[k] = f[k - 1] + r[k] /\ Body(s)[k] = s[k - 1] + r[k]
      BY <2>4, <2>6
    <3>4. f[k] = Body(f)[k] /\ s[k] = Body(s)[k]
      <4> HIDE DEF s, Body
      <4> QED BY <1>5, <1>6
    <3> HIDE DEF s, Body
    <3> QED BY <2>4, <3>2, <3>3, <3>4
  <2> QED BY <2>5, <2>6
<1>7. s[n] = sums[n] - sums[m]
  BY <1>1, <1>3, <1>4
<1>8. PICK c : c = CHOOSE f : f = Body(f)
  OBVIOUS
<1>9. c = Body(c)
  <2> HIDE DEF Body, s
  <2> QED BY <1>5, <1>8
<1>10. L!Sum(r, m, n) = c[n]
  BY <1>8 DEF L!Sum
<1> QED BY <1>6, <1>7, <1>9, <1>10

(* Where the window of the first n readings begins. *)
LEMMA FirstIs ==
  ASSUME L!ReadingsAssumption, NEW d \in L!Detector, NEW n \in Nat
  PROVE  /\ L!First(d, n) \in 0..n /\ L!First(d, n) \in Nat
         /\ L!First(d, n) = IF n > BufferSize[d] THEN n - BufferSize[d] ELSE 0
         /\ BufferSize[d] \in Nat \ {0}
<1>1. BufferSize[d] \in Nat \ {0}
  BY DEF L!ReadingsAssumption
<1> QED BY <1>1 DEF L!First

(* One more reading adds one more sum, and leaves the others. *)
LEMMA OneMoreSum ==
  ASSUME NEW r \in Seq(Int), NEW sums, SumsOf(sums, r), NEW v \in Int,
         NEW more, more = [k \in 0..(Len(r) + 1) |-> IF k = Len(r) + 1 THEN sums[Len(r)] + v ELSE sums[k]]
  PROVE  /\ SumsOf(more, Append(r, v))
         /\ \A k \in 0..Len(r) : more[k] = sums[k]
         /\ more[Len(r) + 1] = sums[Len(r)] + v
<1>1. PICK n \in Nat : n = Len(r)
  OBVIOUS
<1>2. /\ Append(r, v) \in Seq(Int) /\ Len(Append(r, v)) = n + 1
      /\ Append(r, v)[n + 1] = v /\ \A k \in 1..n : Append(r, v)[k] = r[k]
  BY <1>1
<1>3. /\ \A k \in 0..n : sums[k] \in Int /\ k \in 0..(n + 1) /\ k # n + 1
      /\ n \in 0..n /\ n + 1 \in 0..(n + 1) /\ 0 \in 0..n
  <2>1. \A k \in 0..n : k \in 0..(n + 1) /\ k # n + 1
    BY <1>1
  <2> QED BY <1>1, <2>1 DEF SumsOf
<1>4. /\ \A k \in 0..n : more[k] = sums[k]
      /\ more[n + 1] = sums[n] + v
  BY <1>1, <1>3, Zenon
<1>5. \A k \in 0..(n + 1) : IF k = n + 1 THEN more[k] \in Int ELSE k \in 0..n /\ more[k] \in Int
  <2>1. sums[n] + v \in Int
    BY <1>3
  <2>2. \A k \in 0..(n + 1) : k = n + 1 \/ k \in 0..n
    BY <1>1
  <2> QED BY <1>3, <1>4, <2>1, <2>2
<1>6. more \in [0..(n + 1) -> Int]
  <2>1. \A k \in 0..(n + 1) : more[k] \in Int
    BY <1>5
  <2>2. more = [k \in 0..(n + 1) |-> IF k = n + 1 THEN sums[n] + v ELSE sums[k]]
    BY <1>1
  <2> QED BY <2>1, <2>2, Zenon
<1>7. ASSUME NEW k \in 1..(n + 1) PROVE more[k] = more[k - 1] + Append(r, v)[k]
  <2>1. CASE k = n + 1
    <3>1. more[k] = sums[n] + v /\ more[k - 1] = sums[n] /\ Append(r, v)[k] = v
      <4>1. k - 1 = n
        BY <1>1, <2>1
      <4> QED BY <1>2, <1>3, <1>4, <2>1, <4>1, Zenon
    <3> QED BY <3>1
  <2>2. CASE k # n + 1
    <3>1. k \in 1..n /\ k \in 0..n /\ k - 1 \in 0..n
      BY <1>1, <2>2
    <3>2. more[k] = sums[k] /\ more[k - 1] = sums[k - 1] /\ Append(r, v)[k] = r[k]
      BY <1>2, <1>4, <3>1, Zenon
    <3>3. sums[k] = sums[k - 1] + r[k]
      BY <1>1, <3>1, Zenon DEF SumsOf
    <3> QED BY <3>2, <3>3, Zenon
  <2> QED BY <2>1, <2>2
<1>8. more[0] = 0
  BY <1>3, <1>4, Zenon DEF SumsOf
<1>9. SumsOf(more, Append(r, v))
  BY <1>2, <1>6, <1>7, <1>8, Zenon DEF SumsOf
<1> QED BY <1>1, <1>4, <1>9, Zenon

(* The buffers, the sums and the files begin empty. *)
LEMMA DetectionStarts ==
  ASSUME L!ReadingsAssumption, L!Init
  PROVE  DetectionInv
<1>1. \A d \in L!Detector : /\ BufferSize[d] \in Nat \ {0} /\ 0 \in L!Slots(d) /\ L!Slots(d) \subseteq Int
                            /\ \A i \in L!Slots(d) : ~(i < 0)
  BY DEF L!ReadingsAssumption, L!Slots
<1>2. /\ read = [d \in L!Detector |-> <<>>] /\ saved = read /\ index = [d \in L!Detector |-> 0]
      /\ buffer = [d \in L!Detector |-> [i \in L!Slots(d) |-> 0]]
      /\ <<>> \in Seq(Int) /\ Len(<<>>) = 0
  BY DEF L!Init
<1>3. DetectionTypeOK
  <2>1. /\ DOMAIN buffer = L!Detector /\ DOMAIN index = L!Detector
        /\ \A d \in L!Detector : buffer[d] \in [L!Slots(d) -> Nat] /\ index[d] \in L!Slots(d)
    BY <1>1, <1>2
  <2>2. read \in [L!Detector -> Seq(Int)] /\ saved \in [L!Detector -> Seq(Int)]
    BY <1>2
  <2>3. /\ thread \in [L!Detector -> {"waiting", "reading", "left"}] /\ atLaunch \in [L!Detector -> Nat]
        /\ accel_running_sum \in Int
    BY DEF L!Init
  <2>4. boost_detected \in BOOLEAN
    BY Zenon DEF L!Init
  <2> QED BY <2>1, <2>2, <2>3, <2>4, Zenon DEF DetectionTypeOK
<1>4. RingInOrder
  <2>1. ASSUME NEW d \in L!Detector
        PROVE  Base(d) = 0 /\ \A i \in L!Slots(d) : buffer[d][i] = 0 /\ ~(i < index[d])
    BY <1>1, <1>2 DEF Base
  <2> QED BY <2>1 DEF RingInOrder
<1>5. SumInOrder
  <2>1. PICK sums : sums = [k \in 0..0 |-> 0]
    OBVIOUS
  <2>2. "accel" \in L!Detector /\ read["accel"] = <<>>
    BY <1>2 DEF L!Detector
  <2>3. sums[0] = 0 /\ sums \in [0..0 -> Int] /\ 1..0 = {}
    BY <2>1
  <2>4. SumsOf(sums, <<>>)
    BY <2>3, <1>2 DEF SumsOf
  <2>5. L!First("accel", 0) = 0
    BY <2>2, FirstIs
  <2> QED BY <1>2, <2>2, <2>3, <2>4, <2>5 DEF SumInOrder, L!Init
<1>6. L!BoostIffLaunched
  <2>1. \A d \in L!Detector : 1..Len(read[d]) = {}
    BY <1>2
  <2> QED BY <2>1 DEF L!BoostIffLaunched, L!Init
<1>7. LaunchInOrder
  BY DEF LaunchInOrder, L!Init
<1>8. SavingInOrder
  BY <1>2 DEF SavingInOrder, L!Init
<1> QED BY <1>3, <1>4, <1>5, <1>6, <1>7, <1>8 DEF DetectionInv

(* What stands at the index is the reading before the next window, if any. *)
LEMMA OldestIs ==
  ASSUME L!ReadingsAssumption, DetectionTypeOK, RingInOrder, NEW d \in L!Detector
  PROVE  /\ buffer[d][index[d]] = L!First(d, Len(read[d]) + 1)
         /\ Len(read[d]) \in Nat
<1>1. PICK n \in Nat : n = Len(read[d])
  BY DEF DetectionTypeOK
<1>2. PICK i \in Nat : i = index[d] /\ i < BufferSize[d] /\ i \in L!Slots(d)
  BY DEF DetectionTypeOK, L!Slots, L!ReadingsAssumption
<1>3. PICK size \in Nat \ {0} : size = BufferSize[d]
  BY FirstIs, 0 \in Nat
<1>4. /\ n - i = 0 \/ n - i >= size
      /\ buffer[d][i] = IF n - i = 0 THEN 0 ELSE ((n - i) - size) + i + 1
  BY <1>1, <1>2, <1>3 DEF RingInOrder, Base
<1>5. L!First(d, n + 1) = IF n + 1 > size THEN (n + 1) - size ELSE 0
  BY <1>1, <1>3, FirstIs
<1>6. buffer[d][i] = L!First(d, n + 1)
  BY <1>2, <1>3, <1>4, <1>5
<1> QED BY <1>1, <1>2, <1>6

(* What a reading of v changes. *)
Reads(d, v) ==
  /\ read' = [read EXCEPT ![d] = Append(@, v)]
  /\ buffer' = [buffer EXCEPT ![d][index[d]] = Len(read[d]) + 1]
  /\ index' = [index EXCEPT ![d] = (@ + 1) % BufferSize[d]]

(* A reading takes the place of the oldest and keeps the order of the ring. *)
LEMMA ReadKeepsRing ==
  ASSUME L!ReadingsAssumption, DetectionTypeOK, RingInOrder, NEW d \in L!Detector, NEW v \in Int, Reads(d, v)
  PROVE  /\ RingInOrder'
         /\ DOMAIN buffer' = L!Detector /\ DOMAIN index' = L!Detector
         /\ \A e \in L!Detector : buffer'[e] \in [L!Slots(e) -> Nat] /\ index'[e] \in L!Slots(e)
         /\ read' \in [L!Detector -> Seq(Int)]
<1>1. PICK n \in Nat : n = Len(read[d])
  BY OldestIs
<1>2. PICK i \in Nat : i = index[d] /\ i < BufferSize[d] /\ i \in L!Slots(d)
  BY DEF DetectionTypeOK, L!Slots, L!ReadingsAssumption
<1>3. PICK size \in Nat \ {0} : size = BufferSize[d] /\ L!Slots(d) = 0..(size - 1)
  BY FirstIs, 0 \in Nat DEF L!Slots
<1>4. /\ read[d] \in Seq(Int) /\ Append(read[d], v) \in Seq(Int) /\ Len(Append(read[d], v)) = n + 1
      /\ read'[d] = Append(read[d], v)
  BY <1>1 DEF DetectionTypeOK, Reads
<1>5. /\ index'[d] = (i + 1) % size
      /\ (i + 1) % size = IF i + 1 = size THEN 0 ELSE i + 1
  <2>1. (i + 1) % size = IF i + 1 = size THEN 0 ELSE i + 1
    BY <1>2, <1>3
  <2> QED BY <1>2, <1>3, <2>1 DEF DetectionTypeOK, Reads
<1>6. /\ buffer[d] \in [L!Slots(d) -> Nat]
      /\ buffer'[d] = [buffer[d] EXCEPT ![i] = n + 1]
  BY <1>1, <1>2 DEF DetectionTypeOK, Reads
<1>7. ASSUME NEW e \in L!Detector, e # d
      PROVE  read'[e] = read[e] /\ buffer'[e] = buffer[e] /\ index'[e] = index[e]
  BY <1>7 DEF DetectionTypeOK, Reads
<1>8. /\ n - i = 0 \/ n - i >= size
      /\ \A j \in L!Slots(d) :
           buffer[d][j] = IF j < i THEN (n - i) + j + 1 ELSE IF n - i = 0 THEN 0 ELSE ((n - i) - size) + j + 1
  BY <1>1, <1>2, <1>3 DEF RingInOrder, Base
<1>9. DOMAIN buffer' = L!Detector /\ DOMAIN index' = L!Detector /\ read' \in [L!Detector -> Seq(Int)]
  BY <1>4 DEF DetectionTypeOK, Reads
<1>10. \A e \in L!Detector : buffer'[e] \in [L!Slots(e) -> Nat] /\ index'[e] \in L!Slots(e)
  <2>1. buffer'[d] \in [L!Slots(d) -> Nat] /\ index'[d] \in L!Slots(d)
    <3>1. n + 1 \in Nat
      OBVIOUS
    <3>2. index'[d] \in L!Slots(d)
      BY <1>2, <1>3, <1>5
    <3> QED BY <1>6, <3>1, <3>2
  <2> QED BY <1>7, <2>1 DEF DetectionTypeOK
<1>11. RingInOrder'
  <2>1. SUFFICES ASSUME NEW e \in L!Detector
                 PROVE  /\ Base(e)' = 0 \/ Base(e)' >= BufferSize[e]
                        /\ \A j \in L!Slots(e) :
                             buffer'[e][j] = IF j < index'[e] THEN Base(e)' + j + 1
                                             ELSE IF Base(e)' = 0 THEN 0 ELSE (Base(e)' - BufferSize[e]) + j + 1
    BY Zenon DEF RingInOrder, L!Slots
  <2>2. CASE e # d
    <3>1. Base(e)' = Base(e)
      BY <1>7, <2>2 DEF Base
    <3> QED BY <1>7, <2>2, <3>1, Zenon DEF RingInOrder
  <2>3. CASE e = d
    <3>1. Base(e)' = (n + 1) - index'[d]
      BY <1>4, <2>3 DEF Base
    <3>2. \A j \in L!Slots(d) : j \in 0..(size - 1) /\ buffer'[d][j] = IF j = i THEN n + 1 ELSE buffer[d][j]
      BY <1>3, <1>6
    <3>3. CASE i + 1 = size
      <4>1. index'[d] = 0 /\ Base(e)' = n + 1
        BY <1>5, <3>1, <3>3
      <4>2. n + 1 >= size /\ n + 1 # 0
        BY <1>8, <3>3
      <4>3. ASSUME NEW j \in L!Slots(d) PROVE buffer'[d][j] = ((n + 1) - size) + j + 1 /\ ~(j < 0)
          <5>1. j \in 0..(size - 1) /\ buffer'[d][j] = IF j = i THEN n + 1 ELSE buffer[d][j]
            BY <3>2
          <5>2. j < i => buffer[d][j] = (n - i) + j + 1
            BY <1>8
          <5> QED BY <1>2, <3>3, <5>1, <5>2
      <4> QED BY <1>3, <2>3, <4>1, <4>2, <4>3
    <3>4. CASE i + 1 # size
      <4>1. index'[d] = i + 1 /\ Base(e)' = n - i
        BY <1>5, <3>1, <3>4
      <4>2. ASSUME NEW j \in L!Slots(d)
            PROVE  buffer'[d][j] = IF j < i + 1 THEN (n - i) + j + 1
                                   ELSE IF n - i = 0 THEN 0 ELSE ((n - i) - size) + j + 1
          <5>1. j \in 0..(size - 1) /\ buffer'[d][j] = IF j = i THEN n + 1 ELSE buffer[d][j]
            BY <3>2
          <5>2. buffer[d][j] = IF j < i THEN (n - i) + j + 1 ELSE IF n - i = 0 THEN 0 ELSE ((n - i) - size) + j + 1
            BY <1>8
          <5> QED BY <1>2, <5>1, <5>2
      <4> QED BY <1>3, <1>8, <2>3, <4>1, <4>2
    <3> QED BY <3>3, <3>4
  <2> QED BY <2>2, <2>3
<1> QED BY <1>9, <1>10, <1>11

(* What is measured is over the limit just when the reading is a launch. *)
LEMMA ReadKeepsSum ==
  ASSUME L!ReadingsAssumption, DetectionTypeOK, RingInOrder, SumInOrder, NEW v \in Int,
         read' = [read EXCEPT !["accel"] = Append(@, v)],
         NEW n \in Nat, n = Len(read["accel"]), NEW oldest, oldest = buffer["accel"][index["accel"]],
         accel_running_sum' = L!Measured("accel", oldest, v)
  PROVE  /\ SumInOrder' /\ accel_running_sum' \in Int
         /\ L!Launches("accel", n + 1)' <=> L!Measured("accel", oldest, v) > L!Limit("accel")
         /\ \A m \in 1..n : L!Launches("accel", m)' <=> L!Launches("accel", m)
<1>1. "accel" \in L!Detector
  BY DEF L!Detector
<1>2. PICK r \in Seq(Int) : r = read["accel"] /\ read'["accel"] = Append(r, v)
  BY <1>1 DEF DetectionTypeOK
<1>3. n = Len(r) /\ Len(Append(r, v)) = n + 1
  BY <1>2
<1>4. PICK sums : SumsOf(sums, r) /\ accel_running_sum = sums[n] - sums[L!First("accel", n)]
  BY <1>2, <1>3 DEF SumInOrder
<1>5. PICK more : more = [k \in 0..(Len(r) + 1) |-> IF k = Len(r) + 1 THEN sums[Len(r)] + v ELSE sums[k]]
  OBVIOUS
<1>6. SumsOf(more, Append(r, v)) /\ (\A k \in 0..n : more[k] = sums[k]) /\ more[n + 1] = sums[n] + v
  BY <1>3, <1>4, <1>5, OneMoreSum
<1>7. PICK size \in Nat \ {0} : size = BufferSize["accel"]
  BY <1>1, FirstIs, 0 \in Nat
<1>8. PICK f \in Nat : f = L!First("accel", n) /\ f \in 0..n /\ f = IF n > size THEN n - size ELSE 0
  BY <1>1, <1>3, <1>7, FirstIs
<1>9. PICK g \in Nat : g = L!First("accel", n + 1) /\ g \in 0..(n + 1) /\ g = IF n + 1 > size THEN (n + 1) - size ELSE 0
  BY <1>1, <1>3, <1>7, FirstIs, n + 1 \in Nat
<1>10. g \in 0..n /\ n \in 0..n /\ n + 1 \in 0..(n + 1) /\ (g = 0 => f = 0) /\ (g # 0 => g \in 1..n /\ f = g - 1)
  <2>1. f = IF n > size THEN n - size ELSE 0
    BY <1>8
  <2>2. g = IF n + 1 > size THEN (n + 1) - size ELSE 0
    BY <1>9
  <2> QED BY <2>1, <2>2
<1>11. /\ sums[f] \in Int /\ sums[g] \in Int /\ sums[n] \in Int /\ sums[0] = 0
       /\ g # 0 => sums[g] = sums[f] + r[g] /\ r[g] \in Int
  <2>1. sums[f] \in Int /\ sums[g] \in Int /\ sums[n] \in Int /\ sums[0] = 0
    BY <1>3, <1>4, <1>8, <1>10 DEF SumsOf
  <2>2. g # 0 => r[g] \in Int
    BY <1>3, <1>10
  <2>3. g # 0 => sums[g] = sums[g - 1] + r[g]
    BY <1>3, <1>4, <1>10 DEF SumsOf
  <2> QED BY <1>10, <2>1, <2>2, <2>3
<1>12. oldest = g
  BY <1>1, <1>2, <1>3, <1>9, OldestIs
<1>13. L!Value("accel", oldest) = IF g = 0 THEN 0 ELSE r[g]
  BY <1>2, <1>12 DEF L!Value
<1>14. L!Measured("accel", oldest, v) = more[n + 1] - more[g]
  <2>1. L!Measured("accel", oldest, v) = ((sums[n] - sums[f]) - L!Value("accel", oldest)) + v
    BY <1>4, <1>8 DEF L!Measured
  <2>2. more[n + 1] = sums[n] + v /\ more[g] = sums[g]
    BY <1>6, <1>10
  <2>3. CASE g = 0
    BY <1>10, <1>11, <1>13, <2>1, <2>2, <2>3
  <2>4. CASE g # 0
    <3>1. PICK a, b, c, e \in Int : a = sums[n] /\ b = sums[f] /\ c = sums[g] /\ e = r[g]
      BY <1>11, <2>4
    <3>2. c = b + e
      BY <1>11, <2>4, <3>1
    <3>3. ((a - b) - e) + v = (a + v) - c
      BY <3>2
    <3> QED BY <1>13, <2>1, <2>2, <2>4, <3>1, <3>3, Zenon
  <2> QED BY <2>3, <2>4
<1>15. more[n + 1] - more[g] \in Int
  <2>1. more[n + 1] = sums[n] + v /\ more[g] = sums[g]
    BY <1>6, <1>10, Zenon
  <2>2. sums[n] \in Int /\ sums[g] \in Int
    BY <1>11
  <2> QED BY <2>1, <2>2
<1>16. SumInOrder'
  BY <1>2, <1>3, <1>6, <1>9, <1>14 DEF SumInOrder
<1>17. L!Sum(Append(r, v), g, n + 1) = more[n + 1] - more[g]
  <2>1. Append(r, v) \in Seq(Int) /\ n + 1 \in 0..Len(Append(r, v))
    BY <1>3
  <2> QED BY <1>6, <1>9, <2>1, SumIs, Zenon
<1>18. L!Launches("accel", n + 1)' <=> L!Measured("accel", oldest, v) > L!Limit("accel")
  BY <1>2, <1>7, <1>9, <1>14, <1>17 DEF L!Launches, L!Limit
<1>19. ASSUME NEW m \in 1..n PROVE L!Launches("accel", m)' <=> L!Launches("accel", m)
  <2>1. m \in Nat /\ m \in 0..n /\ m \in 0..(n + 1)
    BY <1>3
  <2>2. PICK h \in 0..m : h = L!First("accel", m)
    BY <1>1, <2>1, FirstIs
  <2>3. h \in 0..n
    BY <2>1, <2>2
  <2>4. L!Sum(r, h, m) = sums[m] - sums[h]
    BY <1>3, <1>4, <2>1, SumIs
  <2>5. L!Sum(Append(r, v), h, m) = more[m] - more[h]
    <3>1. Append(r, v) \in Seq(Int) /\ m \in 0..Len(Append(r, v))
      BY <1>3, <2>1
    <3> QED BY <1>6, <2>2, <3>1, SumIs, Zenon
  <2>6. L!Sum(Append(r, v), h, m) = L!Sum(r, h, m)
    BY <1>6, <2>1, <2>3, <2>4, <2>5
  <2> QED BY <1>2, <2>2, <2>6 DEF L!Launches
<1>20. accel_running_sum' \in Int
  BY <1>14, <1>15
<1> QED BY <1>16, <1>18, <1>19, <1>20

(* An altitude is a launch when it is far from the one it replaces. *)
LEMMA ReadKeepsAltitudes ==
  ASSUME L!ReadingsAssumption, DetectionTypeOK, RingInOrder, NEW v \in Int,
         read' = [read EXCEPT !["altitude"] = Append(@, v)],
         NEW n \in Nat, n = Len(read["altitude"]), NEW oldest, oldest = buffer["altitude"][index["altitude"]]
  PROVE  /\ L!Launches("altitude", n + 1)' <=> L!Measured("altitude", oldest, v) > L!Limit("altitude")
         /\ \A m \in 1..n : L!Launches("altitude", m)' <=> L!Launches("altitude", m)
<1>1. "altitude" \in L!Detector /\ "altitude" # "accel"
  BY DEF L!Detector
<1>2. PICK r \in Seq(Int) : r = read["altitude"] /\ read'["altitude"] = Append(r, v)
  BY <1>1 DEF DetectionTypeOK
<1>3. n = Len(r) /\ Append(r, v)[n + 1] = v /\ \A k \in 1..n : Append(r, v)[k] = r[k]
  BY <1>2
<1>4. PICK size \in Nat \ {0} : size = BufferSize["altitude"]
  BY <1>1, FirstIs, 0 \in Nat
<1>5. PICK limit \in Nat : limit = Threshold["altitude"]
  BY <1>1 DEF L!ReadingsAssumption
<1>6. oldest = IF n + 1 > size THEN (n + 1) - size ELSE 0
  <2>1. oldest = L!First("altitude", n + 1)
    BY <1>1, OldestIs
  <2> QED BY <1>1, <1>4, <2>1, FirstIs, n + 1 \in Nat
<1>7. L!Launches("altitude", n + 1)'
        <=> n + 1 > size /\ (\/ v - r[(n + 1) - size] > limit \/ r[(n + 1) - size] - v > limit)
  <2>1. n + 1 > size => Append(r, v)[(n + 1) - size] = r[(n + 1) - size]
    <3>1. n + 1 > size => (n + 1) - size \in 1..n
      BY <1>4
    <3> QED BY <1>3, <3>1
  <2>2. L!Launches("altitude", n + 1)'
          <=> n + 1 > size /\ (\/ Append(r, v)[n + 1] - Append(r, v)[(n + 1) - size] > limit
                              \/ Append(r, v)[(n + 1) - size] - Append(r, v)[n + 1] > limit)
    BY <1>1, <1>2, <1>4, <1>5, Zenon DEF L!Launches
  <2> QED BY <1>3, <2>1, <2>2
<1>8. L!Measured("altitude", oldest, v) > L!Limit("altitude")
        <=> n + 1 > size /\ (\/ v - r[(n + 1) - size] > limit \/ r[(n + 1) - size] - v > limit)
  <2>1. L!Limit("altitude") = limit
    BY <1>1, <1>5 DEF L!Limit
  <2>2. CASE ~(n + 1 > size)
    <3>1. L!Measured("altitude", oldest, v) = 0
      BY <1>1, <1>6, <2>2 DEF L!Measured
    <3> QED BY <2>1, <2>2, <3>1
  <2>3. CASE n + 1 > size
    <3>1. (n + 1) - size \in 1..n /\ oldest = (n + 1) - size /\ oldest # 0
      BY <1>4, <1>6, <2>3
    <3>2. PICK o \in Int : o = r[(n + 1) - size]
      BY <1>3, <3>1
    <3>3. L!Value("altitude", oldest) = o
      BY <1>2, <3>1, <3>2 DEF L!Value
    <3>4. L!Measured("altitude", oldest, v) = IF v > o THEN v - o ELSE o - v
      BY <1>1, <3>1, <3>3 DEF L!Measured
    <3>5. (IF v > o THEN v - o ELSE o - v) > limit <=> v - o > limit \/ o - v > limit
      <4>1. PICK l \in Nat : l = limit
        BY <1>5
      <4>2. (IF v > o THEN v - o ELSE o - v) > l <=> v - o > l \/ o - v > l
        BY <3>2
      <4> QED BY <4>1, <4>2
    <3> QED BY <2>1, <2>3, <3>2, <3>4, <3>5
  <2> QED BY <2>2, <2>3
<1>9. ASSUME NEW m \in 1..n PROVE L!Launches("altitude", m)' <=> L!Launches("altitude", m)
  <2>1. m > size => m - size \in 1..n
    BY <1>4
  <2>2. Append(r, v)[m] = r[m] /\ (m > size => Append(r, v)[m - size] = r[m - size])
    BY <1>3, <2>1
  <2> QED BY <1>1, <1>2, <1>4, <2>2 DEF L!Launches
<1> QED BY <1>7, <1>8, <1>9

(* What every reading does to the measures of both detectors. *)
LEMMA ReadKeepsBoost ==
  ASSUME L!ReadingsAssumption, DetectionTypeOK, RingInOrder, SumInOrder, L!BoostIffLaunched,
         NEW d \in L!Detector, NEW v \in Int, read' = [read EXCEPT ![d] = Append(@, v)],
         NEW oldest, oldest = buffer[d][index[d]],
         accel_running_sum' = IF d = "accel" THEN L!Measured(d, oldest, v) ELSE accel_running_sum,
         boost_detected' = (boost_detected \/ L!Measured(d, oldest, v) > L!Limit(d))
  PROVE  /\ SumInOrder' /\ accel_running_sum' \in Int
         /\ L!BoostIffLaunched'
<1>1. PICK n \in Nat : n = Len(read[d])
  BY OldestIs
<1>2. Len(read'[d]) = n + 1
  <2>1. read[d] \in Seq(Int) /\ read'[d] = Append(read[d], v)
    BY DEF DetectionTypeOK
  <2> QED BY <1>1, <2>1
<1>3. ASSUME NEW e \in L!Detector, e # d PROVE read'[e] = read[e]
  BY <1>3 DEF DetectionTypeOK
<1>4. ASSUME NEW e \in L!Detector, e # d, NEW m PROVE L!Launches(e, m)' <=> L!Launches(e, m)
  BY <1>3, <1>4 DEF L!Launches
<1>5. d \in {"accel", "altitude"} /\ "accel" \in L!Detector
  BY DEF L!Detector
<1>6. SumInOrder' /\ accel_running_sum' \in Int
  <2>1. CASE d = "accel"
    BY <1>1, <2>1, ReadKeepsSum
  <2>2. CASE d # "accel"
    <3>1. accel_running_sum' = accel_running_sum /\ read'["accel"] = read["accel"]
      BY <1>3, <1>5, <2>2
    <3> QED BY <3>1 DEF SumInOrder, DetectionTypeOK
  <2> QED BY <2>1, <2>2
<1>7. /\ L!Launches(d, n + 1)' <=> L!Measured(d, oldest, v) > L!Limit(d)
      /\ \A m \in 1..n : L!Launches(d, m)' <=> L!Launches(d, m)
  <2>1. CASE d = "accel"
    BY <1>1, <2>1, ReadKeepsSum
  <2>2. CASE d = "altitude"
    BY <1>1, <2>2, ReadKeepsAltitudes
  <2> QED BY <1>5, <2>1, <2>2
<1>8. \A m : m \in 1..(n + 1) <=> m \in 1..n \/ m = n + 1
  BY <1>1
<1>9. (\E m \in 1..(n + 1) : L!Launches(d, m)')
        <=> (\E m \in 1..n : L!Launches(d, m)) \/ L!Measured(d, oldest, v) > L!Limit(d)
  BY <1>7, <1>8, Zenon
<1>10. (\E e \in L!Detector : \E m \in 1..Len(read'[e]) : L!Launches(e, m)')
         <=> (\E m \in 1..(n + 1) : L!Launches(d, m)')
             \/ (\E e \in L!Detector \ {d} : \E m \in 1..Len(read[e]) : L!Launches(e, m))
  BY <1>2, <1>3, <1>4, Zenon
<1>11. (\E e \in L!Detector : \E m \in 1..Len(read[e]) : L!Launches(e, m))
         <=> (\E m \in 1..n : L!Launches(d, m))
             \/ (\E e \in L!Detector \ {d} : \E m \in 1..Len(read[e]) : L!Launches(e, m))
  BY <1>1, Zenon
<1>12. boost_detected' <=> \E e \in L!Detector : \E m \in 1..Len(read'[e]) : L!Launches(e, m)'
  BY <1>9, <1>10, <1>11, Zenon DEF L!BoostIffLaunched
<1>13. L!BoostIffLaunched'
  BY <1>12, Zenon DEF L!BoostIffLaunched, L!Detector
<1> QED BY <1>6, <1>13

(* A detector reads once more at most, and what it overwrites is not kept. *)
LEMMA ReadKeepsLaunch ==
  ASSUME L!ReadingsAssumption, DetectionTypeOK, LaunchInOrder, SavingInOrder,
         NEW d \in L!Detector, NEW v \in Int, Reads(d, v), thread[d] = "reading",
         NEW detected \in BOOLEAN,
         boost_detected' = (boost_detected \/ detected),
         atLaunch' = IF detected /\ ~boost_detected THEN [e \in L!Detector |-> Len(read'[e])] ELSE atLaunch,
         thread' = [thread EXCEPT ![d] = IF detected THEN "left" ELSE "waiting"],
         UNCHANGED <<main, saved, unsaved>>,
         read' \in [L!Detector -> Seq(Int)]
  PROVE  LaunchInOrder' /\ SavingInOrder' /\ atLaunch' \in [L!Detector -> Nat]
         /\ thread' \in [L!Detector -> {"waiting", "reading", "left"}]
<1>1. PICK n \in Nat : n = Len(read[d]) /\ Len(read'[d]) = n + 1
  <2>1. read[d] \in Seq(Int) /\ read'[d] = Append(read[d], v)
    BY DEF DetectionTypeOK, Reads
  <2> QED BY <2>1
<1>2. ASSUME NEW e \in L!Detector PROVE Len(read'[e]) \in Nat
  BY <1>2
<1>3. ASSUME NEW e \in L!Detector, e # d
      PROVE  read'[e] = read[e] /\ thread'[e] = thread[e] /\ buffer'[e] = buffer[e]
  BY <1>3 DEF DetectionTypeOK, Reads
<1>4. thread'[d] # "reading" /\ thread' \in [L!Detector -> {"waiting", "reading", "left"}]
  BY DEF DetectionTypeOK
<1>5. atLaunch' \in [L!Detector -> Nat]
  BY <1>2 DEF DetectionTypeOK
<1>6. LaunchInOrder'
  <2>1. SUFFICES ASSUME boost_detected', NEW e \in L!Detector
                 PROVE  /\ atLaunch'[e] <= Len(read'[e]) /\ Len(read'[e]) <= atLaunch'[e] + 1
                        /\ thread'[e] = "reading" => Len(read'[e]) = atLaunch'[e]
    BY Zenon DEF LaunchInOrder, L!Detector
  <2>2. CASE boost_detected
    <3>1. atLaunch' = atLaunch /\ atLaunch[e] \in Nat
      BY <2>2 DEF DetectionTypeOK
    <3>2. /\ atLaunch[e] <= Len(read[e]) /\ Len(read[e]) <= atLaunch[e] + 1
          /\ thread[e] = "reading" => Len(read[e]) = atLaunch[e]
      BY <2>2 DEF LaunchInOrder
    <3>3. CASE e = d
      BY <1>1, <1>4, <3>1, <3>2, <3>3
    <3>4. CASE e # d
      BY <1>3, <3>1, <3>2, <3>4
    <3> QED BY <3>3, <3>4
  <2>3. CASE ~boost_detected
    <3>1. atLaunch'[e] = Len(read'[e])
      BY <2>1, <2>3
    <3> QED BY <1>2, <3>1
  <2> QED BY <2>2, <2>3
<1>7. SavingInOrder'
  <2>1. CASE main \in {"accel", "altitude", "flying"}
    <3>1. boost_detected /\ boost_detected' /\ atLaunch' = atLaunch
      BY <2>1 DEF SavingInOrder
    <3>2. atLaunch[d] \in Nat /\ n = atLaunch[d] /\ index[d] \in L!Slots(d)
      BY <1>1, <3>1 DEF LaunchInOrder, DetectionTypeOK
    <3>3. buffer'[d] = [buffer[d] EXCEPT ![index[d]] = n + 1] /\ buffer[d] \in [L!Slots(d) -> Nat]
      BY <1>1 DEF Reads, DetectionTypeOK
    <3>4. ASSUME NEW e \in L!Detector, NEW i \in L!Slots(e), Kept(e, buffer'[e][i]) PROVE buffer'[e][i] = buffer[e][i]
      <4>1. CASE e # d
        BY <1>3, <4>1
      <4>2. CASE e = d
        <5>1. ~Kept(d, n + 1)
          BY <3>2 DEF Kept
        <5>2. i # index[d]
          BY <3>2, <3>3, <3>4, <4>2, <5>1
        <5> QED BY <3>3, <4>2, <5>2
      <4> QED BY <4>1, <4>2
    <3>5. ASSUME NEW e \in L!Detector
          PROVE  /\ Len(saved'[e]) <= BufferSize[e]
                 /\ \A i \in L!Slots(e) :
                      i < Len(saved'[e]) /\ Kept(e, buffer'[e][i]) => saved'[e][i + 1] = buffer'[e][i]
      BY <2>1, <3>4 DEF SavingInOrder
    <3>6. \A e, m : Kept(e, m)' <=> Kept(e, m)
      BY <3>1 DEF Kept
    <3>7. /\ main' \in {"altitude", "flying"} /\ "accel" \notin unsaved' => Len(saved'["accel"]) = BufferSize["accel"]
          /\ main' = "flying" /\ "altitude" \notin unsaved' => Len(saved'["altitude"]) = BufferSize["altitude"]
          /\ main' \notin {"checking", "on pad"}
      BY <2>1 DEF SavingInOrder
    <3> QED BY <3>1, <3>5, <3>6, <3>7, Zenon DEF SavingInOrder, L!Detector, L!Slots
  <2>2. CASE main \notin {"accel", "altitude", "flying"}
    BY <2>2 DEF SavingInOrder
  <2> QED BY <2>1, <2>2
<1> QED BY <1>4, <1>5, <1>6, <1>7

(* A reading of either detector keeps all of it. *)
LEMMA SensorReadKeeps ==
  ASSUME L!ReadingsAssumption, DetectionInv, NEW d \in L!Detector, L!Read(d)
  PROVE  DetectionInv'
<1>1. PICK v \in Int :
        /\ Reads(d, v)
        /\ accel_running_sum' =
             IF d = "accel" THEN L!Measured(d, buffer[d][index[d]], v) ELSE accel_running_sum
        /\ boost_detected' = (boost_detected \/ L!Measured(d, buffer[d][index[d]], v) > L!Limit(d))
        /\ atLaunch' = IF L!Measured(d, buffer[d][index[d]], v) > L!Limit(d) /\ ~boost_detected
                        THEN [e \in L!Detector |-> Len(read'[e])] ELSE atLaunch
        /\ thread' = [thread EXCEPT ![d] = IF L!Measured(d, buffer[d][index[d]], v) > L!Limit(d)
                                           THEN "left" ELSE "waiting"]
  <2>1. \A v \in Readings[d] : v \in Int
    BY DEF L!ReadingsAssumption
  <2> QED BY <2>1, Zenon DEF L!Read, Reads
<1>2. PICK oldest : oldest = buffer[d][index[d]]
  OBVIOUS
<1>3. Reads(d, v) /\ thread[d] = "reading" /\ UNCHANGED <<main, saved, unsaved>>
  BY <1>1 DEF L!Read
<1>4. boost_detected' \in BOOLEAN
  <2>1. \A a, b : (a \/ b) \in BOOLEAN
    OBVIOUS
  <2> QED BY <1>1, <2>1, Zenon
<1>5. /\ DetectionTypeOK /\ RingInOrder /\ SumInOrder /\ L!BoostIffLaunched /\ LaunchInOrder /\ SavingInOrder
  BY DEF DetectionInv
<1>6. /\ RingInOrder'
      /\ DOMAIN buffer' = L!Detector /\ DOMAIN index' = L!Detector
      /\ \A e \in L!Detector : buffer'[e] \in [L!Slots(e) -> Nat] /\ index'[e] \in L!Slots(e)
      /\ read' \in [L!Detector -> Seq(Int)]
  BY <1>3, <1>5, ReadKeepsRing, Zenon
<1>7. SumInOrder' /\ accel_running_sum' \in Int /\ L!BoostIffLaunched'
  <2>1. boost_detected' = (boost_detected \/ L!Measured(d, oldest, v) > L!Limit(d))
    BY <1>1, <1>2, Zenon
  <2>2. accel_running_sum' = IF d = "accel" THEN L!Measured(d, oldest, v) ELSE accel_running_sum
    BY <1>1, <1>2, Zenon
  <2> QED BY <1>2, <1>3, <1>5, <2>1, <2>2, ReadKeepsBoost, Zenon DEF Reads
<1>8. /\ LaunchInOrder' /\ SavingInOrder' /\ atLaunch' \in [L!Detector -> Nat]
      /\ thread' \in [L!Detector -> {"waiting", "reading", "left"}]
  <2>1. CASE L!Measured(d, oldest, v) > L!Limit(d)
    BY <1>1, <1>2, <1>3, <1>5, <1>6, <2>1, ReadKeepsLaunch, TRUE \in BOOLEAN, Zenon
  <2>2. CASE ~(L!Measured(d, oldest, v) > L!Limit(d))
    BY <1>1, <1>2, <1>3, <1>5, <1>6, <2>2, ReadKeepsLaunch, FALSE \in BOOLEAN, Zenon
  <2> QED BY <2>1, <2>2
<1>9. saved' \in [L!Detector -> Seq(Int)]
  BY <1>3, <1>5 DEF DetectionTypeOK
<1>10. DetectionTypeOK'
  BY <1>4, <1>6, <1>7, <1>8, <1>9, Zenon DEF DetectionTypeOK, L!Detector, L!Slots
<1>11. RingInOrder' /\ SumInOrder' /\ L!BoostIffLaunched' /\ LaunchInOrder' /\ SavingInOrder'
  BY <1>6, <1>7, <1>8
<1> QED BY <1>10, <1>11 DEF DetectionInv

(* Nothing is disturbed by what leaves the buffers and the files alone. *)
LEMMA DetectionStays ==
  ASSUME DetectionInv,
         UNCHANGED <<buffer, index, accel_running_sum, boost_detected, read, atLaunch, saved, unsaved>>,
         main' = main \/ (main \in {"checking", "on pad"} /\ main' \in {"checking", "on pad", "over"}),
         thread' \in [L!Detector -> {"waiting", "reading", "left"}],
         \A d \in L!Detector : boost_detected /\ thread'[d] = "reading" => thread[d] = "reading"
  PROVE  DetectionInv'
<1>1. DetectionTypeOK'
  BY Zenon DEF DetectionInv, DetectionTypeOK, L!Detector, L!Slots
<1>2. RingInOrder'
  BY Zenon DEF DetectionInv, RingInOrder, Base, L!Detector, L!Slots
<1>3. SumInOrder'
  BY Zenon DEF DetectionInv, SumInOrder
<1>4. L!BoostIffLaunched'
  <2>1. \A d, n : L!Launches(d, n)' <=> L!Launches(d, n)
    BY Zenon DEF L!Launches
  <2> QED BY <2>1, Zenon DEF DetectionInv, L!BoostIffLaunched, L!Detector
<1>5. LaunchInOrder'
  BY Zenon DEF DetectionInv, LaunchInOrder, L!Detector
<1>6. SavingInOrder'
  <2>1. \A d, n : Kept(d, n)' <=> Kept(d, n)
    BY DEF Kept
  <2>2. CASE main' = main
    BY <2>1, <2>2, Zenon DEF DetectionInv, SavingInOrder, L!Detector, L!Slots
  <2>3. CASE main \in {"checking", "on pad"} /\ main' \in {"checking", "on pad", "over"}
    BY <2>3 DEF DetectionInv, SavingInOrder
  <2> QED BY <2>2, <2>3
<1> QED BY <1>1, <1>2, <1>3, <1>4, <1>5, <1>6, Zenon DEF DetectionInv

(* The files are empty when the launch is known. *)
LEMMA PadRunKeeps ==
  ASSUME L!ReadingsAssumption, DetectionInv, L!PadRun
  PROVE  DetectionInv'
<1>1. /\ UNCHANGED <<thread, buffer, index, accel_running_sum, boost_detected, read, atLaunch, saved, unsaved>>
      /\ main = "on pad" /\ main' = IF boost_detected THEN "accel" ELSE "checking"
  BY DEF L!PadRun
<1>2. CASE ~boost_detected
  BY <1>1, <1>2, DetectionStays DEF DetectionInv, DetectionTypeOK
<1>3. CASE boost_detected
  <2>2. DetectionTypeOK'
    BY <1>1, Zenon DEF DetectionInv, DetectionTypeOK, L!Detector, L!Slots
  <2>3. RingInOrder'
    BY <1>1, Zenon DEF DetectionInv, RingInOrder, Base, L!Detector, L!Slots
  <2>4. SumInOrder'
    BY <1>1, Zenon DEF DetectionInv, SumInOrder
  <2>5. L!BoostIffLaunched'
    <3>1. \A d, n : L!Launches(d, n)' <=> L!Launches(d, n)
      BY <1>1, Zenon DEF L!Launches
    <3> QED BY <1>1, <3>1, Zenon DEF DetectionInv, L!BoostIffLaunched, L!Detector
  <2>6. LaunchInOrder'
    BY <1>1, Zenon DEF DetectionInv, LaunchInOrder, L!Detector
  <2>7. SavingInOrder'
    <3>1. saved' = [d \in L!Detector |-> <<>>] /\ main' = "accel" /\ boost_detected'
      BY <1>1, <1>3 DEF DetectionInv, SavingInOrder
    <3>2. \A d \in L!Detector : BufferSize[d] \in Nat \ {0} /\ Len(saved'[d]) = 0
      BY <3>1 DEF L!ReadingsAssumption, L!Detector
    <3>3. \A d \in L!Detector : \A i \in L!Slots(d) : ~(i < 0)
      BY DEF L!Slots
    <3>4. \A d \in L!Detector : Len(saved'[d]) <= BufferSize[d]
      BY <3>2
    <3>5. \A d \in L!Detector : \A i \in L!Slots(d) : ~(i < Len(saved'[d]))
      BY <3>2, <3>3
    <3> QED BY <3>1, <3>4, <3>5, Zenon DEF SavingInOrder, L!Detector, L!Slots
  <2> QED BY <2>2, <2>3, <2>4, <2>5, <2>6, <2>7, Zenon DEF DetectionInv
<1> QED BY <1>2, <1>3

(* A slot that is copied while its detector writes it is the one whose     *)
(* reading is before those that are kept.                                  *)
LEMMA SaveSlotKeeps ==
  ASSUME L!ReadingsAssumption, DetectionInv, L!SaveSlot
  PROVE  DetectionInv'
<1>1. /\ UNCHANGED <<thread, buffer, index, accel_running_sum, boost_detected, read, atLaunch, main, unsaved>>
      /\ main \in L!Detector /\ Len(saved[main]) < BufferSize[main]
  BY Zenon DEF L!SaveSlot, L!Detector
<1>2. PICK d \in L!Detector : d = main
  BY <1>1
<1>3. PICK slot : /\ slot \in {buffer[d][Len(saved[d])]}
                       \cup (IF thread[d] = "reading" /\ index[d] = Len(saved[d]) THEN {-1} ELSE {})
                  /\ saved' = [saved EXCEPT ![d] = Append(@, slot)]
  BY <1>2 DEF L!SaveSlot, L!Torn
<1>4. /\ DetectionTypeOK /\ RingInOrder /\ LaunchInOrder /\ SavingInOrder /\ boost_detected
      /\ \A e \in L!Detector : saved[e] \in Seq(Int) /\ Len(saved[e]) \in Nat /\ Len(saved[e]) <= BufferSize[e]
      /\ \A e \in L!Detector : BufferSize[e] \in Nat \ {0}
  <2>1. DetectionTypeOK /\ RingInOrder /\ LaunchInOrder /\ SavingInOrder
    BY DEF DetectionInv
  <2>2. boost_detected /\ \A e \in L!Detector : Len(saved[e]) <= BufferSize[e]
    BY <1>1, <2>1 DEF SavingInOrder, L!Detector
  <2>3. \A e \in L!Detector : saved[e] \in Seq(Int) /\ Len(saved[e]) \in Nat
    BY <2>1 DEF DetectionTypeOK
  <2>4. \A e \in L!Detector : BufferSize[e] \in Nat \ {0}
    BY DEF L!ReadingsAssumption
  <2> QED BY <2>1, <2>2, <2>3, <2>4
<1>5. d \in L!Detector /\ Len(saved[d]) < BufferSize[d]
  BY <1>1, <1>2
<1>6. PICK i \in Nat : i = Len(saved[d]) /\ i \in L!Slots(d)
  BY <1>4, <1>5 DEF L!Slots
<1>7. slot \in Int /\ (Kept(d, buffer[d][i]) => slot = buffer[d][i])
  <2>1. buffer[d][i] \in Nat
    BY <1>4, <1>5, <1>6 DEF DetectionTypeOK
  <2>2. CASE slot = buffer[d][i]
    BY <2>1, <2>2
  <2>3. CASE thread[d] = "reading" /\ index[d] = i /\ slot = -1
    <3>1. buffer[d][i] = L!First(d, Len(read[d]) + 1) /\ Len(read[d]) \in Nat /\ Len(read[d]) = atLaunch[d]
      BY <1>4, <1>5, <2>3, OldestIs DEF LaunchInOrder
    <3>2. PICK n \in Nat : n = Len(read[d]) /\ n = atLaunch[d] /\ n + 1 \in Nat
      BY <3>1
    <3>3. buffer[d][i] = IF n + 1 > BufferSize[d] THEN (n + 1) - BufferSize[d] ELSE 0
      BY <1>5, <3>1, <3>2, FirstIs
    <3>4. ~Kept(d, buffer[d][i])
      BY <1>4, <1>5, <3>2, <3>3 DEF Kept
    <3> QED BY <2>3, <3>4
  <2> QED BY <1>3, <1>6, <2>2, <2>3
<1>8. /\ saved'[d] = Append(saved[d], slot) /\ Append(saved[d], slot) \in Seq(Int)
      /\ Len(saved'[d]) = i + 1
      /\ saved'[d][i + 1] = slot /\ \A k \in 1..i : saved'[d][k] = saved[d][k]
  <2>1. saved'[d] = Append(saved[d], slot)
    BY <1>3, <1>4, <1>5 DEF DetectionTypeOK
  <2> QED BY <1>4, <1>5, <1>6, <1>7, <2>1
<1>9. /\ saved' \in [L!Detector -> Seq(Int)]
      /\ \A e \in L!Detector : e # d => saved'[e] = saved[e]
  BY <1>3, <1>4, <1>8 DEF DetectionTypeOK
<1>10. DetectionTypeOK'
  BY <1>1, <1>4, <1>9, Zenon DEF DetectionTypeOK, L!Detector, L!Slots
<1>11. RingInOrder'
  BY <1>1, <1>4, Zenon DEF RingInOrder, Base, L!Detector, L!Slots
<1>12. SumInOrder'
  BY <1>1, Zenon DEF DetectionInv, SumInOrder
<1>13. L!BoostIffLaunched'
  <2>1. \A e, n : L!Launches(e, n)' <=> L!Launches(e, n)
    BY <1>1, Zenon DEF L!Launches
  <2> QED BY <1>1, <2>1, Zenon DEF DetectionInv, L!BoostIffLaunched, L!Detector
<1>14. LaunchInOrder'
  BY <1>1, <1>4, Zenon DEF LaunchInOrder, L!Detector
<1>15. SavingInOrder'
  <2>1. main' \in {"accel", "altitude"} /\ boost_detected' /\ main' = d /\ main' = main
    BY <1>1, <1>2, <1>4 DEF L!Detector
  <2>2. \A e, n : Kept(e, n)' <=> Kept(e, n)
    BY <1>1 DEF Kept
  <2>3. \A e \in L!Detector : Len(saved'[e]) <= BufferSize[e] /\ Len(saved'[e]) \in Nat
    <3>1. i + 1 <= BufferSize[d] /\ i + 1 \in Nat
      BY <1>4, <1>5, <1>6
    <3> QED BY <1>4, <1>8, <1>9, <3>1
  <2>4. ASSUME NEW e \in L!Detector, NEW j \in L!Slots(e), j < Len(saved'[e]), Kept(e, buffer[e][j])
        PROVE  saved'[e][j + 1] = buffer[e][j]
    <3>1. j < Len(saved[e]) => saved[e][j + 1] = buffer[e][j]
      BY <1>1, <2>4 DEF SavingInOrder, DetectionInv, L!Detector
    <3>2. CASE e # d
      BY <1>9, <2>4, <3>1, <3>2
    <3>3. CASE e = d /\ j < i
      <4>1. j + 1 \in 1..i
        BY <1>6, <2>4, <3>3 DEF L!Slots
      <4> QED BY <1>6, <1>8, <3>1, <3>3, <4>1
    <3>4. CASE e = d /\ j = i
      BY <1>7, <1>8, <2>4, <3>4
    <3>5. e = d => j < i \/ j = i
      BY <1>6, <1>8, <2>4 DEF L!Slots
    <3> QED BY <3>2, <3>3, <3>4, <3>5
  <2>5. main' = "altitude" /\ "accel" \notin unsaved' => Len(saved'["accel"]) = BufferSize["accel"]
    <3>1. main = "altitude" /\ "accel" \notin unsaved => Len(saved["accel"]) = BufferSize["accel"]
      BY <1>4 DEF SavingInOrder
    <3> QED BY <1>1, <1>9, <2>1, <3>1 DEF L!Detector
  <2>7. \A e \in L!Detector : \A j \in L!Slots(e) :
          j < Len(saved'[e]) /\ Kept(e, buffer'[e][j]) => saved'[e][j + 1] = buffer'[e][j]
    BY <1>1, <2>4
  <2>8. main' \notin {"checking", "on pad"}
    BY <2>1
  <2>9. main' # "flying" /\ BufferSize' = BufferSize
    BY <2>1
  <2> QED BY <2>1, <2>2, <2>3, <2>5, <2>7, <2>8, <2>9, Zenon DEF SavingInOrder, L!Detector, L!Slots
<1> QED BY <1>10, <1>11, <1>12, <1>13, <1>14, <1>15, Zenon DEF DetectionInv

(* A file is closed when all of the buffer is in it, or it stays what it   *)
(* was because something failed.                                           *)
LEMMA SaveEndKeeps ==
  ASSUME L!ReadingsAssumption, DetectionInv, L!SaveClose \/ L!SaveFails
  PROVE  DetectionInv'
<1>1. /\ UNCHANGED <<thread, buffer, index, accel_running_sum, boost_detected, read, atLaunch>>
      /\ main \in {"accel", "altitude"} /\ main' = IF main = "accel" THEN "altitude" ELSE "flying"
      /\ \/ Len(saved[main]) = BufferSize[main] /\ UNCHANGED <<saved, unsaved>>
         \/ saved' = [saved EXCEPT ![main] = <<>>] /\ unsaved' = unsaved \cup {main}
  BY DEF L!SaveClose, L!SaveFails, L!Detector, L!AfterSaving, L!AfterFailure
<1>2. DetectionTypeOK /\ SavingInOrder /\ boost_detected
  BY <1>1 DEF DetectionInv, SavingInOrder
<1>3. saved \in [L!Detector -> Seq(Int)] /\ saved' \in [L!Detector -> Seq(Int)]
  <2>1. <<>> \in Seq(Int)
    OBVIOUS
  <2> QED BY <1>1, <1>2, <2>1 DEF DetectionTypeOK
<1>4. \A e \in L!Detector : \/ saved'[e] = saved[e] /\ (e = main => Len(saved[e]) = BufferSize[e])
                            \/ e = main /\ saved'[e] = <<>> /\ e \in unsaved'
  BY <1>1, <1>3
<1>5. unsaved \subseteq unsaved'
  BY <1>1
<1>6. DetectionTypeOK'
  BY <1>1, <1>2, <1>3, Zenon DEF DetectionTypeOK, L!Detector, L!Slots
<1>7. RingInOrder'
  BY <1>1, Zenon DEF DetectionInv, RingInOrder, Base, L!Detector, L!Slots
<1>8. SumInOrder'
  BY <1>1, Zenon DEF DetectionInv, SumInOrder
<1>9. L!BoostIffLaunched'
  <2>1. \A e, n : L!Launches(e, n)' <=> L!Launches(e, n)
    BY <1>1, Zenon DEF L!Launches
  <2> QED BY <1>1, <2>1, Zenon DEF DetectionInv, L!BoostIffLaunched, L!Detector
<1>10. LaunchInOrder'
  BY <1>1, Zenon DEF DetectionInv, LaunchInOrder, L!Detector
<1>11. SavingInOrder'
  <2>1. \A e, n : Kept(e, n)' <=> Kept(e, n)
    BY <1>1 DEF Kept
  <2>2. main' \in {"altitude", "flying"} /\ boost_detected'
    BY <1>1, <1>2
  <2>3. \A e \in L!Detector :
          /\ Len(saved[e]) <= BufferSize[e]
          /\ \A i \in L!Slots(e) : i < Len(saved[e]) /\ Kept(e, buffer[e][i]) => saved[e][i + 1] = buffer[e][i]
    BY <1>1, <1>2 DEF SavingInOrder
  <2>4. Len(<<>>) = 0 /\ \A e \in L!Detector : BufferSize[e] \in Nat /\ \A i \in L!Slots(e) : ~(i < 0)
    BY DEF L!ReadingsAssumption, L!Slots
  <2>5. ASSUME NEW e \in L!Detector
        PROVE  /\ Len(saved'[e]) <= BufferSize[e]
               /\ \A i \in L!Slots(e) : i < Len(saved'[e]) /\ Kept(e, buffer[e][i]) => saved'[e][i + 1] = buffer[e][i]
    <3>1. CASE saved'[e] = saved[e]
      BY <2>3, <3>1
    <3>2. CASE saved'[e] = <<>>
      <4>1. Len(saved'[e]) = 0 /\ 0 <= BufferSize[e] /\ \A i \in L!Slots(e) : ~(i < Len(saved'[e]))
        BY <2>4, <3>2
      <4> QED BY <4>1
    <3> QED BY <1>4, <3>1, <3>2
  <2>6. "accel" \notin unsaved' => Len(saved'["accel"]) = BufferSize["accel"]
    <3>1. main = "altitude" /\ "accel" \notin unsaved => Len(saved["accel"]) = BufferSize["accel"]
      BY <1>2 DEF SavingInOrder
    <3> QED BY <1>1, <1>4, <1>5, <3>1 DEF L!Detector
  <2>7. main' = "flying" /\ "altitude" \notin unsaved' => Len(saved'["altitude"]) = BufferSize["altitude"]
    BY <1>1, <1>4 DEF L!Detector
  <2> QED BY <1>1, <2>1, <2>2, <2>5, <2>6, <2>7, Zenon DEF SavingInOrder, L!Detector, L!Slots
<1> QED BY <1>6, <1>7, <1>8, <1>9, <1>10, <1>11, Zenon DEF DetectionInv

(* Every step of the detection keeps its invariant. *)
LEMMA DetectionNext ==
  ASSUME L!ReadingsAssumption, DetectionInv, L!Next
  PROVE  DetectionInv'
<1>1. thread \in [L!Detector -> {"waiting", "reading", "left"}] /\ boost_detected \in BOOLEAN
  BY DEF DetectionInv, DetectionTypeOK
<1>2. ASSUME NEW d \in L!Detector, L!Wake(d) PROVE DetectionInv'
  <2>1. /\ thread' = [thread EXCEPT ![d] = IF L!Leaves(d) THEN "left" ELSE "reading"]
        /\ UNCHANGED <<buffer, index, accel_running_sum, boost_detected, read, atLaunch, saved, unsaved, main>>
    BY <1>2 DEF L!Wake
  <2>2. thread' \in [L!Detector -> {"waiting", "reading", "left"}]
    BY <1>1, <2>1
  <2>3. ASSUME NEW e \in L!Detector, boost_detected, thread'[e] = "reading" PROVE thread[e] = "reading"
    BY <1>1, <2>1, <2>3 DEF L!Leaves
  <2> QED BY <2>1, <2>2, <2>3, DetectionStays, Zenon
<1>3. ASSUME NEW d \in L!Detector, L!Read(d) PROVE DetectionInv'
  BY <1>3, SensorReadKeeps
<1>4. CASE L!ReadBattery
  BY <1>1, <1>4, DetectionStays, Zenon DEF L!ReadBattery
<1>5. CASE L!Cancel
  BY <1>1, <1>5, DetectionStays, Zenon DEF L!Cancel
<1>6. CASE L!Check
  <2>1. main' \in {"checking", "on pad", "over"} /\ main \in {"checking", "on pad"}
    BY <1>6 DEF L!Check
  <2> QED BY <1>1, <1>6, <2>1, DetectionStays, Zenon DEF L!Check
<1>7. CASE L!PadRun
  BY <1>7, PadRunKeeps
<1>8. CASE L!SaveSlot
  BY <1>8, SaveSlotKeeps
<1>9. CASE L!SaveClose \/ L!SaveFails
  BY <1>9, SaveEndKeeps
<1> QED BY <1>2, <1>3, <1>4, <1>5, <1>6, <1>7, <1>8, <1>9, Zenon DEF L!Next

(* A reading that is kept is still in its buffer: its detector has read    *)
(* once more at most.                                                      *)
LEMMA LaunchWasSaved ==
  ASSUME L!ReadingsAssumption, DetectionInv
  PROVE  L!LaunchIsSaved
<1>1. SUFFICES ASSUME main = "flying", NEW d \in L!Detector \ unsaved, NEW n \in 1..atLaunch[d],
                      n > (atLaunch[d] - BufferSize[d]) + 1
               PROVE  \E i \in DOMAIN saved[d] : saved[d][i] = n
  BY DEF L!LaunchIsSaved
<1>2. /\ atLaunch[d] \in Nat /\ read[d] \in Seq(Int) /\ Len(read[d]) \in Nat
      /\ index[d] \in L!Slots(d) /\ saved[d] \in Seq(Int) /\ BufferSize[d] \in Nat \ {0}
  BY DEF DetectionInv, DetectionTypeOK, L!ReadingsAssumption
<1>3. PICK size \in Nat \ {0} : size = BufferSize[d] /\ L!Slots(d) = 0..(size - 1)
  BY <1>2 DEF L!Slots
<1>4. PICK i \in Nat : i = index[d] /\ i < size
  BY <1>2, <1>3
<1>5. PICK len \in Nat : len = Len(read[d])
  BY <1>2
<1>6. PICK launch \in Nat : launch = atLaunch[d]
  BY <1>2
<1>7. launch <= len /\ len <= launch + 1 /\ Len(saved[d]) = size
      /\ \A j \in 0..(size - 1) : j < size /\ Kept(d, buffer[d][j]) => saved[d][j + 1] = buffer[d][j]
  <2>1. Len(saved[d]) = BufferSize[d] /\ boost_detected
    BY <1>1 DEF DetectionInv, SavingInOrder, L!Detector
  <2> QED BY <1>1, <1>3, <1>5, <1>6, <2>1 DEF DetectionInv, LaunchInOrder, SavingInOrder
<1>8. /\ len - i = 0 \/ len - i >= size
      /\ \A j \in 0..(size - 1) :
           buffer[d][j] = IF j < i THEN (len - i) + j + 1 ELSE IF len - i = 0 THEN 0 ELSE ((len - i) - size) + j + 1
  BY <1>3, <1>4, <1>5 DEF DetectionInv, RingInOrder, Base
<1>9. n \in Nat /\ 1 <= n /\ n <= launch /\ n > (launch - size) + 1 /\ Kept(d, n)
  BY <1>1, <1>3, <1>6 DEF Kept
<1>10. n <= len /\ n > len - size /\ i < size /\ (len - i = 0 \/ len - i >= size)
  <2>1. launch <= len /\ len <= launch + 1 /\ 1 <= n /\ n <= launch /\ n > (launch - size) + 1 /\ n \in Nat
    BY <1>7, <1>9
  <2> QED BY <1>4, <1>8, <2>1
<1>11. \E j \in 0..(size - 1) : buffer[d][j] = n
  <2>1. CASE n > len - i
    <3>1. PICK j : j = (n - (len - i)) - 1
      OBVIOUS
    <3>2. j \in 0..(size - 1) /\ j < i /\ (len - i) + j + 1 = n
      BY <1>9, <1>10, <2>1, <3>1
    <3> QED BY <1>8, <3>2
  <2>2. CASE ~(n > len - i)
    <3>1. PICK j : j = ((n - (len - i)) + size) - 1
      OBVIOUS
    <3>2. j \in 0..(size - 1) /\ ~(j < i) /\ len - i # 0 /\ ((len - i) - size) + j + 1 = n
      BY <1>9, <1>10, <2>2, <3>1
    <3> QED BY <1>8, <3>2
  <2> QED BY <2>1, <2>2
<1>12. PICK j \in 0..(size - 1) : buffer[d][j] = n
  BY <1>11
<1>13. j + 1 \in 1..size /\ j < size
  BY <1>3, <1>12
<1>14. saved[d][j + 1] = n
  BY <1>7, <1>9, <1>12, <1>13
<1>15. DOMAIN saved[d] = 1..size
  BY <1>2, <1>7
<1> QED BY <1>13, <1>14, <1>15

-----------------------------------------------------------------------------
(* The six together.                                                       *)

Inv ==
  /\ subject \in {"counter", "logger", "log", "frames", "detection", "recording"}
  /\ subject = "counter" => CounterInv
  /\ subject = "logger" => LoggerInv
  /\ subject = "log" => LogInv
  /\ subject = "frames" => FramesInv
  /\ subject = "recording" => RecordsInv
  /\ subject = "detection" => DetectionInv

(* Whatever runs keeps its files in order.                                 *)
THEOREM Invariance == Spec => []Inv
<1>1. /\ D!LoggerAssumption /\ F!NamesAssumption /\ S!SizeAssumption /\ G!PackAssumption
      /\ L!ReadingsAssumption
  BY MCLoggerAssumption, MCNamesAssumption, MCSizeAssumption, MCPackAssumption, MCReadingsAssumption
<1>2. Init => Inv
  <2>1. SUFFICES ASSUME Init PROVE Inv
    OBVIOUS
  <2>2. CASE subject = "counter" /\ B!Init
    BY <2>2, CounterStarts DEF Inv
  <2>3. CASE subject = "logger" /\ D!Init
    BY <1>1, <2>3, LoggerStarts DEF Inv
  <2>4. CASE subject = "log" /\ F!Init
    BY <1>1, <2>4, LogStarts DEF Inv
  <2>5. CASE subject = "frames" /\ S!Init
    BY <1>1, <2>5, FramesStart DEF Inv
  <2>6. CASE subject = "recording" /\ G!Init
    BY <1>1, <2>6, RecordsStart DEF Inv
  <2>7. CASE subject = "detection" /\ L!Init
    BY <1>1, <2>7, DetectionStarts DEF Inv
  <2> QED BY <2>1, <2>2, <2>3, <2>4, <2>5, <2>6, <2>7 DEF Init
<1>3. Inv /\ [Next]_vars => Inv'
  <2>1. SUFFICES ASSUME Inv, [Next]_vars PROVE Inv'
    OBVIOUS
  <2>2. CASE CounterStep
    BY <2>1, <2>2, CounterNext DEF Inv, CounterStep
  <2>3. CASE LoggerStep
    BY <1>1, <2>1, <2>3, LoggerNext DEF Inv, LoggerStep
  <2>4. CASE LogStep
    BY <1>1, <2>1, <2>4, LogNext DEF Inv, LogStep
  <2>5. CASE FramesStep
    BY <1>1, <2>1, <2>5, FramesNext DEF Inv, FramesStep
  <2>6. CASE RecordingStep
    BY <1>1, <2>1, <2>6, RecordsNext DEF Inv, RecordingStep
  <2>7. CASE DetectionStep
    BY <1>1, <2>1, <2>7, DetectionNext DEF Inv, DetectionStep
  <2>8. CASE UNCHANGED vars
    <3>1. UNCHANGED <<subject, disk, boots, faults, cache, pos, pc, program, exists, count, counted,
                      mode, opened, written, before, missed, packets, files, name, unanswered, part,
                      line, inside, broken, lines, wpos, sample>>
      BY <2>8 DEF vars, backplane, counter, logger, log, frames
    <3>6. UNCHANGED <<readings, queue, contents, saved, backlog, lost, power, control, storage, main>>
      BY <2>8 DEF vars, reefer, payload, recording
    <3>7. RecordsInv => RecordsInv'
      <4>1. SUFFICES ASSUME RecordsInv PROVE RecordsInv'
        OBVIOUS
      <4>2. OrdersInOrder' /\ (Closing' <=> Closing) /\ control' \in Seq({"BEGIN_STORAGE", "FINISH_STORAGE"})
        BY <3>6, <4>1 DEF RecordsInv, RecordsTypeOK, OrdersInOrder, FinishOrdered, Closing
      <4> QED BY <3>6, <4>1, <4>2, RecordsStay
    <3>2. CounterInv => CounterInv'
      BY <3>1 DEF CounterInv, CounterTypeOK, CountsInOrder, MadeEmpty, AsItWas, Coming, Word, B!First
    <3>3. LoggerInv => LoggerInv'
      BY <3>1 DEF LoggerInv, LoggerTypeOK, SizesKept, InPlace, LastAt, InLaps, LapBefore, D!Place
    <3>4. LogInv => LogInv'
      <4>1. (LogTypeOK => LogTypeOK') /\ (FlightsInOrder => FlightsInOrder') /\ (LogsKept => LogsKept')
        BY <3>1 DEF LogTypeOK, FlightsInOrder, LogsKept, Free, F!NoName
      <4>2. LinesKept => LinesKept'
        <5>1. ASSUME NEW l
              PROVE  /\ (InLines(l) => InLines(l)') /\ (Ended(l) => Ended(l)')
                     /\ (EndedOrOpen(l) => EndedOrOpen(l)')
          BY <3>1, Zenon DEF InLines, Ordered, NoneMissing, InOnePiece, Numbered, Ended,
                             EndedOrOpen, F!Unfinished, Has
        <5> QED BY <3>1, <5>1, Zenon DEF LinesKept, F!NoName
      <4>3. LinesOpen => LinesOpen'
        BY <3>1, Zenon DEF LinesOpen, Holds, Writing, F!NoName
      <4> QED BY <4>1, <4>2, <4>3 DEF LogInv
    <3>5. FramesInv => FramesInv'
      BY <3>1 DEF FramesInv, FramesTypeOK, LapsKept, FramesInOrder, Written, WholeLap,
                  Circular, Once, FrameAt
    <3>8. DetectionInv => DetectionInv'
      <4>1. SUFFICES ASSUME DetectionInv PROVE DetectionInv'
        OBVIOUS
      <4>2. UNCHANGED <<thread, buffer, index, accel_running_sum, boost_detected, read, atLaunch, saved, unsaved, main>>
        BY <2>8 DEF vars, reefer, payload, detection
      <4>3. thread' \in [L!Detector -> {"waiting", "reading", "left"}]
        BY <4>1, <4>2 DEF DetectionInv, DetectionTypeOK
      <4> QED BY <4>1, <4>2, <4>3, DetectionStays, Zenon
    <3> QED BY <2>1, <3>1, <3>2, <3>3, <3>4, <3>5, <3>7, <3>8 DEF Inv
  <2> QED BY <2>1, <2>2, <2>3, <2>4, <2>5, <2>6, <2>7, <2>8 DEF Next
<1> QED BY <1>2, <1>3, PTL DEF Spec

(* The boot count is that of the boots that closed the counter's file,     *)
(* wherever the power went off, since the last boot to be told that there  *)
(* was no such file (boot_count.c, fs.c, storage sample).                  *)
THEOREM CountsClosedBootsHolds == Spec => []CountsClosedBoots
<1>1. Inv => CountsClosedBoots
  BY DEF Inv, CountsClosedBoots, CounterInv, CountsInOrder, Word, B!CountsClosedBoots
<1> QED BY <1>1, Invariance, PTL

(* While every seek is done, a logger's file has, place by place, the last *)
(* packet of this run that belongs there, and what was there before where  *)
(* there is none; a seek that fails shifts the places, but the newest      *)
(* packets stay, and the file grows by no more than was written behind its *)
(* end (datalogger::write).                                                *)
THEOREM NewOverOldHolds == Spec => []NewOverOld
<1>1. Inv => NewOverOld
  BY FileIsNewOverOld, MCLoggerAssumption DEF Inv, NewOverOld
<1> QED BY <1>1, Invariance, PTL

(* A name that was free has one flight, and the parts of a line are in its *)
(* order, none is missing unless its write failed or an interrupt fell     *)
(* into it, and nothing stands between those of the timer's                *)
(* (generateFlightLogPath, CFlightLog).                                    *)
THEOREM LogsKeptWholeHolds == Spec => []LogsKeptWhole
<1>1. Inv => LogsKeptWhole
  BY LogIsWhole DEF Inv, LogsKeptWhole
<1> QED BY <1>1, Invariance, PTL

(* The two files of sensor_log have the latest samples without a gap, and  *)
(* a power cycle leaves whole laps (l_fs_write).                           *)
THEOREM FramesLeftWholeHolds == Spec => []FramesLeftWhole
<1>1. Inv => FramesLeftWhole
  BY MCSizeAssumption, FramesAreWhole DEF Inv, FramesLeftWhole
<1> QED BY <1>1, Invariance, PTL

(* Every record of a flight is in its file, in its queue or lost, in the   *)
(* order of the readings; and a file has the latest closed flight before   *)
(* what it did not reach of the earlier (data_storage.c, data_reading.c).  *)
THEOREM RecordsAccountedForHolds == Spec => []RecordsAccountedFor
<1>1. Inv => RecordsAccountedFor
  BY RecordsAreAccountedFor DEF Inv, RecordsAccountedFor
<1> QED BY <1>1, Invariance, PTL

(* A launch of the reefer is detected just when the sensors saw one, and   *)
(* the readings that led to it are in each file that could be written,     *)
(* whatever was still being read meanwhile (boost_detect.c).               *)
THEOREM LaunchIsSavedHolds == Spec => []LaunchIsSaved
<1>1. Inv => LaunchIsSaved
  <2>1. L!ReadingsAssumption
    BY MCReadingsAssumption
  <2>2. SUFFICES ASSUME Inv, subject = "detection" PROVE L!BoostIffLaunched /\ L!LaunchIsSaved
    BY DEF LaunchIsSaved
  <2>3. DetectionInv
    BY <2>2 DEF Inv
  <2> QED BY <2>1, <2>3, LaunchWasSaved DEF DetectionInv
<1> QED BY <1>1, Invariance, PTL
=============================================================================
