---------------------- MODULE RingBufferReaders_proofs ----------------------
(***************************************************************************)
(* Theorems of RingBufferReaders!Spec, for every ring length, batch sizes, *)
(* set of consumers and read sizes: types, the order of the cursors, the   *)
(* content of the cells, and that a validated read is intact.              *)
(***************************************************************************)
EXTENDS RingBufferReaders, RingBuffer_proofs

(* What the producer guarantees, whatever the readers do. *)
ProducerInv == CursorInv /\ RingInv /\ MarkersTyped

ReaderTypes ==
  /\ rpc \in [Readers -> ReaderPCs]
  /\ rpos \in [Readers -> Nat]
  /\ want \in [Readers -> Nat]
  /\ len \in [Readers -> Nat]
  /\ got \in [Readers -> Seq(Nat \cup {Blank})]
  /\ loaded \in [Readers -> Nat]
  /\ passed \in [Readers -> Nat]
  /\ found \in [Readers -> Date \cup {NoTime, Garbage}]

(* A position that wrapped below zero is out of reach of the cursors. *)
Beyond(r) == rpos[r] >= MaxPos

Right(r) == \A i \in 1 .. Len(got[r]) : got[r][i] = rpos[r] + i - 1

(* While the first position is not overtaken the copies are right. *)
SpanInv(r) == tail > rpos[r] \/ Beyond(r) \/ Right(r)

(* Nothing is copied before it is public. *)
PublicInv(r) == got[r] = <<>> \/ NextPos(r) <= head \/ Beyond(r)

(* A call starts from scratch. *)
IdleInv(r) == rpc[r] = "idle" => got[r] = <<>>

(* A request is only made while samples are missing. *)
RequestInv(r) ==
  /\ rpc[r] \in {"read_tail", "read_head", "read_clamp", "read_clamp_load"} =>
       Len(got[r]) < want[r]
  /\ rpc[r] \in {"read_clamp", "read_clamp_load"} => NextPos(r) < head

LastInv(r) ==
  rpc[r] \in {"size_head", "size_tail"} =>
    /\ want[r] >= 1
    /\ got[r] = <<>>
    /\ rpos[r] + want[r] <= head \/ Beyond(r)

(* What was granted is public. *)
CopyInv(r) ==
  rpc[r] = "copy" => len[r] >= 1 /\ (NextPos(r) + len[r] <= head \/ Beyond(r))

(* Once the tail has been checked nothing can spoil the copies. *)
CheckedInv(r) ==
  /\ rpc[r] \in {"check_head", "accepted"} => Beyond(r) \/ Right(r)
  /\ rpc[r] = "accepted" => rpos[r] < head

ReaderInv(r) ==
  /\ IdleInv(r)
  /\ SpanInv(r)
  /\ PublicInv(r)
  /\ RequestInv(r)
  /\ LastInv(r)
  /\ CopyInv(r)
  /\ CheckedInv(r)

Inv == ProducerInv /\ ReaderTypes /\ \A r \in Readers : ReaderInv(r)

-----------------------------------------------------------------------------

(* The ring is empty and no consumer has called it yet.                    *)
LEMMA InvInit == Init => Inv
  <1> SUFFICES ASSUME Init PROVE Inv
    OBVIOUS
  <1>1. ProducerInv
    BY CursorInit, RingInit, MarkersInit DEF Init, ProducerInv
  <1>2. ReaderTypes
    BY EmptySeq DEF Init, ReaderTypes, ReaderPCs
  <1>3. ASSUME NEW r \in Readers PROVE ReaderInv(r)
    <2>1. /\ rpc[r] = "idle" /\ got[r] = <<>>
      BY DEF Init
    <2> QED
      BY <2>1, EmptySeq
      DEF ReaderInv, IdleInv, SpanInv, PublicInv, RequestInv, LastInv, CopyInv, CheckedInv,
        Right
  <1> QED
    BY <1>1, <1>2, <1>3 DEF Inv

(* A step of the producer: the readers' variables stand still and the      *)
(* cursors only move forward.                                              *)
LEMMA InvProducer == Inv /\ ProducerNext /\ UNCHANGED readVars => Inv'
  <1> SUFFICES ASSUME Inv, ProducerNext, UNCHANGED readVars PROVE Inv'
    OBVIOUS
  <1>1. ProducerInv' /\ head' >= head /\ tail' >= tail
    BY CursorStep, RingStep, MarkersStep, CursorsAdvance DEF Inv, ProducerInv
  <1>2. ReaderTypes'
    BY DEF Inv, ReaderTypes, readVars
  <1>3. head \in Nat /\ head' \in Nat /\ tail \in Nat /\ tail' \in Nat
    BY <1>1 DEF Inv, ProducerInv, CursorInv, CursorTypes
  <1>4. ASSUME NEW r \in Readers PROVE ReaderInv(r)'
    <2>1. /\ rpc' = rpc /\ rpos' = rpos /\ want' = want /\ len' = len /\ got' = got
      BY DEF readVars
    <2>2. /\ rpos[r] \in Nat /\ want[r] \in Nat /\ len[r] \in Nat /\ Len(got[r]) \in Nat
      BY LenProperties DEF Inv, ReaderTypes
    <2>3. ReaderInv(r)
      BY DEF Inv
    <2>4. IdleInv(r)' /\ SpanInv(r)' /\ CheckedInv(r)'
      BY <1>1, <1>3, <2>1, <2>2, <2>3
      DEF ReaderInv, IdleInv, SpanInv, CheckedInv, Right, Beyond
    <2>5. PublicInv(r)' /\ RequestInv(r)'
      BY <1>1, <1>3, <2>1, <2>2, <2>3 DEF ReaderInv, PublicInv, RequestInv, Beyond, NextPos
    <2>6. LastInv(r)' /\ CopyInv(r)'
      BY <1>1, <1>3, <2>1, <2>2, <2>3 DEF ReaderInv, LastInv, CopyInv, Beyond, NextPos
    <2> QED
      BY <2>4, <2>5, <2>6 DEF ReaderInv
  <1> QED
    BY <1>1, <1>2, <1>4 DEF Inv

(* A step of reader r leaves the other readers and the producer alone. *)
OnlyReader(r) ==
  /\ UNCHANGED <<producerVars, markers>>
  /\ mutex' \in Readers \cup {Producer, Nobody}
  /\ \A s \in Readers \ {r} :
       /\ rpc'[s] = rpc[s] /\ rpos'[s] = rpos[s] /\ want'[s] = want[s]
       /\ len'[s] = len[s] /\ got'[s] = got[s]

(* A reader's step preserves the invariant when it does so for that        *)
(* reader.                                                                 *)
LEMMA ReaderFrame ==
  ASSUME Inv, NEW r \in Readers, OnlyReader(r), ReaderTypes', ReaderInv(r)'
  PROVE  Inv'
  <1>1. ProducerInv'
    <2>1. UNCHANGED <<cursorVars, ring, markers, batches>>
      BY DEF OnlyReader, producerVars, cursorVars
    <2> QED
      BY <2>1, CursorStutter, RingStutter
      DEF Inv, ProducerInv, MarkersTyped, OnlyReader
  <1>2. head' = head /\ tail' = tail
    BY DEF OnlyReader, producerVars
  <1>3. ASSUME NEW s \in Readers, s # r PROVE ReaderInv(s)'
    <2>1. /\ rpc'[s] = rpc[s] /\ rpos'[s] = rpos[s] /\ want'[s] = want[s]
          /\ len'[s] = len[s] /\ got'[s] = got[s]
      BY <1>3 DEF OnlyReader
    <2>2. ReaderInv(s)
      BY DEF Inv
    <2> QED
      BY <1>2, <2>1, <2>2
      DEF ReaderInv, IdleInv, SpanInv, PublicInv, RequestInv, LastInv, CopyInv, CheckedInv,
        Right,
          Beyond, NextPos
  <1> QED
    BY <1>1, <1>3 DEF Inv

(* The values a reader's step depends on. *)
LEMMA ReaderValues ==
  ASSUME Inv, NEW r \in Readers
  PROVE  /\ rpos[r] \in Nat /\ want[r] \in Nat /\ len[r] \in Nat
         /\ got[r] \in Seq(Nat \cup {Blank}) /\ Len(got[r]) \in Nat
         /\ loaded[r] \in Nat /\ passed[r] \in Nat
         /\ head \in Nat /\ tail \in Nat /\ head <= MaxPos /\ tail <= head
         /\ MaxPos \in Nat
         /\ mutex \in Readers \cup {Producer, Nobody}
  <1>1. ReaderTypes /\ CursorInv /\ MarkersTyped
    BY DEF Inv, ProducerInv
  <1>2. /\ rpos[r] \in Nat /\ want[r] \in Nat /\ len[r] \in Nat
        /\ got[r] \in Seq(Nat \cup {Blank})
        /\ loaded[r] \in Nat /\ passed[r] \in Nat
    BY <1>1 DEF ReaderTypes
  <1>3. newHead \in Nat /\ head \in Nat /\ tail \in Nat /\ tail <= head /\ head <= newHead
    BY <1>1 DEF CursorInv, CursorTypes, CursorsOrdered
  <1>4. MaxPos \in Nat /\ head <= MaxPos
    BY <1>1, <1>3, WithinMaxPos, MaxPosAssumption
  <1> QED
    BY <1>1, <1>2, <1>3, <1>4, LenProperties DEF MarkersTyped

(* The call ends. *)
LEMMA InvReturn ==
  ASSUME Inv, NEW r \in Readers, Return(r), UNCHANGED <<producerVars, markers, mutex>>
  PROVE  Inv'
  <1>1. OnlyReader(r) /\ ReaderTypes'
    BY ReaderValues, EmptySeq
    DEF Return, Goto, OnlyReader, Inv, ReaderTypes, ReaderPCs
  <1>2. rpc'[r] = "idle" /\ got'[r] = <<>>
    BY DEF Return, Goto, Inv, ReaderTypes
  <1>3. ReaderInv(r)'
    BY <1>2, EmptySeq
    DEF ReaderInv, IdleInv, SpanInv, PublicInv, RequestInv, LastInv, CopyInv, CheckedInv,
        Right
  <1> QED
    BY <1>1, <1>3, ReaderFrame

(* The consumer only moves to another label. *)
LEMMA InvGoto ==
  ASSUME Inv, NEW r \in Readers, NEW label \in ReaderPCs, Goto(r, label),
         UNCHANGED <<rpos, want, len, got, loaded, passed, found>>,
         UNCHANGED <<producerVars, markers, mutex>>,
         label \in {"read_head", "read_clamp", "check_head", "accepted", "find_head",
                    "find_lock"},
         label = "read_head" => rpc[r] = "read_tail",
         label = "read_clamp" => rpc[r] = "read_head" /\ NextPos(r) < head,
         label = "check_head" => rpos[r] >= tail,
         label = "accepted" => rpc[r] = "check_head" /\ rpos[r] < head
  PROVE  Inv'
  <1>1. OnlyReader(r) /\ ReaderTypes'
    BY ReaderValues DEF Goto, OnlyReader, Inv, ReaderTypes
  <1>2. /\ rpc'[r] = label /\ rpos' = rpos /\ want' = want /\ len' = len /\ got' = got
        /\ head' = head /\ tail' = tail
    BY DEF Goto, Inv, ReaderTypes, producerVars
  <1>3. ReaderInv(r)
    BY DEF Inv
  <1>4. NextPos(r)' = NextPos(r) /\ Right(r)' = Right(r) /\ Beyond(r)' = Beyond(r)
    BY <1>2 DEF NextPos, Right, Beyond
  <1>5. IdleInv(r)' /\ LastInv(r)' /\ CopyInv(r)'
    BY <1>2 DEF IdleInv, LastInv, CopyInv
  <1>6. SpanInv(r)' /\ PublicInv(r)' /\ RequestInv(r)'
    BY <1>2, <1>3, <1>4 DEF ReaderInv, SpanInv, PublicInv, RequestInv
  <1>7. CheckedInv(r)'
    BY <1>2, <1>3, <1>4, ReaderValues DEF ReaderInv, SpanInv, CheckedInv
  <1>8. ReaderInv(r)'
    BY <1>5, <1>6, <1>7 DEF ReaderInv
  <1> QED
    BY <1>1, <1>8, ReaderFrame

(* The loads of isPositionValid: the call goes on or is over.              *)
LEMMA InvTests ==
  ASSUME Inv, NEW r \in Readers,
         \/ ReadLoadTail(r) \/ ReadLoadHead(r) \/ CheckTail(r) \/ CheckHead(r)
         \/ FindLoadTail(r) \/ FindLoadHead(r)
  PROVE  Inv'
  <1> USE InvGoto, InvReturn DEF LoadAndTest, ReaderPCs
  <1>1. CASE ReadLoadTail(r) BY <1>1 DEF ReadLoadTail
  <1>2. CASE ReadLoadHead(r) BY <1>2 DEF ReadLoadHead
  <1>3. CASE CheckTail(r) BY <1>3 DEF CheckTail
  <1>4. CASE CheckHead(r) BY <1>4 DEF CheckHead
  <1>5. CASE FindLoadTail(r) BY <1>5 DEF FindLoadTail
  <1>6. CASE FindLoadHead(r) BY <1>6 DEF FindLoadHead
  <1> QED
    BY <1>1, <1>2, <1>3, <1>4, <1>5, <1>6

(* A call begins. *)
LEMMA InvBeginRead ==
  ASSUME Inv, NEW r \in Readers, NEW pos \in 0 .. MaxPos, NEW n \in ReadSizes,
         BeginRead(r, pos, n)
  PROVE  Inv'
  <1>0. n \in Nat /\ n >= 1 /\ pos \in Nat
    <2>1. n \in 1 .. WordSize - MaxPos
      BY ReadSizesAssumption
    <2> QED
      BY <2>1, MaxPosAssumption, WordSizeAssumption
  <1>1. OnlyReader(r) /\ ReaderTypes'
    BY <1>0, ReaderValues DEF BeginRead, Goto, OnlyReader, Inv, ReaderTypes, ReaderPCs
  <1>2. /\ rpc'[r] = "read_tail" /\ rpos'[r] = pos /\ want'[r] = n /\ got' = got
        /\ got[r] = <<>> /\ head' = head /\ tail' = tail
    BY DEF BeginRead, Goto, Inv, ReaderTypes, producerVars, ReaderInv, IdleInv
  <1>3. ReaderInv(r)'
    BY <1>0, <1>2, EmptySeq
    DEF ReaderInv, IdleInv, SpanInv, PublicInv, RequestInv, LastInv, CopyInv, CheckedInv,
        Right
  <1> QED
    BY <1>1, <1>3, ReaderFrame

(* timeAt is called for a position.                                        *)
LEMMA InvBeginTimeAt ==
  ASSUME Inv, NEW r \in Readers, NEW pos \in 0 .. MaxPos, BeginTimeAt(r, pos)
  PROVE  Inv'
  <1>0. pos \in Nat
    BY MaxPosAssumption
  <1>1. OnlyReader(r) /\ ReaderTypes'
    BY <1>0, ReaderValues DEF BeginTimeAt, Goto, OnlyReader, Inv, ReaderTypes, ReaderPCs
  <1>2. /\ rpc'[r] = "find_tail" /\ got' = got /\ got[r] = <<>>
    BY DEF BeginTimeAt, Goto, Inv, ReaderTypes, ReaderInv, IdleInv
  <1>3. ReaderInv(r)'
    BY <1>2, EmptySeq
    DEF ReaderInv, IdleInv, SpanInv, PublicInv, RequestInv, LastInv, CopyInv, CheckedInv,
        Right
  <1> QED
    BY <1>1, <1>3, ReaderFrame

(* requestReadLastN's first position is public, or wrapped below zero and  *)
(* is beyond every position ever written.                                  *)
LEMMA InvBeginReadLast ==
  ASSUME Inv, NEW r \in Readers, NEW n \in ReadSizes, BeginReadLast(r, n)
  PROVE  Inv'
  <1>0. /\ n \in Nat /\ n >= 1 /\ n <= WordSize - MaxPos /\ head \in Nat /\ head <= MaxPos
        /\ WordSize \in Nat \ {0} /\ MaxPos \in Nat /\ MaxPos < WordSize
    BY ReadSizesAssumption, ReaderValues, WordSizeAssumption
  <1> DEFINE p == (head - n) % WordSize
  <1>1. p \in Nat /\ (p + n <= head \/ p >= MaxPos)
    <2>1. CASE head >= n
      <3>1. head - n \in 0 .. WordSize - 1
        BY <1>0, <2>1
      <3>2. (WordSize * 0 + (head - n)) % WordSize = head - n
        BY <1>0, <3>1, RemainderUnique
      <3> QED
        BY <1>0, <3>1, <3>2
    <2>2. CASE head < n
      <3>1. WordSize + (head - n) \in 0 .. WordSize - 1
        BY <1>0, <2>2
      <3>2. (WordSize * (-1) + (WordSize + (head - n))) % WordSize = WordSize + (head - n)
        BY <1>0, <3>1, RemainderUnique
      <3> QED
        BY <1>0, <3>1, <3>2
    <2> QED
      BY <1>0, <2>1, <2>2
  <1> HIDE DEF p
  <1>2. OnlyReader(r) /\ ReaderTypes'
    BY <1>0, <1>1, ReaderValues
    DEF BeginReadLast, Goto, OnlyReader, Inv, ReaderTypes, ReaderPCs, p
  <1>3. /\ rpc'[r] = "size_head" /\ rpos'[r] = p /\ want'[r] = n /\ got' = got
        /\ got[r] = <<>> /\ head' = head /\ tail' = tail
    BY DEF BeginReadLast, Goto, Inv, ReaderTypes, producerVars, ReaderInv, IdleInv, p
  <1>4. ReaderInv(r)'
    BY <1>0, <1>1, <1>3, EmptySeq
    DEF ReaderInv, IdleInv, SpanInv, PublicInv, RequestInv, LastInv, CopyInv, CheckedInv,
        Right, Beyond
  <1> QED
    BY <1>2, <1>4, ReaderFrame

(* size() has loaded _head: requestReadLastN's position is still in reach. *)
LEMMA InvSizeLoadHead ==
  ASSUME Inv, NEW r \in Readers, SizeLoadHead(r)
  PROVE  Inv'
  <1>1. OnlyReader(r) /\ ReaderTypes'
    BY ReaderValues DEF SizeLoadHead, Goto, OnlyReader, Inv, ReaderTypes, ReaderPCs
  <1>2. /\ rpc[r] = "size_head" /\ rpc'[r] = "size_tail" /\ rpos' = rpos /\ want' = want
        /\ got' = got /\ head' = head /\ tail' = tail /\ ReaderInv(r)
    BY DEF SizeLoadHead, Goto, Inv, ReaderTypes, producerVars
  <1>3. ReaderInv(r)'
    BY <1>2
    DEF ReaderInv, IdleInv, SpanInv, PublicInv, RequestInv, LastInv, CopyInv, CheckedInv,
        Right, Beyond
  <1> QED
    BY <1>1, <1>3, ReaderFrame

(* size() is known: the call is over, or one packet is granted.            *)
LEMMA InvSizeLoadTail ==
  ASSUME Inv, NEW r \in Readers, SizeLoadTail(r)
  PROVE  Inv'
  <1> DEFINE n == Contiguous(rpos[r], want[r])
  <1>1. /\ rpc[r] = "size_tail" /\ want[r] >= 1 /\ got[r] = <<>>
        /\ rpos[r] + want[r] <= head \/ Beyond(r)
    BY DEF SizeLoadTail, Inv, ReaderInv, LastInv
  <1>2. n \in 1 .. want[r] /\ n \in Nat
    <2>1. want[r] \in Nat \ {0} /\ rpos[r] \in Nat
      BY <1>1, ReaderValues
    <2>2. n \in 1 .. want[r]
      BY <2>1, ContiguousGrant
    <2> QED
      BY <2>1, <2>2
  <1> HIDE DEF n
  <1>3. CASE Return(r)
    BY <1>3, InvReturn DEF SizeLoadTail
  <1>4. CASE ~ Return(r)
    <2>1. /\ Goto(r, "copy")
          /\ want' = [want EXCEPT ![r] = n]
          /\ len' = [len EXCEPT ![r] = n]
          /\ UNCHANGED <<rpos, got, loaded, passed, found>>
          /\ UNCHANGED <<producerVars, markers, mutex>>
      BY <1>4 DEF SizeLoadTail, n
    <2>2. OnlyReader(r) /\ ReaderTypes'
      BY <1>2, <2>1, ReaderValues DEF Goto, OnlyReader, Inv, ReaderTypes, ReaderPCs
    <2>3. /\ rpc'[r] = "copy" /\ rpos' = rpos /\ want'[r] = n /\ len'[r] = n
          /\ got' = got /\ head' = head /\ tail' = tail
      BY <2>1 DEF Goto, Inv, ReaderTypes, producerVars
    <2>4. ReaderInv(r)'
      BY <1>1, <1>2, <2>3, ReaderValues, EmptySeq
      DEF ReaderInv, IdleInv, SpanInv, PublicInv, RequestInv, LastInv, CopyInv, CheckedInv,
        Right,
          Beyond, NextPos
    <2> QED
      BY <2>2, <2>4, ReaderFrame
  <1> QED
    BY <1>3, <1>4

(* The two ways requestRead clamps the length: by the length asked for, or *)
(* by a head loaded again.                                                 *)
LEMMA InvClamp ==
  ASSUME Inv, NEW r \in Readers, ReadClampTest(r) \/ ReadClampLoad(r)
  PROVE  Inv'
  <1> DEFINE n == IF rpc[r] = "read_clamp" THEN want[r] - Len(got[r]) ELSE head - NextPos(r)
             c == Contiguous(NextPos(r), n)
  <1>1. /\ rpc[r] \in {"read_clamp", "read_clamp_load"}
        /\ Len(got[r]) < want[r] /\ NextPos(r) < head /\ ReaderInv(r)
    BY DEF ReadClampTest, ReadClampLoad, Inv, ReaderInv, RequestInv
  <1>2. n \in Nat \ {0} /\ NextPos(r) \in Nat
    <2>1. NextPos(r) \in Nat /\ head \in Nat /\ want[r] \in Nat /\ Len(got[r]) \in Nat
      BY ReaderValues DEF NextPos
    <2> QED
      BY <1>1, <2>1
  <1>3. c \in 1 .. n /\ c \in Nat
    <2>1. c \in 1 .. n
      BY <1>2, ContiguousGrant
    <2> QED
      BY <1>2, <2>1
  <1> HIDE DEF c
  <1>4. CASE rpc' = [rpc EXCEPT ![r] = "read_clamp_load"]
    <2>0. len' = len
      <3>1. rpc'[r] = "read_clamp_load"
        BY <1>4 DEF Inv, ReaderTypes
      <3>2. ReadClampTest(r)
        BY <3>1 DEF ReadClampTest, ReadClampLoad, Goto, Inv, ReaderTypes
      <3> QED
        BY <3>1, <3>2 DEF ReadClampTest, Goto, Inv, ReaderTypes
    <2>1. OnlyReader(r) /\ ReaderTypes'
      BY <1>4, <2>0, ReaderValues
      DEF ReadClampTest, ReadClampLoad, OnlyReader, Inv, ReaderTypes, ReaderPCs
    <2>2. /\ rpc'[r] = "read_clamp_load" /\ rpos' = rpos /\ want' = want
          /\ got' = got /\ head' = head /\ tail' = tail
      BY <1>4 DEF ReadClampTest, ReadClampLoad, Inv, ReaderTypes, producerVars
    <2>3. ReaderInv(r)'
      BY <1>1, <2>2
      DEF ReaderInv, IdleInv, SpanInv, PublicInv, RequestInv, LastInv, CopyInv, CheckedInv,
        Right,
          Beyond, NextPos
    <2> QED
      BY <2>1, <2>3, ReaderFrame
  <1>5. CASE rpc' # [rpc EXCEPT ![r] = "read_clamp_load"]
    <2>1. /\ rpc' = [rpc EXCEPT ![r] = "copy"]
          /\ len' = [len EXCEPT ![r] = c]
          /\ NextPos(r) + n <= head
          /\ UNCHANGED <<rpos, want, got, loaded, passed, found>>
          /\ UNCHANGED <<producerVars, markers, mutex>>
      BY <1>5, <1>1, <1>2, ReaderValues
      DEF ReadClampTest, ReadClampLoad, AvailableFrom, Goto, c, NextPos
    <2>2. OnlyReader(r) /\ ReaderTypes'
      BY <1>2, <1>3, <2>1, ReaderValues DEF OnlyReader, Inv, ReaderTypes, ReaderPCs
    <2>3. /\ rpc'[r] = "copy" /\ rpos' = rpos /\ want' = want /\ len'[r] = c
          /\ got' = got /\ head' = head /\ tail' = tail
      BY <2>1 DEF Inv, ReaderTypes, producerVars
    <2>4. c >= 1 /\ NextPos(r) + c <= head /\ NextPos(r)' = NextPos(r)
      BY <1>2, <1>3, <2>1, <2>3, ReaderValues DEF NextPos
    <2>5. ReaderInv(r)'
      BY <1>1, <2>3, <2>4
      DEF ReaderInv, IdleInv, SpanInv, PublicInv, RequestInv, LastInv, CopyInv, CheckedInv,
        Right,
          Beyond
    <2> QED
      BY <2>2, <2>5, ReaderFrame
  <1> QED
    BY <1>4, <1>5

(* Copying one sample: its cell still holds it, or the span is already     *)
(* overtaken.                                                              *)
LEMMA InvCopySample ==
  ASSUME Inv, NEW r \in Readers, CopySample(r)
  PROVE  Inv'
  <1> DEFINE v == ring[NextPos(r) % RingLength]
             n == Len(got[r])
  <1>1. /\ rpc[r] = "copy" /\ ReaderInv(r) /\ CursorInv /\ RingInv
        /\ len[r] >= 1 /\ (NextPos(r) + len[r] <= head \/ Beyond(r))
    BY DEF CopySample, Inv, ProducerInv, ReaderInv, CopyInv
  <1>2. v \in Nat \cup {Blank}
    <2>1. NextPos(r) \in Nat
      BY ReaderValues DEF NextPos
    <2>2. NextPos(r) % RingLength \in Cells
      <3> DEFINE p == NextPos(r)
      <3>1. p \in Int /\ RingLength \in Nat \ {0}
        BY <2>1, RingLengthAssumption
      <3> HIDE DEF p
      <3>2. p % RingLength \in 0 .. RingLength - 1
        BY <3>1, DivMod
      <3> QED
        BY <3>2 DEF Cells, p
    <2> QED
      BY <1>1, <2>2 DEF RingInv, RingType
  <1>3. tail > rpos[r] \/ Beyond(r) \/ v = rpos[r] + n
    <2> SUFFICES ASSUME tail <= rpos[r], ~ Beyond(r) PROVE v = rpos[r] + n
      BY ReaderValues
    <2>1. NextPos(r) \in Nat /\ tail <= NextPos(r) /\ NextPos(r) < head
      BY <1>1, ReaderValues DEF NextPos
    <2>2. head <= Written /\ Written \in Int
      BY <1>1 DEF CursorInv, CursorTypes, CursorsOrdered, Copying, Written
    <2>3. NextPos(r) \in tail .. Written - 1
      BY <2>1, <2>2, ReaderValues
    <2> QED
      BY <1>1, <2>3 DEF RingInv, KeptSamplesIntact, NextPos
  <1> HIDE DEF v
  <1>4. /\ got'[r] = Append(got[r], v) /\ len'[r] = len[r] - 1
        /\ rpc'[r] = IF len[r] > 1 THEN "copy"
                     ELSE IF n + 1 < want[r] THEN "read_tail" ELSE "check_tail"
        /\ rpos' = rpos /\ want' = want /\ head' = head /\ tail' = tail
    BY DEF CopySample, Goto, Inv, ReaderTypes, producerVars, v
  <1>5. /\ got'[r] \in Seq(Nat \cup {Blank})
        /\ Len(got'[r]) = n + 1 /\ got'[r][n + 1] = v
        /\ \A i \in 1 .. n : got'[r][i] = got[r][i]
        /\ n \in Nat
    BY <1>2, <1>4, ReaderValues
  <1>6. OnlyReader(r) /\ ReaderTypes'
    <2>1. len[r] - 1 \in Nat
      BY <1>1, ReaderValues
    <2>2. /\ len' = [len EXCEPT ![r] = len[r] - 1]
          /\ got' = [got EXCEPT ![r] = Append(got[r], v)]
          /\ rpc' = [rpc EXCEPT ![r] = rpc'[r]] /\ rpc'[r] \in ReaderPCs
          /\ UNCHANGED <<rpos, want, loaded, passed, found, producerVars, markers, mutex>>
      BY <1>4 DEF CopySample, Goto, v, Inv, ReaderTypes, ReaderPCs
    <2>3. Append(got[r], v) \in Seq(Nat \cup {Blank})
      BY <1>2, ReaderValues
    <2>4. ReaderTypes'
      BY <2>1, <2>2, <2>3 DEF Inv, ReaderTypes
    <2>5. OnlyReader(r)
      BY <2>2, ReaderValues DEF OnlyReader, Inv, ReaderTypes
    <2> QED
      BY <2>4, <2>5
  <1>7. Right(r) /\ v = rpos[r] + n => Right(r)'
    <2> SUFFICES ASSUME Right(r), v = rpos[r] + n,
                        NEW i \in 1 .. n + 1
                 PROVE got'[r][i] = rpos[r] + i - 1
      BY <1>4, <1>5 DEF Right
    <2>1. CASE i = n + 1
      <3>1. got'[r][i] = rpos[r] + n
        BY <2>1, <1>5
      <3> QED
        BY <3>1, <2>1, <1>5, ReaderValues
    <2>2. CASE i \in 1 .. n
      <3>1. got'[r][i] = got[r][i]
        BY <2>2, <1>5
      <3> QED
        BY <3>1, <2>2 DEF Right, n
    <2> QED
      BY <2>1, <2>2, <1>5
  <1>8. SpanInv(r)'
    BY <1>1, <1>3, <1>4, <1>7 DEF ReaderInv, SpanInv, Beyond
  <1>9. CopyInv(r)' /\ RequestInv(r)' /\ PublicInv(r)'
    <2>1. NextPos(r)' = NextPos(r) + 1 /\ NextPos(r) \in Nat /\ Beyond(r)' = Beyond(r)
      <3>1. Beyond(r)' = Beyond(r)
        BY <1>4 DEF Beyond
      <3>2. rpos'[r] = rpos[r] /\ Len(got'[r]) = Len(got[r]) + 1
        BY <1>4, <1>5
      <3>3. rpos[r] \in Nat /\ Len(got[r]) \in Nat
        BY ReaderValues
      <3> QED
        BY <3>1, <3>2, <3>3 DEF NextPos
    <2>2. PublicInv(r)'
      BY <1>1, <1>4, <2>1, ReaderValues DEF PublicInv
    <2>3. CopyInv(r)'
      BY <1>1, <1>4, <2>1, ReaderValues DEF CopyInv
    <2>4. RequestInv(r)'
      BY <1>4, <1>5 DEF RequestInv
    <2> QED
      BY <2>2, <2>3, <2>4
  <1>10. IdleInv(r)' /\ LastInv(r)' /\ CheckedInv(r)'
    BY <1>4 DEF IdleInv, LastInv, CheckedInv
  <1> QED
    BY <1>6, <1>8, <1>9, <1>10, ReaderFrame DEF ReaderInv

(* findMarker under the mutex never touches what a read depends on. *)
LEMMA InvFind ==
  ASSUME Inv, NEW r \in Readers, FindLock(r) \/ FindScan(r) \/ FindTake(r)
  PROVE  Inv'
  <1>1. /\ \/ rpc' = rpc
           \/ \E label \in {"find_scan", "find_take", "timed"} :
                rpc' = [rpc EXCEPT ![r] = label]
        /\ passed' = passed \/ passed' = [passed EXCEPT ![r] = passed[r] + 1]
        /\ found' = found \/ \E t \in Date \cup {NoTime, Garbage} :
                                found' = [found EXCEPT ![r] = t]
        /\ mutex' \in {r, mutex, Nobody}
        /\ UNCHANGED <<rpos, want, len, got, loaded, producerVars, markers>>
    <2>1. CASE FindLock(r)
      BY <2>1 DEF FindLock, Goto
    <2>2. CASE FindScan(r)
      BY <2>2 DEF FindScan, FindResult, Goto
    <2>3. CASE FindTake(r)
      <3> DEFINE node == NodeAfter(passed[r])
                 t == IF node <= 0 THEN Garbage
                      ELSE TimeAtWithMarker(markers[node], rpos[r])
      <3>1. t \in Date \cup {NoTime, Garbage}
        <4>1. CASE node <= 0
          BY <4>1
        <4>2. CASE ~ (node <= 0)
          <5>1. markers \in Seq(Marker) /\ Len(markers) \in Nat
            BY LenProperties DEF Inv, ProducerInv, MarkersTyped
          <5>2. node \in 1 .. Len(markers)
            BY <4>2, <5>1, ReaderValues DEF NodeAfter
          <5>3. markers[node] \in Marker
            BY <5>1, <5>2, ElementOfSeq
          <5>4. markers[node].time \in Nat /\ markers[node].pos \in Nat
            BY <5>3 DEF Marker
          <5> HIDE DEF node
          <5>5. TimeAtWithMarker(markers[node], rpos[r]) \in Date
            BY <5>4, ReaderValues DEF TimeAtWithMarker, Date
          <5> QED
            BY <4>2, <5>5
        <4> QED
          BY <4>1, <4>2
      <3>2. FindResult(r, t)
        BY <2>3 DEF FindTake
      <3> HIDE DEF t
      <3> QED
        BY <3>1, <3>2 DEF FindResult, Goto
    <2> QED
      BY <2>1, <2>2, <2>3
  <1>2. rpc[r] \in {"find_lock", "find_scan", "find_take"}
    BY DEF FindLock, FindScan, FindTake
  <1>3. /\ rpc'[r] \in {"find_scan", "find_take", "timed"}
        /\ rpc' \in [Readers -> ReaderPCs]
        /\ \A s \in Readers \ {r} : rpc'[s] = rpc[s]
    <2>1. CASE rpc' = rpc
      <3>1. rpc[r] # "find_lock"
        BY <2>1 DEF FindLock, FindScan, FindTake, FindResult, Goto, Inv, ReaderTypes
      <3> QED
        BY <2>1, <3>1, <1>2 DEF Inv, ReaderTypes
    <2>2. CASE rpc' # rpc
      BY <1>1, <2>2 DEF Inv, ReaderTypes, ReaderPCs
    <2> QED
      BY <2>1, <2>2
  <1>4. passed' \in [Readers -> Nat] /\ found' \in [Readers -> Date \cup {NoTime, Garbage}]
    <2>1. passed' \in [Readers -> Nat]
      <3>1. passed \in [Readers -> Nat] /\ passed[r] + 1 \in Nat
        BY DEF Inv, ReaderTypes
      <3> QED
        BY <1>1, <3>1
    <2>2. found' \in [Readers -> Date \cup {NoTime, Garbage}]
      <3> DEFINE Times == Date \cup {NoTime, Garbage}
      <3>1. found \in [Readers -> Times]
        BY DEF Inv, ReaderTypes
      <3>2. found' = found \/ \E t \in Times : found' = [found EXCEPT ![r] = t]
        BY <1>1
      <3> HIDE DEF Times
      <3>3. found' \in [Readers -> Times]
        BY <3>1, <3>2
      <3> QED
        BY <3>3 DEF Times
    <2> QED
      BY <2>1, <2>2
  <1>5. OnlyReader(r) /\ ReaderTypes'
    BY <1>1, <1>3, <1>4, ReaderValues DEF OnlyReader, Inv, ReaderTypes
  <1>6. /\ rpos' = rpos /\ got' = got /\ head' = head /\ tail' = tail /\ ReaderInv(r)
    BY <1>1 DEF producerVars, Inv
  <1>7. ReaderInv(r)'
    BY <1>3, <1>6
    DEF ReaderInv, IdleInv, SpanInv, PublicInv, RequestInv, LastInv, CopyInv, CheckedInv,
        Right, Beyond, NextPos
  <1> QED
    BY <1>5, <1>7, ReaderFrame

(* Nothing happens.                                                        *)
LEMMA InvStutter == Inv /\ UNCHANGED vars => Inv'
  <1> SUFFICES ASSUME Inv, UNCHANGED vars PROVE Inv'
    OBVIOUS
  <1>1. /\ UNCHANGED cursorVars /\ UNCHANGED <<ring, markers, mutex, batches>>
        /\ head' = head /\ tail' = tail
        /\ rpc' = rpc /\ rpos' = rpos /\ want' = want /\ len' = len /\ got' = got
        /\ loaded' = loaded /\ passed' = passed /\ found' = found
    BY DEF vars, producerVars, readVars, cursorVars
  <1>2. ProducerInv' /\ ReaderTypes'
    BY <1>1, CursorStutter, RingStutter DEF Inv, ProducerInv, MarkersTyped, ReaderTypes
  <1>3. ASSUME NEW r \in Readers PROVE ReaderInv(r)'
    BY <1>1
    DEF Inv, ReaderInv, IdleInv, SpanInv, PublicInv, RequestInv, LastInv, CopyInv,
        CheckedInv, Right, Beyond, NextPos
  <1> QED
    BY <1>2, <1>3 DEF Inv

(* The invariant holds in every state of the ring and its consumers.       *)
THEOREM Invariance == Spec => []Inv
  <1>1. Inv /\ [Next]_vars => Inv'
    <2> SUFFICES ASSUME Inv, [Next]_vars PROVE Inv'
      OBVIOUS
    <2>1. CASE ProducerNext /\ UNCHANGED readVars
      BY <2>1, InvProducer
    <2>2. ASSUME NEW r \in Readers, ReaderCall(r) PROVE Inv'
      BY <2>2, InvBeginRead, InvBeginReadLast, InvBeginTimeAt DEF ReaderCall
    <2>3. ASSUME NEW r \in Readers, ReaderStep(r) PROVE Inv'
      <3>1. CASE Finish(r)
        BY <3>1, InvReturn DEF Finish
      <3>2. CASE ~ Finish(r)
        BY <2>3, <3>2, InvTests, InvClamp, InvCopySample, InvSizeLoadHead,
           InvSizeLoadTail, InvFind
        DEF ReaderStep
      <3> QED
        BY <3>1, <3>2
    <2>4. CASE UNCHANGED vars
      BY <2>4, InvStutter
    <2> QED
      BY <2>1, <2>2, <2>3, <2>4 DEF Next
  <1> QED
    BY <1>1, InvInit, PTL DEF Spec

-----------------------------------------------------------------------------
(* What follows from the invariant, for every value of the constants.      *)

(* The types are part of the invariant.                                    *)
LEMMA InvTypes == Inv => TypeOK
  BY DEF Inv, ProducerInv, CursorInv, CursorTypes, RingInv, RingType, MarkersTyped,
         ReaderTypes, TypeOK, ProducerTypeOK

(* Every variable of the ring and of its readers keeps its type; for the   *)
(* memcpy of addSamples this says it never writes outside the ring.        *)
THEOREM TypeCorrect == Spec => []TypeOK
  BY Invariance, InvTypes, PTL

(* At every store of requestWrite and validateWrite, the tail, the head    *)
(* and the staging head are in order and span at most the ring.            *)
THEOREM CursorsAlwaysOrdered == Spec => []CursorsOrdered
  <1>1. Inv => CursorsOrdered
    BY DEF Inv, ProducerInv, CursorInv
  <1> QED
    BY <1>1, Invariance, PTL

(* What requestWrite has not given up is in its cell, batches that overrun *)
(* the ring included.                                                      *)
THEOREM KeptSamplesAlwaysIntact == Spec => []KeptSamplesIntact
  <1>1. Inv => KeptSamplesIntact
    BY DEF Inv, ProducerInv, RingInv
  <1> QED
    BY <1>1, Invariance, PTL

(* Whatever requestRead and requestReadLastN granted and whenever the      *)
(* producer moved, a span whose first position isPositionValid accepts     *)
(* after the copy is the samples of the stream from that position.         *)
THEOREM ValidatedReadsAreIntact == Spec => []ValidatedReadIntact
  <1>1. Inv => ValidatedReadIntact
    <2> SUFFICES ASSUME Inv, NEW r \in Readers, rpc[r] = "accepted" PROVE Right(r)
      BY DEF ValidatedReadIntact, Right
    <2>1. CheckedInv(r)
      BY DEF Inv, ReaderInv
    <2> QED
      BY <2>1, ReaderValues DEF CheckedInv, Beyond
  <1> QED
    BY <1>1, Invariance, PTL

(* No store ever moves a cursor back: a position is used once.             *)
THEOREM CursorsNeverGoBack == Spec => CursorsOnlyAdvance
  <1>1. Inv /\ [Next]_vars =>
          [newHead' >= newHead /\ head' >= head /\ tail' >= tail]_ringVars
    <2> SUFFICES ASSUME Inv, [Next]_vars
                 PROVE  newHead' >= newHead /\ head' >= head /\ tail' >= tail
      OBVIOUS
    <2>1. newHead \in Nat /\ head \in Nat /\ tail \in Nat /\ CursorInv
      BY DEF Inv, ProducerInv, CursorInv, CursorTypes
    <2>2. CASE ProducerNext
      BY <2>1, <2>2, CursorsAdvance
    <2>3. ASSUME NEW r \in Readers, ReaderCall(r)
          PROVE  newHead' = newHead /\ head' = head /\ tail' = tail
      BY <2>3 DEF ReaderCall, BeginRead, BeginReadLast, BeginTimeAt, producerVars
    <2>4. ASSUME NEW r \in Readers, ReaderStep(r)
          PROVE  newHead' = newHead /\ head' = head /\ tail' = tail
      BY <2>4
      DEF ReaderStep, ReadLoadTail, ReadLoadHead, ReadClampTest, ReadClampLoad,
          CopySample, CheckTail, CheckHead, SizeLoadHead, SizeLoadTail, FindLoadTail,
          FindLoadHead, FindLock, FindScan, FindTake, FindResult, Finish, LoadAndTest,
          producerVars
    <2>5. CASE UNCHANGED vars
      BY <2>1, <2>5 DEF vars, producerVars
    <2> QED
      BY <2>1, <2>2, <2>3, <2>4, <2>5 DEF Next
  <1> QED
    BY <1>1, Invariance, PTL DEF Spec, CursorsOnlyAdvance

-----------------------------------------------------------------------------
(* Markers and the times computed from them.                               *)

(* What a consumer does is not the producer's business. *)
LEMMA ReadersLeaveProducer ==
  ASSUME NEW r \in Readers, ReaderCall(r) \/ ReaderStep(r)
  PROVE  UNCHANGED <<producerVars, markers>>
  BY DEF ReaderCall, BeginRead, BeginReadLast, BeginTimeAt,
         ReaderStep, ReadLoadTail, ReadLoadHead, ReadClampTest, ReadClampLoad,
         CopySample, CheckTail, CheckHead, SizeLoadHead, SizeLoadTail, FindLoadTail,
         FindLoadHead, FindLock, FindScan, FindTake, FindResult, Finish, LoadAndTest

(* The list invariant of the producer, in the composition. *)
LEMMA MarkersInvNext == Inv /\ MarkersInv /\ [Next]_vars => MarkersInv'
  <1> SUFFICES ASSUME Inv, MarkersInv, [Next]_vars PROVE MarkersInv'
    OBVIOUS
  <1>1. CASE ProducerNext
    BY <1>1, FollowStep DEF Inv, ProducerInv
  <1>2. CASE UNCHANGED <<producerVars, markers>>
    <2>1. UNCHANGED <<cursorVars, markers>>
      BY <1>2 DEF producerVars, cursorVars
    <2> QED
      BY <2>1, FollowStutter
  <1> QED
    BY <1>1, <1>2, ReadersLeaveProducer DEF Next, vars

(* Whatever the readers do and however the erasing loop, which takes no    *)
(* lock, falls between their steps: a marker is at a position still kept,  *)
(* in stream order, and holds the reading of the batch that begins there.  *)
THEOREM MarkersAlwaysFollowSamples == Spec => []MarkersFollowSamples
  <1>1. Init => MarkersInv
    BY FollowInit DEF Init
  <1>2. MarkersInv => MarkersFollowSamples
    BY DEF MarkersInv
  <1> QED
    BY <1>1, <1>2, MarkersInvNext, Invariance, PTL DEF Spec

(* A call of timeAt: the position is public, the search holds the mutex,   *)
(* and its result is right.                                                *)
FoundInv(r) ==
  /\ rpc[r] \notin {"find_scan", "find_take", "timed"} => passed[r] = 0
  /\ rpc[r] \in {"find_lock", "find_scan", "find_take", "timed"} =>
       Public(batches, wpc, begin, newHead, rpos[r])
  /\ rpc[r] \in {"find_scan", "find_take"} =>
       mutex = r /\ PassedBy(markers, rpos[r], passed[r])
  /\ rpc[r] = "find_take" => StoppedAt(markers, rpos[r], passed[r])
  /\ rpc[r] = "timed" => RightDate(batches, tail, found[r], rpos[r])

TimesInv == MarkersInv /\ DatesInv /\ \A r \in Readers : FoundInv(r)

(* The producer's steps do not disturb a call. *)
LEMMA FoundProducer ==
  ASSUME Inv, TimesInv, ProducerNext, UNCHANGED readVars, NEW r \in Readers
  PROVE  FoundInv(r)'
  <1>1. /\ rpc' = rpc /\ rpos' = rpos /\ passed' = passed /\ found' = found
        /\ rpos[r] \in Nat /\ passed[r] \in Nat /\ FoundInv(r)
    BY ReaderValues DEF readVars, TimesInv
  <1>2. CursorInv /\ MarkersTyped /\ DatesInv /\ InsertLocked
    BY DEF Inv, ProducerInv, TimesInv, DatesInv
  <1>3. rpc[r] \in {"find_lock", "find_scan", "find_take", "timed"} =>
          Public(batches', wpc', begin', newHead', rpos[r])
    BY <1>1, <1>2, PublicStays DEF FoundInv
  <1>4. rpc[r] = "timed" => RightDate(batches', tail', found[r], rpos[r])
    BY <1>1, <1>2, PublicStays DEF FoundInv
  <1>5. rpc[r] \in {"find_scan", "find_take"} => mutex # Producer /\ mutex # Nobody
    BY <1>1, ThreadAssumption DEF FoundInv
  <1>6. rpc[r] \in {"find_scan", "find_take"} =>
          mutex' = r /\ PassedBy(markers', rpos[r], passed[r])
    BY <1>1, <1>2, <1>5, SearchStays DEF FoundInv
  <1>7. rpc[r] = "find_take" => StoppedAt(markers', rpos[r], passed[r])
    BY <1>1, <1>2, <1>5, SearchStays DEF FoundInv
  <1> QED
    BY <1>1, <1>3, <1>4, <1>6, <1>7 DEF FoundInv

(* A call's own steps: the mutex is taken from nobody and given back. *)
LEMMA FoundMutex ==
  ASSUME Inv, TimesInv, NEW r \in Readers, ReaderCall(r) \/ ReaderStep(r)
  PROVE  mutex' = mutex \/ (mutex = Nobody /\ mutex' = r) \/ (mutex = r /\ mutex' = Nobody)
  <1>1. CASE FindScan(r) \/ FindTake(r)
    BY <1>1 DEF FindScan, FindTake, FindResult, TimesInv, FoundInv
  <1>2. CASE FindLock(r)
    BY <1>2 DEF FindLock
  <1>3. CASE ~ FindScan(r) /\ ~ FindTake(r) /\ ~ FindLock(r)
    BY <1>3
    DEF ReaderCall, BeginRead, BeginReadLast, BeginTimeAt, ReaderStep, ReadLoadTail,
        ReadLoadHead, ReadClampTest, ReadClampLoad, CopySample, CheckTail, CheckHead,
        SizeLoadHead, SizeLoadTail, FindLoadTail, FindLoadHead, Finish, LoadAndTest
  <1> QED
    BY <1>1, <1>2, <1>3

(* A step of reader r, all others standing still. *)
LEMMA FoundFrame ==
  ASSUME Inv, TimesInv, NEW r \in Readers, ReaderCall(r) \/ ReaderStep(r),
         NEW s \in Readers, s # r
  PROVE  FoundInv(s)'
  <1>1. /\ rpc'[s] = rpc[s] /\ rpos'[s] = rpos[s] /\ found'[s] = found[s]
        /\ passed'[s] = passed[s]
    BY s # r
    DEF Inv, ReaderTypes, ReaderCall, BeginRead, BeginReadLast, BeginTimeAt,
        ReaderStep, ReadLoadTail, ReadLoadHead, ReadClampTest, ReadClampLoad,
        CopySample, CheckTail, CheckHead, SizeLoadHead, SizeLoadTail, FindLoadTail,
        FindLoadHead, FindLock, FindScan, FindTake, FindResult, Finish, LoadAndTest,
        Goto, Return
  <1>2. mutex = s => mutex' = s
    BY s # r, FoundMutex, ThreadAssumption
  <1>3. /\ batches' = batches /\ wpc' = wpc /\ begin' = begin /\ newHead' = newHead
        /\ tail' = tail /\ markers' = markers
    BY ReadersLeaveProducer DEF producerVars
  <1> QED
    BY <1>1, <1>2, <1>3 DEF TimesInv, FoundInv

(* One round of the search. *)
LEMMA FoundScan ==
  ASSUME Inv, TimesInv, NEW r \in Readers, FindScan(r)
  PROVE  FoundInv(r)'
  <1> DEFINE node == NodeAfter(passed[r])
             pos == rpos[r]
             k == passed[r]
  <1>1. /\ rpc[r] = "find_scan" /\ rpos' = rpos /\ FoundInv(r)
        /\ Public(batches, wpc, begin, newHead, pos)
        /\ mutex = r /\ PassedBy(markers, pos, k)
        /\ UNCHANGED <<batches, wpc, begin, newHead, tail, markers>>
    BY DEF FindScan, FindResult, producerVars, TimesInv, FoundInv
  <1>2. /\ pos \in Nat /\ k \in Nat /\ Len(markers) \in Nat /\ node = Len(markers) - k
        /\ CursorInv /\ MarkersTyped /\ MarkersInv /\ DatesInv
    BY ReaderValues, MarkerValues DEF NodeAfter, Inv, ProducerInv, TimesInv
  <1> HIDE DEF pos, k
  <1>3. CASE node <= 0 /\ (FindResult(r, Garbage) \/ FindResult(r, NoTime))
    <2>1. rpc'[r] = "timed" /\ found'[r] \in {NoTime, Garbage}
      BY <1>3 DEF FindResult, Goto, Inv, ReaderTypes
    <2>2. RightDate(batches, tail, found'[r], pos)
      BY <1>1, <1>2, <1>3, <2>1, SearchResult DEF k
    <2> QED
      BY <1>1, <2>1, <2>2 DEF FoundInv, pos
  <1>4. CASE node > 0 /\ IsAfter(markers[node], pos) /\ passed' = [passed EXCEPT ![r] = @ + 1]
             /\ UNCHANGED <<rpc, mutex>>
    <2>1. passed'[r] = k + 1
      BY <1>4 DEF Inv, ReaderTypes, k
    <2>2. PassedBy(markers, pos, k + 1)
      <3> SUFFICES ASSUME NEW j \in 1 .. Len(markers), j > Len(markers) - (k + 1)
                   PROVE  markers[j].pos > pos
        BY DEF PassedBy
      <3>1. j = node \/ j > Len(markers) - k
        BY <1>2
      <3> QED
        BY <1>1, <1>4, <3>1 DEF PassedBy, IsAfter
    <2> QED
      BY <1>1, <1>4, <2>1, <2>2 DEF FoundInv, pos
  <1>5. CASE node > 0 /\ ~ IsAfter(markers[node], pos) /\ Goto(r, "find_take")
             /\ UNCHANGED <<passed, mutex>>
    <2>1. rpc'[r] = "find_take"
      BY <1>5 DEF Goto, Inv, ReaderTypes
    <2>2. StoppedAt(markers, pos, k)
      BY <1>2, <1>5 DEF StoppedAt, IsAfter
    <2> QED
      BY <1>1, <1>5, <2>1, <2>2 DEF FoundInv, pos, k
  <1> QED
    BY <1>2, <1>3, <1>4, <1>5 DEF FindScan, pos

(* The search is over. *)
LEMMA FoundTake ==
  ASSUME Inv, TimesInv, NEW r \in Readers, FindTake(r)
  PROVE  FoundInv(r)'
  <1> DEFINE node == NodeAfter(passed[r])
             t == IF node <= 0 THEN Garbage ELSE TimeAtWithMarker(markers[node], rpos[r])
  <1>1. /\ rpc[r] = "find_take" /\ rpos' = rpos
        /\ Public(batches, wpc, begin, newHead, rpos[r])
        /\ PassedBy(markers, rpos[r], passed[r]) /\ StoppedAt(markers, rpos[r], passed[r])
        /\ UNCHANGED <<batches, wpc, begin, newHead, tail, markers>>
        /\ FindResult(r, t)
    BY DEF FindTake, FindResult, producerVars, TimesInv, FoundInv
  <1>2. /\ rpos[r] \in Nat /\ passed[r] \in Nat /\ Len(markers) \in Nat /\ node \in Int
        /\ CursorInv /\ MarkersTyped /\ MarkersInv /\ DatesInv
    BY ReaderValues, MarkerValues DEF NodeAfter, Inv, ProducerInv, TimesInv
  <1>3. RightDate(batches, tail, t, rpos[r])
    BY <1>1, <1>2, SearchResult
  <1> HIDE DEF t
  <1>4. rpc'[r] = "timed" /\ found'[r] = t
    BY <1>1 DEF FindResult, Goto, Inv, ReaderTypes
  <1> QED
    BY <1>1, <1>3, <1>4 DEF FoundInv

(* A step of a call, for its own reader. *)
LEMMA FoundStep ==
  ASSUME Inv, TimesInv, NEW r \in Readers, ReaderCall(r) \/ ReaderStep(r)
  PROVE  FoundInv(r)'
  <1>0. /\ batches' = batches /\ wpc' = wpc /\ begin' = begin /\ newHead' = newHead
        /\ tail' = tail /\ markers' = markers /\ FoundInv(r)
    BY ReadersLeaveProducer DEF producerVars, TimesInv
  <1>1. CASE FindTake(r)
    BY <1>1, FoundTake
  <1>2. CASE FindScan(r)
    BY <1>2, FoundScan
  <1>3. CASE FindLoadHead(r) /\ rpos[r] < head
    <2>1. rpc[r] = "find_head" /\ rpc'[r] = "find_lock" /\ rpos' = rpos /\ passed' = passed
      BY <1>3 DEF FindLoadHead, LoadAndTest, Goto, Inv, ReaderTypes
    <2>2. Public(batches, wpc, begin, newHead, rpos[r])
      BY <1>3, ReaderValues, PublicBelowHead DEF Inv, ProducerInv, TimesInv
    <2> QED
      BY <1>0, <2>1, <2>2 DEF FoundInv
  <1>4. CASE FindLock(r)
    <2>1. /\ rpc[r] = "find_lock" /\ rpc'[r] = "find_scan" /\ rpos' = rpos
          /\ passed' = passed /\ mutex' = r
      BY <1>4 DEF FindLock, Goto, Inv, ReaderTypes
    <2>2. PassedBy(markers, rpos[r], 0)
      <3>1. Len(markers) \in Nat
        BY MarkerValues DEF Inv, ProducerInv
      <3> QED
        BY <3>1 DEF PassedBy
    <2> QED
      BY <1>0, <2>1, <2>2 DEF FoundInv
  <1>5. CASE \/ ReaderCall(r) \/ ReadLoadTail(r) \/ ReadLoadHead(r) \/ ReadClampTest(r)
             \/ ReadClampLoad(r) \/ CopySample(r) \/ CheckTail(r) \/ CheckHead(r)
             \/ SizeLoadHead(r) \/ SizeLoadTail(r) \/ FindLoadTail(r) \/ Finish(r)
             \/ FindLoadHead(r) /\ ~ (rpos[r] < head)
    <2>1. /\ rpc'[r] \notin {"find_lock", "find_scan", "find_take", "timed"}
          /\ passed'[r] = 0
      <3>1. CASE Return(r)
        BY <3>1 DEF Return, Goto, Inv, ReaderTypes
      <3>2. CASE ~ Return(r)
        <4>1. passed' = passed /\ rpc[r] \notin {"find_scan", "find_take", "timed"}
          BY <1>5, <3>2
          DEF ReaderCall, BeginRead, BeginReadLast, BeginTimeAt, ReadLoadTail,
              ReadLoadHead, ReadClampTest, ReadClampLoad, CopySample, CheckTail,
              CheckHead, SizeLoadHead, SizeLoadTail, FindLoadTail, FindLoadHead, Finish,
              LoadAndTest
        <4>2. rpc'[r] \notin {"find_lock", "find_scan", "find_take", "timed"}
          BY <1>5, <3>2
          DEF ReaderCall, BeginRead, BeginReadLast, BeginTimeAt, ReadLoadTail,
              ReadLoadHead, ReadClampTest, ReadClampLoad, CopySample, CheckTail,
              CheckHead, SizeLoadHead, SizeLoadTail, FindLoadTail, FindLoadHead, Finish,
              LoadAndTest, Goto, Inv, ReaderTypes
        <4> QED
          BY <1>0, <4>1, <4>2 DEF FoundInv
      <3> QED
        BY <3>1, <3>2
    <2> QED
      BY <2>1 DEF FoundInv
  <1> QED
    BY <1>1, <1>2, <1>3, <1>4, <1>5 DEF ReaderStep

(* The invariant of the dates holds in every state. *)
LEMMA TimesInvariance == Spec => []TimesInv
  <1>1. Init => TimesInv
    BY FollowInit, DatesInit DEF Init, TimesInv, FoundInv
  <1>2. Inv /\ TimesInv /\ [Next]_vars => TimesInv'
    <2> SUFFICES ASSUME Inv, TimesInv, [Next]_vars PROVE TimesInv'
      OBVIOUS
    <2>1. MarkersInv'
      BY MarkersInvNext DEF TimesInv
    <2>2. CASE ProducerNext /\ UNCHANGED readVars
      <3>1. DatesInv'
        BY <2>2, DatesStep DEF Inv, ProducerInv, TimesInv
      <3> QED
        BY <2>1, <2>2, <3>1, FoundProducer DEF TimesInv
    <2>3. ASSUME NEW r \in Readers, ReaderCall(r) \/ ReaderStep(r) PROVE TimesInv'
      <3>1. mutex = Producer => mutex' = Producer
        BY <2>3, FoundMutex, ThreadAssumption
      <3>2. UNCHANGED <<cursorVars, batches, markers>>
        BY <2>3, ReadersLeaveProducer DEF producerVars, cursorVars
      <3>3. DatesInv'
        BY <3>1, <3>2, DatesStutter DEF TimesInv
      <3>4. \A s \in Readers : FoundInv(s)'
        BY <2>3, FoundStep, FoundFrame
      <3> QED
        BY <2>1, <3>3, <3>4 DEF TimesInv
    <2>4. CASE UNCHANGED vars
      <3>1. UNCHANGED <<cursorVars, batches, markers, mutex, readVars>>
        BY <2>4 DEF vars, producerVars, cursorVars
      <3>2. DatesInv'
        BY <3>1, DatesStutter DEF TimesInv
      <3>3. \A s \in Readers : FoundInv(s)'
        BY <3>1 DEF TimesInv, FoundInv, readVars, cursorVars
      <3> QED
        BY <2>1, <3>2, <3>3 DEF TimesInv
    <2> QED
      BY <2>2, <2>3, <2>4 DEF Next
  <1> QED
    BY <1>1, <1>2, Invariance, PTL DEF Spec

(* For any number of threads, any batches and any interleaving: a time     *)
(* that timeAt computes from a marker is the time of the sample asked      *)
(* about, not one of another batch; and there is one while the sample's    *)
(* batch is kept from its start.                                           *)
THEOREM FoundTimesAreRight == Spec => []FoundTimeIsRight
  <1>1. TimesInv => FoundTimeIsRight
    BY DEF TimesInv, FoundInv, FoundTimeIsRight, RightDate, DateIsRight, Fitting
  <1> QED
    BY <1>1, TimesInvariance, PTL

-----------------------------------------------------------------------------
(* Batches that fit in the ring: the staging area is private.              *)

BatchesFit == \A n \in BatchSizes : n <= RingLength

(* A batch in progress starts at the public head and never overruns it.    *)
FitInv ==
  wpc # "idle" => /\ head = time
                  /\ src + left <= time + RingLength
                  /\ wpc # "raise_head"

(* The producer keeps it, and the readers do not touch it. *)
LEMMA FitStep ==
  ASSUME BatchesFit, CursorInv, FitInv, ProducerNext
  PROVE  FitInv'
  <1> USE RingLengthAssumption
      DEF CursorInv, CursorTypes, CursorsOrdered, AtRest, PacketGranted, RoomMade,
          Copying, BatchLeft, ProducerPCs, FitInv, ringVars, batchVars, writeVars
  <1>1. ASSUME NEW n \in BatchSizes, BeginBatch(n) PROVE FitInv'
    BY <1>1, BatchSizesAssumption DEF BeginBatch, BatchesFit
  <1>2. CASE RequestWrite
    <2> DEFINE n == Contiguous(newHead, left)
    <2>1. left \in Nat \ {0}
      BY <1>2 DEF RequestWrite
    <2>2. n \in 1 .. left
      BY <2>1, ContiguousGrant
    <2> HIDE DEF n
    <2>3. /\ wpc = "request" /\ UNCHANGED <<newHead, head, src, left, time>>
          /\ wpc' = IF Fits(n) THEN "stage"
                    ELSE IF OverrunsHead(n) THEN "raise_head" ELSE "raise_tail"
      BY <1>2 DEF RequestWrite, n
    <2>4. ~ OverrunsHead(n)
      BY <2>1, <2>2, <2>3 DEF OverrunsHead
    <2> QED
      BY <2>3, <2>4
  <1>3. CASE RaiseHead BY <1>3 DEF RaiseHead
  <1>4. CASE RaiseTail BY <1>4 DEF RaiseTail
  <1>5. CASE EraseMarker BY <1>5 DEF EraseMarker
  <1>6. CASE EraseDone BY <1>6 DEF EraseDone
  <1>7. CASE StagePacket BY <1>7 DEF StagePacket
  <1>8. CASE CopyCell BY <1>8 DEF CopyCell
  <1>9. CASE AddMarkerCheck BY <1>9 DEF AddMarkerCheck
  <1>10. CASE LockMarkers BY <1>10 DEF LockMarkers
  <1>11. CASE AddMarker BY <1>11 DEF AddMarker
  <1>12. CASE ValidateWrite BY <1>12 DEF ValidateWrite
  <1> QED
    BY <1>1, <1>2, <1>3, <1>4, <1>5, <1>6, <1>7, <1>8, <1>9, <1>10, <1>11, <1>12
    DEF ProducerNext, ProducerStep

(* The whole system keeps it. *)
LEMMA FitInvariance ==
  ASSUME BatchesFit
  PROVE  Spec => []FitInv
  <1>1. Init => FitInv
    BY DEF Init, ProducerInit, FitInv
  <1>2. Inv /\ FitInv /\ [Next]_vars => FitInv'
    <2> SUFFICES ASSUME Inv, FitInv, [Next]_vars PROVE FitInv'
      OBVIOUS
    <2>1. CASE ProducerNext
      BY <2>1, FitStep DEF Inv, ProducerInv, BatchesFit
    <2>2. CASE UNCHANGED producerVars
      BY <2>2 DEF FitInv, producerVars
    <2> QED
      BY <2>1, <2>2, ReadersLeaveProducer DEF Next, vars
  <1> QED
    BY <1>1, <1>2, Invariance, PTL DEF Spec

(* What is public is what has been committed. *)
LEMMA HeadIsCommitted == Inv /\ FitInv => head = Committed
  BY DEF Inv, ProducerInv, CursorInv, BatchLeft, FitInv, Committed

(* When every batch fits in the ring nothing is public before it is        *)
(* committed: the two-phase commit of ringbuffer.h:31-37.                  *)
THEOREM FittingBatchesStayPrivate ==
  ASSUME BatchesFit
  PROVE  Spec => []StagedDataIsPrivate
  <1>1. Inv /\ FitInv => StagedDataIsPrivate
    <2> SUFFICES ASSUME Inv, FitInv PROVE head <= Committed
      BY DEF StagedDataIsPrivate
    <2>1. head \in Nat
      BY DEF Inv, ProducerInv, CursorInv, CursorTypes
    <2> QED
      BY <2>1, HeadIsCommitted
  <1> QED
    BY <1>1, Invariance, FitInvariance, PTL

(* What a consumer has checked was committed (which the refinement of      *)
(* SampleStream says too, of the moment it is handed out).                 *)
ValidatedReadCommitted ==
  \A r \in Readers : rpc[r] = "accepted" => rpos[r] + Len(got[r]) <= Committed

(* ... so a span a consumer has checked holds no sample of an unfinished   *)
(* batch, however many packets and whichever request it was read with.     *)
THEOREM ValidatedReadsAreCommitted ==
  ASSUME BatchesFit
  PROVE  Spec => []ValidatedReadCommitted
  <1>1. Inv /\ FitInv => ValidatedReadCommitted
    <2> SUFFICES ASSUME Inv, FitInv, NEW r \in Readers, rpc[r] = "accepted"
                 PROVE  NextPos(r) <= head
      BY HeadIsCommitted DEF ValidatedReadCommitted, NextPos
    <2>1. PublicInv(r) /\ rpos[r] < head
      BY DEF Inv, ReaderInv, CheckedInv
    <2>2. CASE got[r] = <<>>
      BY <2>1, <2>2, ReaderValues, EmptySeq DEF NextPos
    <2>3. CASE got[r] # <<>>
      BY <2>1, <2>3, ReaderValues DEF PublicInv, Beyond
    <2> QED
      BY <2>2, <2>3
  <1> QED
    BY <1>1, Invariance, FitInvariance, PTL

-----------------------------------------------------------------------------
(* The ring and its readers implement the abstract stream of module        *)
(* SampleStream, for every ring length, set of batches that fit in it, set *)
(* of consumers and read sizes.                                            *)


(* What has been copied and what is left of a batch are the whole batch,   *)
(* and nothing is left once its marker is added.                           *)
BatchInv ==
  /\ wpc # "idle" => src + left - time \in BatchSizes
  /\ wpc \in {"mark", "lock", "insert", "validate"} => left = 0

(* A span that is checked is not empty. *)
GotInv(r) == rpc[r] \in {"check_tail", "check_head", "accepted"} => got[r] # <<>>

StreamInv == BatchInv /\ \A r \in Readers : GotInv(r)

(* The values the refinement mapping is made of. *)
spanBar == [r \in Readers |-> HeldSpan(r)]

-----------------------------------------------------------------------------

(* The producer keeps its part of the invariant. *)
LEMMA BatchStep ==
  ASSUME CursorInv, BatchInv, ProducerNext
  PROVE  BatchInv'
  <1> USE DEF CursorInv, CursorTypes, AtRest, PacketGranted, Copying, BatchLeft,
              ProducerPCs, BatchInv, ringVars, batchVars, writeVars
  <1>1. ASSUME NEW n \in BatchSizes, BeginBatch(n) PROVE BatchInv'
    <2>1. src + n - src = n
      BY BatchSizesAssumption
    <2> QED
      BY <1>1, <2>1 DEF BeginBatch
  <1>2. CASE RequestWrite BY <1>2 DEF RequestWrite
  <1>3. CASE RaiseHead BY <1>3 DEF RaiseHead
  <1>4. CASE RaiseTail BY <1>4 DEF RaiseTail
  <1>5. CASE EraseMarker BY <1>5 DEF EraseMarker
  <1>6. CASE EraseDone BY <1>6 DEF EraseDone
  <1>7. CASE StagePacket BY <1>7 DEF StagePacket
  <1>8. CASE CopyCell
    <2>1. src' + left' - time' = src + left - time
      BY <1>8 DEF CopyCell
    <2> QED
      BY <1>8, <2>1 DEF CopyCell
  <1>9. CASE AddMarkerCheck BY <1>9 DEF AddMarkerCheck
  <1>10. CASE LockMarkers BY <1>10 DEF LockMarkers
  <1>11. CASE AddMarker BY <1>11 DEF AddMarker
  <1>12. CASE ValidateWrite BY <1>12 DEF ValidateWrite
  <1> QED
    BY <1>1, <1>2, <1>3, <1>4, <1>5, <1>6, <1>7, <1>8, <1>9, <1>10, <1>11, <1>12
    DEF ProducerNext, ProducerStep

(* What a reader's step leaves alone. *)
LEMMA OthersStand ==
  ASSUME Inv, NEW r \in Readers, ReaderCall(r) \/ ReaderStep(r),
         NEW s \in Readers, s # r
  PROVE  rpc'[s] = rpc[s] /\ rpos'[s] = rpos[s] /\ got'[s] = got[s]
  BY s # r
  DEF Inv, ReaderTypes, ReaderCall, BeginRead, BeginReadLast, BeginTimeAt,
      ReaderStep, ReadLoadTail, ReadLoadHead, ReadClampTest, ReadClampLoad,
      CopySample, CheckTail, CheckHead, SizeLoadHead, SizeLoadTail, FindLoadTail,
      FindLoadHead, FindLock, FindScan, FindTake, FindResult, Finish, LoadAndTest,
      Goto, Return

(* The steps of a reader that neither begin nor end the check of a span.   *)
LEMMA NoSpanStep ==
  ASSUME Inv, NEW r \in Readers, ReaderCall(r) \/ ReaderStep(r),
         ~ CheckTail(r), ~ CheckHead(r), ~ Finish(r)
  PROVE  /\ rpc[r] \notin {"check_tail", "check_head", "accepted"}
         /\ rpc'[r] \notin {"check_head", "accepted"}
         /\ rpc'[r] = "check_tail" => CopySample(r)
  BY DEF Inv, ReaderTypes, ReaderCall, BeginRead, BeginReadLast, BeginTimeAt,
         ReaderStep, ReadLoadTail, ReadLoadHead, ReadClampTest, ReadClampLoad,
         CopySample, SizeLoadHead, SizeLoadTail, FindLoadTail,
         FindLoadHead, FindLock, FindScan, FindTake, FindResult, LoadAndTest,
         Goto, Return

(* A call that returns is idle. *)
LEMMA Returned ==
  ASSUME Inv, NEW r \in Readers, Return(r)
  PROVE  rpc'[r] = "idle" /\ got'[r] = <<>>
  BY DEF Inv, ReaderTypes, Return, Goto

(* The readers keep theirs. *)
LEMMA GotStep ==
  ASSUME Inv, NEW r \in Readers, ReaderCall(r) \/ ReaderStep(r), GotInv(r)
  PROVE  GotInv(r)'
  <1>1. CASE CopySample(r)
    <2> DEFINE v == ring[NextPos(r) % RingLength]
    <2>1. got'[r] = Append(got[r], v)
      BY <1>1 DEF CopySample, Inv, ReaderTypes
    <2>2. v \in Nat \cup {Blank}
      <3>1. NextPos(r) \in Int
        BY ReaderValues DEF NextPos
      <3>2. NextPos(r) % RingLength \in Cells
        BY <3>1, RingLengthAssumption, DivMod DEF Cells
      <3> QED
        BY <3>2 DEF Inv, ProducerInv, RingInv, RingType
    <2>3. Len(got'[r]) = Len(got[r]) + 1
      BY <2>1, <2>2, ReaderValues, AppendProperties
    <2>4. got'[r] # <<>>
      BY <2>3, ReaderValues, EmptySeq
    <2> QED
      BY <2>4 DEF GotInv
  <1>2. CASE CheckTail(r) \/ CheckHead(r) \/ Finish(r)
    <2>1. CASE Return(r)
      BY <2>1, Returned DEF GotInv
    <2>2. CASE ~ Return(r)
      BY <1>2, <2>2 DEF CheckTail, CheckHead, Finish, LoadAndTest, GotInv
    <2> QED
      BY <2>1, <2>2
  <1>3. CASE ~ CopySample(r) /\ ~ CheckTail(r) /\ ~ CheckHead(r) /\ ~ Finish(r)
    BY <1>3, NoSpanStep DEF GotInv
  <1> QED
    BY <1>1, <1>2, <1>3

(* The invariant of the refinement holds in every state.                   *)
LEMMA StreamInvariance == Spec => []StreamInv
  <1>1. Init => StreamInv
    BY DEF Init, ProducerInit, StreamInv, BatchInv, GotInv
  <1>2. Inv /\ StreamInv /\ [Next]_vars => StreamInv'
    <2> SUFFICES ASSUME Inv, StreamInv, [Next]_vars PROVE StreamInv'
      OBVIOUS
    <2>1. CASE ProducerNext /\ UNCHANGED readVars
      <3>1. BatchInv'
        BY <2>1, BatchStep DEF Inv, ProducerInv, StreamInv
      <3> QED
        BY <2>1, <3>1 DEF StreamInv, GotInv, readVars
    <2>2. ASSUME NEW r \in Readers, ReaderCall(r) \/ ReaderStep(r) PROVE StreamInv'
      <3>1. BatchInv'
        BY <2>2, ReadersLeaveProducer DEF StreamInv, BatchInv, producerVars
      <3>2. ASSUME NEW s \in Readers PROVE GotInv(s)'
        BY <2>2, OthersStand, GotStep DEF StreamInv, GotInv
      <3> QED
        BY <3>1, <3>2 DEF StreamInv
    <2>3. CASE UNCHANGED vars
      BY <2>3 DEF vars, producerVars, readVars, StreamInv, BatchInv, GotInv
    <2> QED
      BY <2>1, <2>2, <2>3 DEF Next
  <1> QED
    BY <1>1, <1>2, Invariance, PTL DEF Spec

-----------------------------------------------------------------------------
(* The refinement, step by step.                                           *)

(* The initial states are initial states of the stream. *)
LEMMA StreamInit == Init => Stream!Init
  BY DEF Init, ProducerInit, Committed, HeldSpan, Stream!Init

(* No reader's span changes unless its own check does. *)
LEMMA SameSpan ==
  ASSUME NEW r \in Readers, HeldSpan(r)' = HeldSpan(r), UNCHANGED <<newHead, tail, wpc, time>>,
         \A s \in Readers \ {r} : HeldSpan(s)' = HeldSpan(s)
  PROVE  UNCHANGED Stream!vars
  <1>1. \A s \in Readers : HeldSpan(s)' = HeldSpan(s)
    OBVIOUS
  <1>2. spanBar' = spanBar
    BY <1>1 DEF spanBar
  <1> QED
    BY <1>2 DEF spanBar, Stream!vars, Committed

(* The producer makes a batch available in one step, forgets before it     *)
(* overwrites, and does nothing else that a consumer could tell.           *)
LEMMA StreamProducer ==
  ASSUME Inv, FitInv, StreamInv, ProducerNext, UNCHANGED readVars
  PROVE  [Stream!Next]_Stream!vars
  <1> DEFINE Same == spanBar' = spanBar
  <1>1. /\ newHead \in Nat /\ head \in Nat /\ tail \in Nat /\ time \in Nat /\ src \in Nat
        /\ left \in Nat /\ newHead' \in Nat /\ wanted \in Nat
        /\ CursorInv /\ CursorInv'
    BY CursorStep DEF Inv, ProducerInv, CursorInv, CursorTypes
  <1>2. CASE ValidateWrite
    <2>1. /\ wpc = "validate" /\ wpc' = "idle" /\ head' = newHead /\ newHead' = newHead
          /\ tail' = tail
      BY <1>2 DEF ValidateWrite
    <2>2. left = 0 /\ src + left - time \in BatchSizes /\ src = newHead /\ head = time
      BY <1>1, <2>1 DEF StreamInv, BatchInv, FitInv, CursorInv, AtRest
    <2> DEFINE n == newHead - time
    <2>3. n \in BatchSizes
      BY <1>1, <2>2
    <2>4. Committed = time /\ Committed' = Committed + n
      BY <1>1, <2>1 DEF Committed
    <2>5. Committed + n - tail <= RingLength
      BY <1>1, <2>4 DEF CursorInv, CursorsOrdered
    <2>6. ASSUME NEW r \in Readers PROVE HeldSpan(r)' = HeldSpan(r)
      <3>1. rpc' = rpc /\ rpos' = rpos /\ got' = got
        BY DEF readVars
      <3>2. CASE rpc[r] \notin {"check_head", "accepted"}
        BY <3>1, <3>2 DEF HeldSpan
      <3>3. CASE rpc[r] \in {"check_head", "accepted"}
        <4>1. got[r] # <<>> /\ PublicInv(r)
          BY <3>3 DEF StreamInv, GotInv, Inv, ReaderInv
        <4>2. Len(got[r]) \in Nat \ {0} /\ rpos[r] \in Nat
          BY <4>1, ReaderValues, EmptySeq
        <4>3. rpos[r] < head \/ rpos[r] >= MaxPos
          BY <1>1, <4>1, <4>2 DEF PublicInv, NextPos, Beyond
        <4>4. newHead <= MaxPos /\ head <= newHead
          BY <1>1, WithinMaxPos DEF CursorInv, CursorsOrdered
        <4>5. rpos[r] < head <=> rpos[r] < newHead
          BY <1>1, <4>2, <4>3, <4>4, MaxPosAssumption
        <4> QED
          BY <2>1, <3>1, <4>5 DEF HeldSpan
      <3> QED
        BY <3>2, <3>3
    <2>7. Same
      BY <2>6 DEF spanBar
    <2> HIDE DEF n
    <2>8. Stream!Commit(n)
      BY <2>1, <2>4, <2>5, <2>7 DEF spanBar, Stream!Commit
    <2> QED
      BY <2>3, <2>8 DEF Stream!Next
  <1>3. CASE ~ ValidateWrite
    <2>1. head' = head
      BY <1>3
      DEF FitInv, ProducerNext, ProducerStep, BeginBatch, RequestWrite, RaiseHead,
          RaiseTail, EraseMarker, EraseDone, StagePacket, CopyCell, AddMarkerCheck,
          LockMarkers, AddMarker, ringVars
    <2>2. Same
      BY <2>1 DEF readVars, HeldSpan, spanBar
    <2>3. Committed' = Committed
      BY <1>1, <1>3
      DEF Committed, CursorInv, AtRest, ProducerNext, ProducerStep, BeginBatch,
          RequestWrite, RaiseHead, RaiseTail, EraseMarker, EraseDone, StagePacket,
          CopyCell, AddMarkerCheck, LockMarkers, AddMarker, ringVars, batchVars, writeVars
    <2>4. CASE RaiseTail /\ tail' # tail
      <3>1. wpc = "raise_tail" /\ tail' = wanted - RingLength
        BY <2>4 DEF RaiseTail
      <3>2. tail' >= tail /\ tail' <= head /\ head = Committed
        BY <1>1, <3>1, RingLengthAssumption
        DEF CursorInv, RoomMade, FitInv, Committed
      <3>3. tail' \in tail + 1 .. Committed
        BY <1>1, <2>4, <3>1, <3>2, RingLengthAssumption
      <3>4. Stream!Forget
        BY <2>2, <2>3, <3>3 DEF spanBar, Stream!Forget
      <3> QED
        BY <3>4 DEF Stream!Next
    <2>5. CASE ~ (RaiseTail /\ tail' # tail)
      <3>1. tail' = tail
        BY <1>3, <2>5
        DEF ProducerNext, ProducerStep, BeginBatch, RequestWrite, RaiseHead,
            EraseMarker, EraseDone, StagePacket, CopyCell, AddMarkerCheck,
            LockMarkers, AddMarker, ringVars
      <3> QED
        BY <2>2, <2>3, <3>1 DEF spanBar, Stream!vars
    <2> QED
      BY <2>4, <2>5
  <1> QED
    BY <1>2, <1>3

(* The reader learns that its first position is still kept: from then on   *)
(* it holds a run of the stream.                                           *)
LEMMA StreamDeliver ==
  ASSUME Inv, FitInv, StreamInv, NEW r \in Readers, CheckTail(r), ~ Return(r),
         rpos[r] < head,
         \A s \in Readers \ {r} : HeldSpan(s)' = HeldSpan(s)
  PROVE  \E first \in tail .. Committed - 1, n \in 1 .. Committed - tail :
           Stream!Deliver(r, first, n)
  <1> DEFINE first   == rpos[r]
             n       == Len(got[r])
             samples == [i \in 1 .. n |-> first + i - 1]
             handed  == [first |-> first, samples |-> samples]
  <1>1. /\ rpc[r] = "check_tail" /\ rpc'[r] = "check_head" /\ rpos[r] >= tail
        /\ rpos' = rpos /\ got' = got /\ UNCHANGED <<newHead, head, tail, wpc, time>>
    BY DEF CheckTail, LoadAndTest, Goto, Inv, ReaderTypes, producerVars
  <1>2. /\ first \in Nat /\ n \in Nat /\ n >= 1 /\ head \in Nat /\ tail \in Nat
        /\ head <= MaxPos /\ MaxPos \in Nat /\ got[r] \in Seq(Nat \cup {Blank})
    BY <1>1, ReaderValues, EmptySeq DEF StreamInv, GotInv
  <1>3. head = Committed
    BY HeadIsCommitted
  <1>4. first + n <= head /\ Right(r)
    BY <1>1, <1>2 DEF Inv, ReaderInv, PublicInv, SpanInv, NextPos, Beyond, StreamInv, GotInv
  <1>5. got[r] = samples
    <2>1. got[r] \in [1 .. n -> Nat \cup {Blank}]
      BY <1>2, LenProperties
    <2>2. \A i \in 1 .. n : got[r][i] = first + i - 1
      BY <1>4 DEF Right
    <2> HIDE DEF n, first
    <2> QED
      BY <2>1, <2>2
  <1>6. HeldSpan(r) = NoTime /\ HeldSpan(r)' = handed
    BY <1>1, <1>5 DEF HeldSpan
  <1>7. spanBar' = [spanBar EXCEPT ![r] = handed]
    BY <1>6 DEF spanBar
  <1>8. Stream!Deliver(r, first, n)
    <2>1. spanBar[r] = NoTime
      BY <1>6 DEF spanBar
    <2>2. Committed' = Committed /\ tail' = tail
      BY <1>1 DEF Committed
    <2> QED
      BY <1>3, <1>4, <1>7, <2>1, <2>2 DEF spanBar, Stream!Deliver
  <1>9. first \in tail .. Committed - 1 /\ n \in 1 .. Committed - tail
    BY <1>1, <1>2, <1>3, <1>4
  <1> HIDE DEF first, n
  <1> QED
    BY <1>8, <1>9

(* A reader only takes what the stream hands out, and drops it again.      *)
LEMMA StreamReader ==
  ASSUME Inv, FitInv, StreamInv, NEW r \in Readers, ReaderCall(r) \/ ReaderStep(r)
  PROVE  [Stream!Next]_Stream!vars
  <1>1. UNCHANGED <<newHead, head, tail, wpc, time>>
    BY ReadersLeaveProducer DEF producerVars
  <1>2. \A s \in Readers \ {r} : HeldSpan(s)' = HeldSpan(s)
    BY <1>1, OthersStand DEF HeldSpan
  <1>3. CASE CheckTail(r) /\ ~ Return(r) /\ rpos[r] < head
    BY <1>2, <1>3, StreamDeliver DEF Stream!Next
  <1>4. CASE CheckTail(r) /\ ~ (~ Return(r) /\ rpos[r] < head)
    <2>1. HeldSpan(r) = NoTime
      BY <1>4 DEF CheckTail, LoadAndTest, HeldSpan
    <2>2. HeldSpan(r)' = NoTime
      <3>1. CASE Return(r)
        BY <3>1, Returned DEF HeldSpan
      <3>2. CASE ~ Return(r)
        BY <1>1, <1>4, <3>2 DEF CheckTail, LoadAndTest, HeldSpan
      <3> QED
        BY <3>1, <3>2
    <2> QED
      BY <1>1, <1>2, <2>1, <2>2, SameSpan
  <1>5. CASE CheckHead(r)
    <2>1. HeldSpan(r)' = HeldSpan(r)
      <3>1. CASE rpos[r] < head
        BY <1>1, <1>5, <3>1
        DEF CheckHead, LoadAndTest, Goto, HeldSpan, Inv, ReaderTypes
      <3>2. CASE ~ (rpos[r] < head)
        BY <1>1, <1>5, <3>2, Returned DEF CheckHead, LoadAndTest, HeldSpan
      <3> QED
        BY <3>1, <3>2
    <2> QED
      BY <1>1, <1>2, <2>1, SameSpan
  <1>6. CASE Finish(r)
    <2>1. HeldSpan(r)' = NoTime
      BY <1>6, Returned DEF Finish, HeldSpan
    <2>2. CASE HeldSpan(r) = NoTime
      BY <1>1, <1>2, <2>1, <2>2, SameSpan
    <2>3. CASE HeldSpan(r) # NoTime
      <3>1. spanBar[r] # NoTime
        BY <2>3 DEF spanBar
      <3>2. spanBar' = [spanBar EXCEPT ![r] = NoTime]
        BY <1>2, <2>1 DEF spanBar
      <3>3. Stream!Drop(r)
        BY <1>1, <3>1, <3>2 DEF spanBar, Stream!Drop, Committed
      <3> QED
        BY <3>3 DEF Stream!Next
    <2> QED
      BY <2>2, <2>3
  <1>7. CASE ~ CheckTail(r) /\ ~ CheckHead(r) /\ ~ Finish(r)
    BY <1>1, <1>2, <1>7, NoSpanStep, SameSpan DEF HeldSpan
  <1> QED
    BY <1>3, <1>4, <1>5, <1>6, <1>7

(* The cells, the copies, the cursors, the staging area and the reads that *)
(* race with all of them amount to a stream that grows by whole batches    *)
(* and hands out runs of samples that were kept in full when handed out    *)
(* (the class comment, ringbuffer.h:20-91).                                *)
THEOREM RingImplementsStream ==
  ASSUME BatchesFit
  PROVE  Spec => ImplementsStream
  <1>1. Inv /\ FitInv /\ StreamInv /\ [Next]_vars => [Stream!Next]_Stream!vars
    <2> SUFFICES ASSUME Inv, FitInv, StreamInv, [Next]_vars
                 PROVE  [Stream!Next]_Stream!vars
      OBVIOUS
    <2>1. CASE UNCHANGED vars
      <3>1. spanBar' = spanBar
        BY <2>1 DEF spanBar, HeldSpan, vars, producerVars, readVars
      <3> QED
        BY <2>1, <3>1 DEF spanBar, Stream!vars, Committed, vars, producerVars
    <2> QED
      BY <2>1, StreamProducer, StreamReader DEF Next
  <1> QED
    BY <1>1, StreamInit, Invariance, FitInvariance, StreamInvariance, PTL
    DEF Spec, ImplementsStream, Stream!Spec

=============================================================================
