------------------------- MODULE FftFromRing_proofs -------------------------
(***************************************************************************)
(* Theorems about the detection thread of module FftFromRing, for every    *)
(* ring length, FFT size and set of batches: its position only advances,   *)
(* and an FFT taken in one packet is made of its own samples and dated     *)
(* with the time of the first.                                             *)
(***************************************************************************)
EXTENDS FftFromRing, RingBuffer_proofs

FftPCs == {"start", "wait", "read_tail", "read_head", "read_clamp", "last_head",
           "size_head", "size_tail", "find_tail", "find_head", "find_lock", "find_scan",
           "find_take", "copy", "again_tail", "again_head", "check_tail", "check_head",
           "done"}

Finding == {"find_tail", "find_head", "find_lock", "find_scan", "find_take"}

Requesting == {"read_tail", "read_head", "read_clamp", "last_head"}

(* What the producer guarantees, whatever the thread does. *)
ProducerInv == CursorInv /\ RingInv /\ MarkersTyped /\ MarkersInv

FftTypes ==
  /\ fpc \in FftPCs
  /\ fromPos \in Nat
  /\ length \in 0 .. FftSize
  /\ i \in 0 .. length
  /\ currentPos \in Nat
  /\ dst \in [0 .. FftSize - 1 -> Nat \cup {Blank}]
  /\ rounds \in 0 .. 2
  /\ passed \in Nat

(* The FFT in progress only asks for samples that are public. *)
PosInv ==
  /\ fpc = "start" => fromPos = 0
  /\ fpc \in Requesting => fromPos + FftSize < head
  /\ fpc \notin Requesting \cup {"start", "wait"} => fromPos + FftSize <= head

(* Nothing is copied before samples are granted. *)
FreshInv ==
  /\ fpc \in Requesting \cup Finding \cup {"start", "wait", "size_head", "size_tail"} =>
       rounds = 0 /\ currentPos = 0 /\ i = 0
  /\ fpc \in {"again_tail", "again_head", "check_tail", "check_head", "done"} =>
       rounds >= 1 /\ i = 0
  /\ rounds = 0 => currentPos = 0

(* The first packet: the samples pointer is at the first position and the  *)
(* packet does not run past the last cell.                                 *)
GrantInv ==
  fpc \in Finding \cup {"copy"} /\ rounds = 0 =>
    /\ samples = fromPos % RingLength
    /\ length > 0 => samples + length <= RingLength

Right(n) == \A k \in 0 .. n - 1 : dst[k] = fromPos + k

(* What the first round copied is right unless the producer went past it.  *)
CopyInv ==
  /\ fpc = "copy" /\ rounds = 0 => tail > fromPos \/ Right(i)
  /\ fpc = "check_tail" /\ rounds = 1 => tail > fromPos \/ Right(FftSize)
  /\ fpc \in {"again_tail", "again_head", "copy"} /\ rounds = 1 => length < FftSize
  /\ fpc = "check_head" /\ rounds = 1 => Right(FftSize)
  /\ fpc = "done" /\ valid /\ rounds = 1 => Right(FftSize)

FftInv == FftTypes /\ PosInv /\ FreshInv /\ GrantInv /\ CopyInv

Inv == ProducerInv /\ FftInv

-----------------------------------------------------------------------------

(* The thread has not started. *)
LEMMA FftInit == Init => Inv
  <1> SUFFICES ASSUME Init PROVE Inv
    OBVIOUS
  <1>1. ProducerInv
    BY CursorInit, RingInit, MarkersInit, FollowInit DEF Init, ProducerInv
  <1>2. FftInv
    BY FftSizeAssumption
    DEF Init, FftInv, FftTypes, PosInv, FreshInv, GrantInv, CopyInv, FftPCs,
        Requesting, Finding
  <1> QED
    BY <1>1, <1>2 DEF Inv

(* The values the steps of the thread depend on. *)
LEMMA FftValues ==
  ASSUME Inv
  PROVE  /\ head \in Nat /\ tail \in Nat /\ newHead \in Nat
         /\ tail <= head /\ head <= newHead /\ newHead <= MaxPos
         /\ MaxPos \in Nat /\ WordSize \in Nat \ {0} /\ MaxPos < WordSize
         /\ FftSize \in Nat \ {0} /\ RingLength \in Nat \ {0}
         /\ FftTypes
  BY WithinMaxPos, MaxPosAssumption, WordSizeAssumption, FftSizeAssumption,
     RingLengthAssumption
  DEF Inv, ProducerInv, FftInv, CursorInv, CursorTypes, CursorsOrdered

(* The radio thread only moves the cursors forward. *)
LEMMA FftProducer ==
  ASSUME Inv, ProducerNext, UNCHANGED fftVars
  PROVE  Inv'
  <1>1. ProducerInv' /\ head' >= head /\ tail' >= tail
    BY CursorStep, RingStep, MarkersStep, FollowStep, CursorsAdvance DEF Inv, ProducerInv
  <1>2. head' \in Nat /\ tail' \in Nat
    BY <1>1 DEF ProducerInv, CursorInv, CursorTypes
  <1>3. FftInv'
    <2>1. FftTypes' /\ FreshInv' /\ GrantInv'
      BY DEF fftVars, Inv, FftInv, FftTypes, FreshInv, GrantInv
    <2>2. PosInv'
      BY <1>1, <1>2, FftValues DEF fftVars, Inv, FftInv, FftTypes, PosInv
    <2>3. CopyInv'
      BY <1>1, <1>2, FftValues DEF fftVars, Inv, FftInv, FftTypes, CopyInv, Right
    <2> QED
      BY <2>1, <2>2, <2>3 DEF FftInv
  <1> QED
    BY <1>1, <1>3 DEF Inv

(* The thread leaves the ring alone, but for the mutex. *)
LEMMA ThreadFrame ==
  ASSUME Inv, UNCHANGED <<producerVars, markers>>, mutex' \in {mutex, Detection, Nobody},
         FftInv'
  PROVE  Inv'
  <1>1. UNCHANGED <<cursorVars, ring, markers, batches>>
    BY DEF producerVars, cursorVars
  <1>2. MarkersTyped'
    BY <1>1, DetectionAssumption DEF Inv, ProducerInv, MarkersTyped
  <1> QED
    BY <1>1, <1>2, CursorStutter, RingStutter, FollowStutter DEF Inv, ProducerInv

(* Steps that decide where the FFT begins. *)
LEMMA ThreadPosition ==
  ASSUME Inv, UNCHANGED <<producerVars, markers>>,
         \/ StartThread \/ WaitForSamples \/ ReadLoadTail \/ ReadLoadHead
         \/ SizeLoadHead \/ FindLoadTail \/ FindLoadHead
  PROVE  FftInv'
  <1> USE FftValues
      DEF Inv, FftInv, FftTypes, PosInv, FreshInv, GrantInv, CopyInv, FftPCs,
          Requesting, Finding, Right, producerVars
  <1>1. CASE StartThread BY <1>1 DEF StartThread
  <1>2. CASE WaitForSamples BY <1>2 DEF WaitForSamples, HasNAvailableFrom
  <1>3. CASE ReadLoadTail BY <1>3 DEF ReadLoadTail
  <1>4. CASE ReadLoadHead BY <1>4 DEF ReadLoadHead
  <1>5. CASE SizeLoadHead BY <1>5 DEF SizeLoadHead
  <1>6. CASE FindLoadTail BY <1>6 DEF FindLoadTail
  <1>7. CASE FindLoadHead BY <1>7 DEF FindLoadHead
  <1> QED
    BY <1>1, <1>2, <1>3, <1>4, <1>5, <1>6, <1>7

(* The last FftSize samples: the subtraction does not wrap. *)
LEMMA LastPosition ==
  ASSUME Inv, fpc = "last_head"
  PROVE  /\ (head - FftSize) % WordSize = head - FftSize
         /\ head - FftSize \in Nat /\ head - FftSize > fromPos
  <1>1. /\ fromPos \in Nat /\ fromPos + FftSize < head /\ FftSize \in Nat
        /\ head \in Nat /\ head < WordSize /\ WordSize \in Nat \ {0}
    <2>1. FftTypes /\ PosInv
      BY DEF Inv, FftInv
    <2>2. fromPos \in Nat /\ fromPos + FftSize < head
      BY <2>1 DEF FftTypes, PosInv, Requesting, Finding
    <2> QED
      BY <2>2, FftValues
  <1>2. head - FftSize \in 0 .. WordSize - 1 /\ head - FftSize > fromPos
    BY <1>1
  <1>3. (WordSize * 0 + (head - FftSize)) % WordSize = head - FftSize
    BY <1>1, <1>2, RemainderUnique
  <1> QED
    BY <1>1, <1>2, <1>3

(* The next FFT: neither does the addition.                                *)
LEMMA NextPosition ==
  ASSUME Inv, fpc = "done"
  PROVE  (fromPos + FftSize) % WordSize = fromPos + FftSize
  <1>1. /\ fromPos \in Nat /\ fromPos + FftSize <= head /\ FftSize \in Nat
        /\ head \in Nat /\ head < WordSize /\ WordSize \in Nat \ {0}
    BY FftValues DEF FftTypes, Inv, FftInv, PosInv, Requesting, Finding
  <1>2. fromPos + FftSize \in 0 .. WordSize - 1
    BY <1>1
  <1>3. (WordSize * 0 + (fromPos + FftSize)) % WordSize = fromPos + FftSize
    BY <1>1, <1>2, RemainderUnique
  <1> QED
    BY <1>1, <1>2, <1>3

(* Steps that compute a position. *)
LEMMA ThreadMoves ==
  ASSUME Inv, UNCHANGED <<producerVars, markers>>, LastLoadHead \/ UseFft
  PROVE  FftInv'
  <1>1. /\ FftTypes /\ FreshInv
        /\ head' = head /\ FftSize \in Nat /\ head \in Nat
    BY FftValues DEF Inv, FftInv, producerVars
  <1>2. CASE LastLoadHead
    <2>1. /\ fpc = "last_head" /\ fpc' = "size_head"
          /\ fromPos' \in Nat /\ fromPos' + FftSize <= head'
          /\ UNCHANGED <<length, samples, currentPos, i, dst, passed, valid, rounds>>
      BY <1>1, <1>2, LastPosition DEF LastLoadHead
    <2>2. rounds = 0 /\ currentPos = 0 /\ i = 0
      BY <1>1, <2>1 DEF FreshInv, Requesting, Finding
    <2> QED
      BY <1>1, <2>1, <2>2
      DEF FftInv, FftTypes, PosInv, FreshInv, GrantInv, CopyInv, FftPCs,
          Requesting, Finding
  <1>3. CASE UseFft
    <2>1. /\ fpc = "done" /\ fpc' = "wait" /\ fromPos' = fromPos + FftSize
          /\ length' = 0 /\ currentPos' = 0 /\ rounds' = 0
          /\ UNCHANGED <<i, dst, passed>>
      BY <1>3, NextPosition DEF UseFft
    <2>2. i = 0 /\ fromPos' \in Nat
      BY <1>1, <2>1 DEF FreshInv, FftTypes
    <2> QED
      BY <1>1, <2>1, <2>2
      DEF FftInv, FftTypes, PosInv, FreshInv, GrantInv, CopyInv, FftPCs,
          Requesting, Finding
  <1> QED
    BY <1>2, <1>3

(* A request grants one packet that does not wrap around, or nothing.      *)
LEMMA ThreadGrant ==
  ASSUME Inv, UNCHANGED <<producerVars, markers>>, ReadClampTest \/ SizeLoadTail
  PROVE  FftInv'
  <1> DEFINE n == Contiguous(fromPos, FftSize)
  <1>1. /\ n \in 1 .. FftSize
        /\ (fromPos % RingLength) + n <= RingLength
    BY FftValues, ContiguousGrant DEF FftTypes
  <1> HIDE DEF n
  <1>2. /\ fpc \in {"read_clamp", "size_tail"} /\ fpc' = "find_tail"
        /\ length' \in {0, n} /\ samples' = fromPos % RingLength
        /\ UNCHANGED <<fromPos, currentPos, i, dst, passed, valid, rounds, head, tail>>
    <2>1. CASE ReadClampTest
      <3>1. fromPos + FftSize < head /\ fromPos \in Nat
        BY <2>1, FftValues DEF ReadClampTest, Inv, FftInv, PosInv, FftTypes, Requesting, Finding
      <3>2. ~ (fromPos + FftSize > head)
        BY <3>1, FftValues
      <3> QED
        BY <2>1, <3>2 DEF ReadClampTest, Granted, n, producerVars
    <2>2. CASE SizeLoadTail
      BY <2>2 DEF SizeLoadTail, n, producerVars
    <2> QED
      BY <2>1, <2>2
  <1>3. fromPos' + FftSize <= head'
    BY <1>2, FftValues DEF Inv, FftInv, PosInv, FftTypes, Requesting, Finding
  <1>4. FftTypes'
    <2>1. FftTypes /\ i = 0
      BY <1>2 DEF Inv, FftInv, FreshInv, Requesting, Finding
    <2>2. length' \in 0 .. FftSize /\ i' \in 0 .. length'
      BY <1>1, <1>2, <2>1, FftValues
    <2> QED
      BY <1>2, <2>1, <2>2 DEF FftTypes, FftPCs
  <1>5. PosInv'
    BY <1>2, <1>3 DEF PosInv, Requesting, Finding
  <1>6. FreshInv'
    BY <1>2 DEF Inv, FftInv, FreshInv, Requesting, Finding
  <1>7. GrantInv' /\ CopyInv'
    <2>1. length' > 0 => length' = n
      BY <1>2
    <2>2. fpc' = "find_tail" /\ (length' > 0 => samples' + length' <= RingLength)
      BY <1>1, <1>2, <2>1
    <2>3. GrantInv'
      BY <1>2, <2>2 DEF GrantInv
    <2> QED
      BY <2>2, <2>3 DEF CopyInv
  <1> QED
    BY <1>4, <1>5, <1>6, <1>7 DEF FftInv

(* timeAt's search does not touch what is copied. *)
LEMMA ThreadFind ==
  ASSUME Inv, UNCHANGED <<producerVars, markers>>, FindStep
  PROVE  FftInv' /\ mutex' \in {mutex, Detection, Nobody}
  <1>1. /\ fpc \in {"find_lock", "find_scan", "find_take"}
        /\ fpc' \in {"find_scan", "find_take", "copy"}
        /\ passed' \in {passed, passed + 1, 0}
        /\ mutex' \in {mutex, Detection, Nobody}
        /\ UNCHANGED <<fromPos, length, samples, currentPos, i, dst, valid, rounds,
                       head, tail>>
    BY DEF FindStep, FindLock, FindScan, FindTake, Dated, producerVars
  <1>2. passed' \in Nat /\ i = 0 /\ rounds = 0
    BY <1>1, FftValues DEF FftTypes, Inv, FftInv, FreshInv, Finding
  <1> QED
    BY <1>1, <1>2, FftValues
    DEF Inv, FftInv, FftTypes, PosInv, FreshInv, GrantInv, CopyInv, FftPCs,
        Requesting, Finding, Right

(* The copy loop: one sample goes to its place in the FFT's buffer.  In    *)
(* the first round it comes from the cell of its own position.             *)
LEMMA ThreadCopies ==
  ASSUME Inv, UNCHANGED <<producerVars, markers>>, CopySample
  PROVE  FftInv'
  <1> DEFINE c == samples + i
             v == MemoryAt(c)
  <1>1. /\ FftTypes /\ FreshInv /\ GrantInv /\ CopyInv /\ PosInv
        /\ FftSize \in Nat \ {0} /\ RingLength \in Nat \ {0}
        /\ head \in Nat /\ tail \in Nat
    BY FftValues DEF Inv, FftInv
  <1>2. /\ fpc = "copy" /\ fpc' = fpc /\ i < length /\ i' = i + 1
        /\ dst' = [dst EXCEPT ![i] = v]
        /\ UNCHANGED <<fromPos, length, samples, currentPos, passed, valid, rounds>>
        /\ head' = head /\ tail' = tail
    BY DEF CopySample, producerVars
  <1>3. v \in Nat \cup {Blank}
    BY DEF MemoryAt, Inv, ProducerInv, RingInv, RingType
  <1>4. /\ fromPos \in Nat /\ i \in Nat /\ length \in Nat /\ i \in 0 .. FftSize - 1
        /\ dst \in [0 .. FftSize - 1 -> Nat \cup {Blank}] /\ length <= FftSize
    BY <1>1, <1>2 DEF FftTypes
  <1>5. rounds = 0 /\ tail <= fromPos => v = fromPos + i
    <2> SUFFICES ASSUME rounds = 0, tail <= fromPos PROVE v = fromPos + i
      OBVIOUS
    <2>1. /\ samples = fromPos % RingLength /\ samples + length <= RingLength
          /\ fromPos + FftSize <= head
      BY <1>1, <1>2, <1>4 DEF GrantInv, PosInv, Requesting, Finding
    <2>2. /\ fromPos \div RingLength \in Int /\ fromPos % RingLength \in 0 .. RingLength - 1
          /\ fromPos = RingLength * (fromPos \div RingLength) + (fromPos % RingLength)
      BY <1>1, <1>4, DivMod
    <2>3. c \in 0 .. RingLength - 1
      BY <1>1, <1>2, <1>4, <2>1, <2>2
    <2>4. (RingLength * (fromPos \div RingLength) + c) % RingLength = c
      BY <1>1, <2>2, <2>3, RemainderUnique
    <2>5. RingLength * (fromPos \div RingLength) + c = fromPos + i
      <3> DEFINE m == RingLength * (fromPos \div RingLength)
      <3>1. m \in Int
        BY <1>1, <2>2
      <3>2. fromPos = m + (fromPos % RingLength)
        BY <2>2
      <3> HIDE DEF m
      <3>3. m + c = fromPos + i
        BY <1>4, <2>1, <2>2, <3>1, <3>2
      <3> QED
        BY <3>3 DEF m
    <2>6. fromPos + i \in tail .. Written - 1
      <3>1. head <= Written /\ Written \in Int
        BY FftValues
        DEF Written, Inv, ProducerInv, CursorInv, CursorTypes, CursorsOrdered, Copying
      <3> QED
        BY <1>1, <1>2, <1>4, <2>1, <3>1
    <2>7. ring[(fromPos + i) % RingLength] = fromPos + i
      BY <2>6 DEF Inv, ProducerInv, RingInv, KeptSamplesIntact
    <2> HIDE DEF c
    <2> QED
      BY <2>3, <2>4, <2>5, <2>7 DEF MemoryAt, Cells
  <1> HIDE DEF v
  <1>6. FftTypes'
    BY <1>1, <1>2, <1>3, <1>4 DEF FftTypes
  <1>7. rounds = 0 => tail > fromPos \/ Right(i)'
    <2> SUFFICES ASSUME rounds = 0, ~ (tail > fromPos), NEW k \in 0 .. i
                 PROVE  dst'[k] = fromPos + k
      BY <1>2, <1>4 DEF Right
    <2>1. v = fromPos + i
      BY <1>1, <1>4, <1>5
    <2>2. CASE k = i
      BY <1>2, <1>4, <2>1, <2>2
    <2>3. CASE k # i
      <3>1. k \in 0 .. i - 1
        BY <1>4, <2>3
      <3>2. dst[k] = fromPos + k
        BY <1>1, <1>2, <3>1 DEF CopyInv, Right
      <3> QED
        BY <1>2, <1>4, <2>3, <3>2
    <2> QED
      BY <2>2, <2>3
  <1>8. CopyInv'
    BY <1>1, <1>2, <1>7 DEF CopyInv
  <1> QED
    BY <1>1, <1>2, <1>6, <1>8
    DEF FftInv, PosInv, FreshInv, GrantInv, Requesting, Finding

(* The rest of FftFromRing: the buffer is left alone.                      *)
LEMMA ThreadRounds ==
  ASSUME Inv, UNCHANGED <<producerVars, markers>>,
         \/ CopyDone \/ AgainLoadTail \/ AgainLoadHead \/ CheckTail \/ CheckHead
  PROVE  FftInv'
  <1>1. /\ FftTypes /\ FreshInv /\ GrantInv /\ CopyInv /\ PosInv
        /\ FftSize \in Nat \ {0} /\ head \in Nat /\ tail \in Nat
        /\ head' = head /\ tail' = tail
    BY FftValues DEF Inv, FftInv, producerVars
  <1> USE <1>1
      DEF FftInv, FftTypes, PosInv, FreshInv, GrantInv, CopyInv, FftPCs,
          Requesting, Finding
  <1>2. CASE CopyDone
    <2>1. /\ fpc = "copy" /\ i = length /\ currentPos' = currentPos + length
          /\ rounds' = (IF rounds < 2 THEN rounds + 1 ELSE rounds)
          /\ i' = 0 /\ fpc' = (IF currentPos' < FftSize THEN "again_tail" ELSE "check_tail")
          /\ UNCHANGED <<fromPos, length, samples, dst, passed>>
      BY <1>2 DEF CopyDone
    <2>2. FftTypes' /\ PosInv' /\ FreshInv' /\ GrantInv'
      BY <2>1
    <2>3. rounds' = 1 => rounds = 0 /\ currentPos = 0
      BY <2>1
    <2>4. Right(FftSize)' <=> Right(FftSize)
      BY <2>1 DEF Right
    <2>5. CopyInv'
      <3>1. CASE rounds' # 1
        BY <2>1, <3>1
      <3>2. CASE rounds' = 1
        BY <2>1, <2>3, <2>4, <3>2
      <3> QED
        BY <3>1, <3>2
    <2> QED
      BY <2>2, <2>5
  <1>3. CASE AgainLoadTail
    BY <1>3 DEF AgainLoadTail, Right
  <1>4. CASE AgainLoadHead
    BY <1>4 DEF AgainLoadHead, Right
  <1>5. CASE CheckTail
    <2>1. Right(FftSize)' <=> Right(FftSize)
      BY <1>5 DEF CheckTail, Right
    <2>2. valid' => fromPos >= tail
      BY <1>5 DEF CheckTail
    <2>3. /\ fpc = "check_tail" /\ fpc' = (IF valid' THEN "check_head" ELSE "done")
          /\ UNCHANGED <<fromPos, length, samples, currentPos, i, dst, passed, rounds>>
      BY <1>5 DEF CheckTail
    <2>4. FftTypes' /\ PosInv' /\ FreshInv' /\ GrantInv'
      BY <2>3
    <2>5. CopyInv'
      BY <2>1, <2>2, <2>3
    <2> QED
      BY <2>4, <2>5
  <1>6. CASE CheckHead
    <2>1. Right(FftSize)' <=> Right(FftSize)
      BY <1>6 DEF CheckHead, Right
    <2>3. /\ fpc = "check_head" /\ fpc' = "done"
          /\ UNCHANGED <<fromPos, length, samples, currentPos, i, dst, passed, rounds>>
      BY <1>6 DEF CheckHead
    <2>4. FftTypes' /\ PosInv' /\ FreshInv' /\ GrantInv'
      BY <2>3
    <2> QED
      BY <2>1, <2>3, <2>4
  <1> QED
    BY <1>2, <1>3, <1>4, <1>5, <1>6

(* Nothing happens. *)
LEMMA FftStutter ==
  ASSUME Inv, UNCHANGED vars
  PROVE  Inv'
  <1>1. FftInv'
    <2>1. UNCHANGED fftVars /\ head' = head /\ tail' = tail
      BY DEF vars, producerVars
    <2> QED
      BY <2>1
      DEF Inv, FftInv, FftTypes, PosInv, FreshInv, GrantInv, CopyInv, Right,
          fftVars
  <1> QED
    BY <1>1, ThreadFrame DEF vars

(* The invariant holds in every state of the radio thread and the          *)
(* detection thread together.                                              *)
THEOREM FftInvariance == Spec => []Inv
  <1>1. Inv /\ [Next]_vars => Inv'
    <2> SUFFICES ASSUME Inv, [Next]_vars PROVE Inv'
      OBVIOUS
    <2>1. CASE ProducerNext /\ UNCHANGED fftVars
      BY <2>1, FftProducer
    <2>2. CASE ThreadStep /\ UNCHANGED <<producerVars, markers>>
      <3>1. FftInv' /\ mutex' \in {mutex, Detection, Nobody}
        BY <2>2, ThreadPosition, ThreadMoves, ThreadGrant, ThreadFind, ThreadCopies,
           ThreadRounds
        DEF ThreadStep, FftStep
      <3> QED
        BY <2>2, <3>1, ThreadFrame
    <2>3. CASE UNCHANGED vars
      BY <2>3, FftStutter
    <2> QED
      BY <2>1, <2>2, <2>3 DEF Next
  <1> QED
    BY <1>1, FftInit, PTL DEF Spec

(* An FFT that FftFromRing took in one packet and found valid is the       *)
(* FftSize samples of the stream from its first position, wherever the     *)
(* radio thread's stores fell.                                             *)
THEOREM SinglePacketFftsAreIntact == Spec => []SinglePacketFftIntact
  <1>1. Inv => SinglePacketFftIntact
    BY DEF Inv, FftInv, CopyInv, Right, SinglePacketFftIntact
  <1> QED
    BY <1>1, FftInvariance, PTL

-----------------------------------------------------------------------------

After == {"copy", "again_tail", "again_head", "check_tail", "check_head", "done"}

(* timeAt: the first position is public, the search holds the mutex, and   *)
(* its result stays right until the FFT is used.                           *)
DateInv ==
  /\ fpc \notin {"find_scan", "find_take"} => passed = 0
  /\ fpc \in {"find_lock", "find_scan", "find_take"} \cup After =>
       Public(batches, wpc, begin, newHead, fromPos)
  /\ fpc \in {"find_scan", "find_take"} =>
       mutex = Detection /\ PassedBy(markers, fromPos, passed)
  /\ fpc = "find_take" => StoppedAt(markers, fromPos, passed)
  /\ IF fpc \in After THEN RightDate(batches, tail, fftTime, fromPos)
                      ELSE fftTime = NoTime

FftDates == DatesInv /\ DateInv

(* The values the dates depend on. *)
LEMMA DateValues ==
  ASSUME Inv, FftDates
  PROVE  /\ fromPos \in Nat /\ passed \in Nat /\ Len(markers) \in Nat
         /\ CursorInv /\ MarkersTyped /\ MarkersInv /\ DatesInv /\ InsertLocked
  BY MarkerValues
  DEF Inv, ProducerInv, FftInv, FftTypes, FftDates, DatesInv

(* The producer's steps do not disturb timeAt, nor the date it gave. *)
LEMMA DateProducer ==
  ASSUME Inv, FftDates, ProducerNext, UNCHANGED fftVars
  PROVE  FftDates'
  <1>1. /\ fpc' = fpc /\ fromPos' = fromPos /\ passed' = passed /\ fftTime' = fftTime
        /\ DateInv
    BY DEF fftVars, FftDates
  <1>2. DatesInv'
    BY DateValues, DatesStep
  <1>3. fpc \in {"find_lock", "find_scan", "find_take"} \cup After =>
          Public(batches', wpc', begin', newHead', fromPos)
    BY <1>1, DateValues, PublicStays DEF DateInv
  <1>4. fpc \in After => RightDate(batches', tail', fftTime, fromPos)
    BY <1>1, DateValues, PublicStays DEF DateInv
  <1>5. fpc \in {"find_scan", "find_take"} => mutex # Producer /\ mutex # Nobody
    BY <1>1, ThreadAssumption, DetectionAssumption DEF DateInv
  <1>6. fpc \in {"find_scan", "find_take"} =>
          mutex' = Detection /\ PassedBy(markers', fromPos, passed)
    BY <1>1, <1>5, DateValues, SearchStays DEF DateInv
  <1>7. fpc = "find_take" => StoppedAt(markers', fromPos, passed)
    BY <1>1, <1>5, DateValues, SearchStays DEF DateInv
  <1> QED
    BY <1>1, <1>2, <1>3, <1>4, <1>6, <1>7 DEF DateInv, FftDates

(* The search gives its result: the date stays right while FftFromRing     *)
(* copies.                                                                 *)
LEMMA DateGiven ==
  ASSUME Inv, FftDates, UNCHANGED <<producerVars, markers>>, NEW t, Dated(t),
         Public(batches, wpc, begin, newHead, fromPos), RightDate(batches, tail, t, fromPos)
  PROVE  DateInv'
  BY DEF Dated, DateInv, After, producerVars

(* One step of the search. *)
LEMMA DateFind ==
  ASSUME Inv, FftDates, UNCHANGED <<producerVars, markers>>, FindStep
  PROVE  /\ DateInv'
         /\ mutex' = mutex \/ mutex = Nobody \/ mutex = Detection
  <1> DEFINE node == NodeAfter(passed)
  <1>1. /\ DateInv /\ UNCHANGED <<batches, wpc, begin, newHead, tail, markers>>
        /\ node \in Int /\ node = Len(markers) - passed
    BY DateValues DEF FftDates, producerVars, NodeAfter
  <1>2. CASE FindLock
    <2>1. /\ fpc = "find_lock" /\ fpc' = "find_scan" /\ mutex = Nobody
          /\ mutex' = Detection /\ UNCHANGED <<fromPos, passed, fftTime>>
      BY <1>2 DEF FindLock
    <2>2. PassedBy(markers, fromPos, 0)
      BY DateValues DEF PassedBy
    <2> QED
      BY <1>1, <2>1, <2>2 DEF DateInv, After
  <1>3. CASE FindScan \/ FindTake
    <2>1. /\ fpc \in {"find_scan", "find_take"} /\ mutex = Detection
          /\ Public(batches, wpc, begin, newHead, fromPos)
          /\ PassedBy(markers, fromPos, passed)
          /\ fpc = "find_take" => StoppedAt(markers, fromPos, passed)
      BY <1>1, <1>3 DEF FindScan, FindTake, DateInv
    <2>2. /\ node <= 0 => /\ RightDate(batches, tail, NoTime, fromPos)
                          /\ RightDate(batches, tail, Garbage, fromPos)
          /\ node > 0 /\ fpc = "find_take" =>
               RightDate(batches, tail, TimeAtWithMarker(markers[node], fromPos), fromPos)
      BY <2>1, DateValues, SearchResult
    <2> HIDE DEF node
    <2>3. CASE FindTake
      <3> DEFINE t == IF node <= 0 THEN Garbage ELSE TimeAtWithMarker(markers[node], fromPos)
      <3>1. Dated(t) /\ fpc = "find_take"
        BY <2>3 DEF FindTake, node
      <3>2. RightDate(batches, tail, t, fromPos)
        BY <1>1, <2>2, <3>1
      <3> HIDE DEF t
      <3> QED
        BY <2>1, <3>1, <3>2, DateGiven
    <2>4. CASE FindScan /\ node <= 0
      <3>1. Dated(Garbage) \/ Dated(NoTime)
        BY <1>1, <2>4 DEF FindScan, node
      <3> QED
        BY <2>1, <2>2, <2>4, <3>1, DateGiven
    <2>5. CASE FindScan /\ node > 0
      <3>1. /\ fpc = "find_scan"
            /\ passed' = (IF IsAfter(markers[node], fromPos) THEN passed + 1 ELSE passed)
            /\ fpc' = (IF IsAfter(markers[node], fromPos) THEN "find_scan" ELSE "find_take")
            /\ UNCHANGED <<mutex, fromPos, fftTime>>
        BY <1>1, <2>5 DEF FindScan, node
      <3>2. CASE IsAfter(markers[node], fromPos)
        <4>1. PassedBy(markers, fromPos, passed + 1)
          <5> SUFFICES ASSUME NEW j \in 1 .. Len(markers), j > Len(markers) - (passed + 1)
                       PROVE  markers[j].pos > fromPos
            BY DEF PassedBy
          <5>1. j = node \/ j > Len(markers) - passed
            BY <1>1, DateValues
          <5> QED
            BY <2>1, <3>2, <5>1 DEF PassedBy, IsAfter
        <4> QED
          BY <1>1, <2>1, <3>1, <3>2, <4>1 DEF DateInv, After
      <3>3. CASE ~ IsAfter(markers[node], fromPos)
        <4>1. StoppedAt(markers, fromPos, passed)
          BY <1>1, <3>3 DEF StoppedAt, IsAfter
        <4> QED
          BY <1>1, <2>1, <3>1, <3>3, <4>1 DEF DateInv, After
      <3> QED
        BY <2>1, <3>1, <3>2, <3>3
    <2> QED
      BY <1>1, <1>3, <2>1, <2>3, <2>4, <2>5
  <1> QED
    BY <1>2, <1>3 DEF FindStep

(* The other steps of the thread: a first position that is overtaken       *)
(* before timeAt looks belongs to a batch that has lost its start, and     *)
(* needs no date.                                                          *)
LEMMA DateThread ==
  ASSUME Inv, FftDates, UNCHANGED <<producerVars, markers>>, FftStep
  PROVE  DateInv'
  <1>1. /\ DateInv /\ UNCHANGED <<batches, wpc, begin, newHead, tail, markers>>
        /\ fpc \in FftPCs
    BY DEF FftDates, producerVars, Inv, FftInv, FftTypes
  <1>2. CASE FindLoadTail \/ FindLoadHead
    <2>1. fpc \in {"find_tail", "find_head"} /\ UNCHANGED <<fromPos, passed, fftTime>>
      BY <1>2 DEF FindLoadTail, FindLoadHead
    <2>2. fromPos < head
      BY <2>1, FftValues, DateValues DEF Inv, FftInv, PosInv, Requesting
    <2>3. Public(batches, wpc, begin, newHead, fromPos)
      BY <2>2, DateValues, PublicBelowHead
    <2>4. passed = 0 /\ fftTime = NoTime
      BY <1>1, <2>1 DEF DateInv, After
    <2>5. CASE FindLoadTail
      <3>1. CASE fromPos >= tail
        BY <1>1, <2>1, <2>4, <2>5, <3>1 DEF FindLoadTail, DateInv, After
      <3>2. CASE ~ (fromPos >= tail)
        <4>1. fpc' = "copy"
          BY <2>5, <3>2 DEF FindLoadTail
        <4>2. ASSUME NEW b \in batches, fromPos \in Span(b)
              PROVE  ~ (b.first >= tail)
          <5>1. b.first <= fromPos /\ b.first \in Nat
            BY <4>2, DateValues, SpanValues DEF DatesInv
          <5> QED
            BY <3>2, <5>1, FftValues, DateValues
        <4>3. RightDate(batches, tail, NoTime, fromPos)
          BY <4>2 DEF RightDate
        <4> QED
          BY <1>1, <2>1, <2>3, <2>4, <4>1, <4>3 DEF DateInv, After
      <3> QED
        BY <3>1, <3>2
    <2>6. CASE FindLoadHead
      BY <1>1, <2>1, <2>2, <2>3, <2>4, <2>6 DEF FindLoadHead, DateInv, After
    <2> QED
      BY <1>2, <2>5, <2>6
  <1>3. CASE \/ CopySample \/ CopyDone \/ AgainLoadTail \/ AgainLoadHead \/ CheckTail
             \/ CheckHead
    <2>1. /\ fpc \in After /\ fpc' \in After /\ UNCHANGED <<fromPos, passed, fftTime>>
      BY <1>3 DEF CopySample, CopyDone, AgainLoadTail, AgainLoadHead, CheckTail,
                  CheckHead, After
    <2> QED
      BY <1>1, <2>1 DEF DateInv, After
  <1>4. CASE \/ StartThread \/ WaitForSamples \/ ReadLoadTail \/ ReadLoadHead
             \/ ReadClampTest \/ LastLoadHead \/ SizeLoadHead \/ SizeLoadTail \/ UseFft
    <2>1. /\ fpc \notin {"find_scan", "find_take"}
          /\ fpc' \notin {"find_lock", "find_scan", "find_take"} \cup After
          /\ passed' = passed
          /\ fftTime' = NoTime \/ (fpc \notin After /\ fftTime' = fftTime)
      BY <1>4 DEF StartThread, WaitForSamples, ReadLoadTail, ReadLoadHead, ReadClampTest,
                  Granted, LastLoadHead, SizeLoadHead, SizeLoadTail, UseFft, After
    <2> QED
      BY <1>1, <2>1 DEF DateInv
  <1> QED
    BY <1>2, <1>3, <1>4 DEF FftStep

(* Every step of the two threads. *)
LEMMA DatesInvariance == Spec => []FftDates
  <1>1. Init => FftDates
    BY DatesInit DEF Init, FftDates, DateInv, After
  <1>2. Inv /\ FftDates /\ [Next]_vars => FftDates'
    <2> SUFFICES ASSUME Inv, FftDates, [Next]_vars PROVE FftDates'
      OBVIOUS
    <2>1. CASE ProducerNext /\ UNCHANGED fftVars
      BY <2>1, DateProducer
    <2>2. CASE ThreadStep /\ UNCHANGED <<producerVars, markers>>
      <3>1. DateInv' /\ (mutex' = mutex \/ mutex = Nobody \/ mutex = Detection)
        BY <2>2, DateFind, DateThread DEF ThreadStep
      <3>2. mutex = Producer => mutex' = Producer
        BY <3>1, ThreadAssumption, DetectionAssumption
      <3>3. UNCHANGED <<cursorVars, batches, markers>>
        BY <2>2 DEF producerVars, cursorVars
      <3> QED
        BY <3>1, <3>2, <3>3, DatesStutter DEF FftDates
    <2>3. CASE UNCHANGED vars
      <3>1. UNCHANGED <<cursorVars, batches, markers, mutex, fpc, fromPos, passed, fftTime,
                        wpc, begin, newHead, tail>>
        BY <2>3 DEF vars, fftVars, producerVars, cursorVars
      <3>2. DatesInv'
        BY <3>1, DatesStutter DEF FftDates
      <3> QED
        BY <3>1, <3>2 DEF FftDates, DateInv
    <2> QED
      BY <2>1, <2>2, <2>3 DEF Next
  <1> QED
    BY <1>1, <1>2, FftInvariance, PTL DEF Spec

(* An FFT, in one packet or several, dated or not, carries the clock       *)
(* reading of the batch its first sample came with and the distance from   *)
(* the start of that batch, or no time or an erased marker's if the start  *)
(* of that batch has been overwritten: never another batch's.              *)
THEOREM FftTimesAreRight == Spec => []FftTimeIsRight
  <1>1. FftDates => FftTimeIsRight
    BY DEF FftDates, DateInv, After, RightDate, FftTimeIsRight, DateIsRight, Fitting
  <1> QED
    BY <1>1, DatesInvariance, PTL

(* calc_fft never goes back, not even when it skips to the last samples    *)
(* (fft.h:119); the subtraction of requestReadLastN and the addition of    *)
(* calc_fft do not wrap.                                                   *)
THEOREM FftsAdvance == Spec => FftsNeverOverlap
  <1>1. Inv /\ [Next]_vars => [fromPos' >= fromPos]_fromPos
    <2> SUFFICES ASSUME Inv, [Next]_vars PROVE fromPos' = fromPos \/ fromPos' >= fromPos
      OBVIOUS
    <2>1. fromPos \in Nat /\ FftSize \in Nat /\ tail \in Nat /\ head \in Nat
      BY FftValues DEF FftTypes
    <2>2. CASE StartThread
      BY <2>1, <2>2 DEF StartThread, Inv, FftInv, PosInv
    <2>3. CASE LastLoadHead
      BY <2>1, <2>3, LastPosition DEF LastLoadHead
    <2>4. CASE UseFft
      BY <2>1, <2>4, NextPosition DEF UseFft
    <2>5. CASE ~ StartThread /\ ~ LastLoadHead /\ ~ UseFft
      BY <2>5
      DEF Next, FftStep, WaitForSamples, ReadLoadTail, ReadLoadHead, ReadClampTest,
          Granted, SizeLoadHead, SizeLoadTail, FindLoadTail, FindLoadHead, ThreadStep,
          FindStep, FindLock, FindScan, FindTake, Dated, CopySample, CopyDone,
          AgainLoadTail, AgainLoadHead, CheckTail, CheckHead, fftVars, vars
    <2> QED
      BY <2>2, <2>3, <2>4, <2>5
  <1> QED
    BY <1>1, FftInvariance, PTL DEF Spec, FftsNeverOverlap

=============================================================================
