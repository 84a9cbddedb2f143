------------------------- MODULE RingBuffer_proofs -------------------------
(***************************************************************************)
(* Proofs about the producer of module RingBuffer, for every ring length,  *)
(* every set of batches and every consumer that leaves the producer's      *)
(* variables alone.                                                        *)
(***************************************************************************)
EXTENDS RingBuffer, BufferLemmas, SequenceTheorems

(* The variables the inductive invariant speaks about. *)
cursorVars == <<newHead, head, tail, wpc, src, left, begin, time, oldTail,
                wanted, cell, packet>>

(* Types of the cursors and of the producer's locals, without the data. *)
CursorTypes ==
  /\ newHead \in Nat /\ head \in Nat /\ tail \in Nat
  /\ wpc \in ProducerPCs
  /\ src \in Nat /\ left \in Nat /\ begin \in Nat /\ time \in Nat
  /\ oldTail \in Nat /\ wanted \in Nat
  /\ cell \in 0 .. RingLength /\ packet \in 0 .. RingLength

(* Between two packets: the next sample of the batch goes to newHead. *)
AtRest ==
  wpc \in {"idle", "request", "mark", "lock", "insert", "validate"} =>
    src = newHead /\ packet = 0

(* requestWrite has granted cells newHead .. newHead + packet - 1. *)
PacketGranted ==
  wpc \in {"raise_head", "raise_tail", "erase", "stage"} =>
    /\ src = newHead
    /\ packet >= 1 /\ packet <= left
    /\ wanted = newHead + packet
    /\ cell = newHead % RingLength
    /\ cell + packet <= RingLength

(* The room it needs is made step by step. *)
RoomMade ==
  /\ wpc = "raise_head" => wanted - RingLength > head
  /\ wpc = "raise_tail" => wanted - RingLength <= head
  /\ wpc \in {"raise_head", "raise_tail"} => wanted - RingLength >= tail
  /\ wpc \in {"erase", "stage"} => wanted - tail <= RingLength

(* The memcpy is at position newHead - packet; consumers cannot see it. *)
Copying ==
  wpc = "copy" =>
    /\ src = newHead - packet
    /\ packet >= 1 /\ packet <= left
    /\ cell = src % RingLength
    /\ cell + packet <= RingLength
    /\ head <= src

BatchLeft ==
  /\ wpc = "request" => left >= 1
  /\ wpc = "idle" => head = newHead
  /\ src + left <= MaxPos

CursorInv ==
  /\ CursorTypes
  /\ CursorsOrdered
  /\ AtRest
  /\ PacketGranted
  /\ RoomMade
  /\ Copying
  /\ BatchLeft

-----------------------------------------------------------------------------

(* requestRead_unsafe grants at least one cell, at most what was asked,    *)
(* and never past the last cell.                                           *)
LEMMA ContiguousGrant ==
  ASSUME NEW pos \in Nat, NEW n \in Nat \ {0}
  PROVE  /\ Contiguous(pos, n) \in 1 .. n
         /\ (pos % RingLength) + Contiguous(pos, n) <= RingLength
         /\ pos % RingLength \in 0 .. RingLength - 1
  <1>1. pos % RingLength \in 0 .. RingLength - 1
    BY RingLengthAssumption, DivMod
  <1> QED
    BY <1>1, RingLengthAssumption DEF Contiguous

(* The constructor starts with all cursors at 0.                           *)
LEMMA CursorInit == ProducerInit => CursorInv
  BY RingLengthAssumption, MaxPosAssumption
  DEF ProducerInit, CursorInv, CursorTypes, CursorsOrdered, AtRest, PacketGranted,
      RoomMade, Copying, BatchLeft, ProducerPCs

(* Every step of the producer preserves the invariant. *)
LEMMA CursorStep == CursorInv /\ ProducerNext => CursorInv'
  <1> SUFFICES ASSUME CursorInv, ProducerNext PROVE CursorInv'
    OBVIOUS
  <1> USE RingLengthAssumption, MaxPosAssumption
      DEF CursorInv, CursorTypes, CursorsOrdered, AtRest, PacketGranted, RoomMade,
          Copying, BatchLeft, ProducerPCs, ringVars, batchVars, writeVars
  <1>1. ASSUME NEW n \in BatchSizes, BeginBatch(n) PROVE CursorInv'
    BY <1>1, BatchSizesAssumption DEF BeginBatch
  <1>2. CASE RequestWrite
    <2>1. left \in Nat \ {0}
      BY <1>2 DEF RequestWrite
    <2> DEFINE n == Contiguous(newHead, left)
    <2>2. /\ n \in 1 .. left
          /\ (newHead % RingLength) + n <= RingLength
          /\ newHead % RingLength \in 0 .. RingLength - 1
      BY <2>1, ContiguousGrant
    <2> HIDE DEF n
    <2>3. /\ wpc = "request" /\ oldTail' = tail /\ wanted' = newHead + n
          /\ cell' = newHead % RingLength /\ packet' = n
          /\ wpc' = IF (newHead - tail) + n < RingLength THEN "stage"
                    ELSE IF (newHead + n) - RingLength > head THEN "raise_head"
                    ELSE "raise_tail"
          /\ UNCHANGED <<newHead, head, tail, src, left, begin, time>>
      BY <1>2 DEF RequestWrite, Fits, OverrunsHead, FirstCell, n
    <2> QED
      BY <2>2, <2>3
  <1>3. CASE RaiseHead
    BY <1>3 DEF RaiseHead
  <1>4. CASE RaiseTail
    BY <1>4 DEF RaiseTail
  <1>5. CASE EraseMarker
    BY <1>5 DEF EraseMarker
  <1>6. CASE EraseDone
    BY <1>6 DEF EraseDone
  <1>7. CASE StagePacket
    BY <1>7 DEF StagePacket
  <1>8. CASE CopyCell
    <2>1. /\ src \in Nat /\ cell = src % RingLength /\ cell + packet <= RingLength
          /\ cell \in Nat /\ packet \in Nat
      BY <1>8 DEF CopyCell
    <2>2. packet > 1 => (src % RingLength) + 1 < RingLength
      BY <2>1
    <2>3. packet > 1 => (src + 1) % RingLength = cell + 1
      BY <2>1, <2>2, NextCell
    <2> QED
      BY <1>8, <2>3 DEF CopyCell
  <1>9. CASE AddMarkerCheck
    BY <1>9 DEF AddMarkerCheck
  <1>10. CASE LockMarkers
    BY <1>10 DEF LockMarkers
  <1>11. CASE AddMarker
    BY <1>11 DEF AddMarker
  <1>12. CASE ValidateWrite
    BY <1>12 DEF ValidateWrite
  <1> QED
    BY <1>1, <1>2, <1>3, <1>4, <1>5, <1>6, <1>7, <1>8, <1>9, <1>10, <1>11, <1>12
    DEF ProducerNext, ProducerStep

(* The cursors only move forward, and never past MaxPos. *)
LEMMA CursorsAdvance ==
  CursorInv /\ ProducerNext => newHead' >= newHead /\ head' >= head /\ tail' >= tail
  <1> SUFFICES ASSUME CursorInv, ProducerNext
               PROVE  newHead' >= newHead /\ head' >= head /\ tail' >= tail
    OBVIOUS
  <1> USE RingLengthAssumption
      DEF CursorInv, CursorTypes, CursorsOrdered, PacketGranted, RoomMade, ringVars
  <1>1. ASSUME NEW n \in BatchSizes, BeginBatch(n)
        PROVE  newHead' >= newHead /\ head' >= head /\ tail' >= tail
    BY <1>1 DEF BeginBatch
  <1>2. CASE RequestWrite BY <1>2 DEF RequestWrite
  <1>3. CASE RaiseHead BY <1>3 DEF RaiseHead
  <1>4. CASE RaiseTail BY <1>4 DEF RaiseTail
  <1>5. CASE EraseMarker BY <1>5 DEF EraseMarker
  <1>6. CASE EraseDone BY <1>6 DEF EraseDone
  <1>7. CASE StagePacket BY <1>7 DEF StagePacket
  <1>8. CASE CopyCell BY <1>8 DEF CopyCell
  <1>9. CASE AddMarkerCheck BY <1>9 DEF AddMarkerCheck
  <1>10. CASE LockMarkers BY <1>10 DEF LockMarkers
  <1>11. CASE AddMarker BY <1>11 DEF AddMarker
  <1>12. CASE ValidateWrite BY <1>12 DEF ValidateWrite
  <1> QED
    BY <1>1, <1>2, <1>3, <1>4, <1>5, <1>6, <1>7, <1>8, <1>9, <1>10, <1>11, <1>12
    DEF ProducerNext, ProducerStep

(* No position past the bound is ever staged.                              *)
LEMMA WithinMaxPos == CursorInv => newHead <= MaxPos
  BY MaxPosAssumption
  DEF CursorInv, CursorTypes, AtRest, PacketGranted, Copying, BatchLeft, ProducerPCs

(* A consumer leaves the cursors alone.                                    *)
LEMMA CursorStutter == CursorInv /\ UNCHANGED cursorVars => CursorInv'
  BY DEF cursorVars, CursorInv, CursorTypes, CursorsOrdered, AtRest, PacketGranted,
         RoomMade, Copying, BatchLeft

-----------------------------------------------------------------------------
(* The cells.                                                              *)

RingType == ring \in [Cells -> Nat \cup {Blank}]

RingInv == RingType /\ KeptSamplesIntact

(* An empty ring keeps nothing.                                            *)
LEMMA RingInit == ProducerInit => RingInv
  BY DEF ProducerInit, RingInv, RingType, KeptSamplesIntact, Written

(* A step that leaves the cells alone and only narrows what is kept. *)
LEMMA RingNarrowed ==
  ASSUME CursorInv, CursorInv', RingInv, ring' = ring, tail' >= tail, Written' <= Written
  PROVE  RingInv'
  <1>1. tail \in Nat /\ tail' \in Nat /\ Written \in Int /\ Written' \in Int
    BY DEF CursorInv, CursorTypes, Written
  <1>2. ASSUME NEW p \in tail' .. Written' - 1 PROVE ring'[p % RingLength] = p
    <2>1. p \in tail .. Written - 1
      BY <1>1, p \in Int DEF Written
    <2> QED
      BY <2>1 DEF RingInv, KeptSamplesIntact
  <1> QED
    BY <1>2 DEF RingInv, RingType, KeptSamplesIntact

(* The memcpy only writes cells whose samples were given up before.        *)
LEMMA RingStep == CursorInv /\ RingInv /\ ProducerNext => RingInv'
  <1> SUFFICES ASSUME CursorInv, RingInv, ProducerNext PROVE RingInv'
    OBVIOUS
  <1>1. CursorInv' /\ tail' >= tail
    BY CursorStep, CursorsAdvance
  <1> USE RingLengthAssumption DEF Written, ringVars
  <1>2. CASE CopyCell
    <2>1. /\ wpc = "copy" /\ src \in Nat /\ src = newHead - packet
          /\ cell = src % RingLength /\ packet >= 1 /\ packet \in Nat /\ newHead \in Nat
          /\ tail \in Nat /\ newHead - tail <= RingLength /\ cell + packet <= RingLength
      BY <1>2 DEF CopyCell, CursorInv, CursorTypes, CursorsOrdered, Copying
    <2>2. /\ ring' = [ring EXCEPT ![cell] = src] /\ tail' = tail /\ newHead' = newHead
          /\ packet' = packet - 1 /\ Written' = src + 1
      <3>1. /\ ring' = [ring EXCEPT ![cell] = src] /\ tail' = tail /\ newHead' = newHead
            /\ packet' = packet - 1
            /\ wpc' = IF packet > 1 THEN "copy" ELSE IF left > 1 THEN "request" ELSE "mark"
        BY <1>2 DEF CopyCell
      <3> QED
        BY <2>1, <3>1
    <2>3. cell \in Cells
      BY <2>1, DivMod DEF Cells
    <2>4. RingType'
      BY <2>1, <2>2, <2>3 DEF RingInv, RingType
    <2>5. ASSUME NEW p \in tail .. src PROVE ring'[p % RingLength] = p
      <3>1. p \in Nat /\ p % RingLength \in Cells
        BY <2>1, DivMod DEF Cells
      <3>2. CASE p = src
        BY <2>1, <2>2, <2>3, <3>2 DEF RingInv, RingType
      <3>3. CASE p < src
        <4>0. src < p + RingLength
          BY <2>1
        <4>1. p % RingLength # cell
          BY <2>1, <3>1, <3>3, <4>0, CellsDiffer
        <4>2. ring[p % RingLength] = p
          BY <2>1, <3>1, <3>3 DEF RingInv, KeptSamplesIntact
        <4> QED
          BY <2>2, <3>1, <4>1, <4>2 DEF RingInv, RingType
      <3> QED
        BY <2>1, <3>2, <3>3
    <2>6. KeptSamplesIntact'
      BY <2>1, <2>2, <2>5 DEF KeptSamplesIntact
    <2> QED
      BY <2>4, <2>6 DEF RingInv
  <1>3. CASE StagePacket
    <2>1. /\ wpc = "stage" /\ wpc' = "copy" /\ newHead' = wanted /\ ring' = ring
          /\ packet' = packet
      BY <1>3 DEF StagePacket, writeVars
    <2>2. wanted = newHead + packet /\ newHead \in Nat /\ packet \in Nat
      BY <2>1 DEF CursorInv, CursorTypes, PacketGranted
    <2>3. Written' = Written
      BY <2>1, <2>2
    <2>4. Written' <= Written
      BY <2>3 DEF CursorInv, CursorTypes
    <2> QED
      BY <1>1, <2>1, <2>4, RingNarrowed
  <1>4. CASE ~CopyCell /\ ~StagePacket
    <2>1. ring' = ring /\ newHead' = newHead /\ (wpc = "copy" <=> wpc' = "copy")
      BY <1>4
      DEF ProducerNext, ProducerStep, BeginBatch, RequestWrite, RaiseHead, RaiseTail,
          EraseMarker, EraseDone, AddMarkerCheck, LockMarkers, AddMarker, ValidateWrite
    <2>2. wpc # "copy"
      BY <1>4
      DEF ProducerNext, ProducerStep, BeginBatch, RequestWrite, RaiseHead, RaiseTail,
          EraseMarker, EraseDone, AddMarkerCheck, LockMarkers, AddMarker, ValidateWrite
    <2>3. Written' = Written
      BY <2>1, <2>2
    <2>4. Written' <= Written
      BY <2>3 DEF CursorInv, CursorTypes
    <2> QED
      BY <1>1, <2>1, <2>4, RingNarrowed
  <1> QED
    BY <1>2, <1>3, <1>4

(* A consumer leaves the cells alone.                                      *)
LEMMA RingStutter == RingInv /\ UNCHANGED <<cursorVars, ring>> => RingInv'
  BY DEF cursorVars, RingInv, RingType, KeptSamplesIntact, Written

-----------------------------------------------------------------------------
(* The marker list.                                                        *)

(* addMarker always finds where to insert, and everything behind it is at  *)
(* or after the new marker's position.                                     *)
LEMMA LastBeforeFound ==
  ASSUME NEW list \in Seq(Marker), NEW pos \in Nat
  PROVE  LET k == LastBefore(list, pos)
         IN  /\ k \in 0 .. Len(list)
             /\ k > 0 => list[k].pos < pos
             /\ \A j \in k + 1 .. Len(list) : list[j].pos >= pos
  <1> DEFINE S == {k \in 0 .. Len(list) : \A j \in k + 1 .. Len(list) : list[j].pos >= pos}
  <1>1. Len(list) \in Nat
    BY LenProperties
  <1>2. Len(list) \in S
    BY <1>1
  <1>3. S \in SUBSET Nat /\ S # {}
    BY <1>1, <1>2
  <1>4. PICK k \in S : \A n \in S : k <= n
    BY <1>3, LeastNatural
  <1>5. k > 0 => list[k].pos < pos
    <2> SUFFICES ASSUME k > 0, ~ (list[k].pos < pos) PROVE FALSE
      OBVIOUS
    <2>1. list[k] \in Marker
      BY <1>1, ElementOfSeq
    <2>2. list[k].pos >= pos
      BY <2>1 DEF Marker
    <2>3. k - 1 \in S
      <3>1. k - 1 \in 0 .. Len(list)
        BY <1>1
      <3>2. ASSUME NEW j \in k - 1 + 1 .. Len(list) PROVE list[j].pos >= pos
        <4>1. CASE j = k
          BY <2>2, <4>1
        <4>2. CASE j # k
          <5>1. j \in k + 1 .. Len(list)
            BY <1>1, <4>2
          <5> QED
            BY <5>1
        <4> QED
          BY <4>1, <4>2
      <3> QED
        BY <3>1, <3>2
    <2>4. k <= k - 1 /\ k \in Nat
      <3> HIDE DEF S
      <3> QED
        BY <1>3, <1>4, <2>3
    <2> QED
      BY <2>4
  <1>6. \E n \in 0 .. Len(list) :
           /\ n > 0 => list[n].pos < pos
           /\ \A j \in n + 1 .. Len(list) : list[j].pos >= pos
    BY <1>5
  <1> HIDE DEF S
  <1> QED
    BY <1>6, Zenon DEF LastBefore

(* addMarker's result is a list of markers.                                *)
LEMMA InsertMarkerType ==
  ASSUME NEW list \in Seq(Marker), NEW pos \in Nat, NEW t \in Nat
  PROVE  InsertMarker(list, pos, t) \in Seq(Marker)
  <1> DEFINE k       == LastBefore(list, pos)
             m       == [pos |-> pos, time |-> t]
             renewed == [j \in 1 .. Len(list) |->
                           IF j > k /\ list[j].pos = pos THEN m ELSE list[j]]
             front   == SubSeq(renewed, 1, k)
             back    == SubSeq(renewed, k + 1, Len(list))
  <1>1. Len(list) \in Nat /\ k \in 0 .. Len(list) /\ m \in Marker
    BY LenProperties, LastBeforeFound DEF Marker
  <1>2. \A j \in 1 .. Len(list) : list[j] \in Marker
    BY ElementOfSeq
  <1> HIDE DEF k, m
  <1>3. \A j \in 1 .. Len(list) : renewed[j] \in Marker
    BY <1>1, <1>2
  <1> HIDE DEF renewed
  <1>4. \A j \in 1 .. k : renewed[j] \in Marker
    BY <1>1, <1>3
  <1>5. front \in Seq(Marker)
    BY <1>1, <1>4, SubSeqProperties, 1 \in Int, k \in Int
  <1>6. \A j \in k + 1 .. Len(list) : renewed[j] \in Marker
    BY <1>1, <1>3
  <1>7. back \in Seq(Marker)
    BY <1>1, <1>6, SubSeqProperties, k + 1 \in Int, Len(list) \in Int
  <1> HIDE DEF front, back
  <1>8. <<m>> \in Seq(Marker)
    BY <1>1
  <1>9. (front \o <<m>>) \o back \in Seq(Marker)
    BY <1>5, <1>7, <1>8, ConcatProperties
  <1> QED
    BY <1>9 DEF InsertMarker, front, back, renewed, k, m

MarkersTyped ==
  /\ markers \in Seq(Marker)
  /\ mutex \in Readers \cup {Producer, Nobody}
  /\ batches \subseteq Batch

(* There is no marker yet.                                                 *)
LEMMA MarkersInit == ProducerInit => MarkersTyped
  BY DEF ProducerInit, MarkersTyped

(* The list stays a list of markers, and the mutex has at most one owner.  *)
LEMMA MarkersStep == CursorInv /\ MarkersTyped /\ ProducerNext => MarkersTyped'
  <1> SUFFICES ASSUME CursorInv, MarkersTyped, ProducerNext PROVE MarkersTyped'
    OBVIOUS
  <1>0. batches' \subseteq Batch
    <2>1. ASSUME NEW n \in BatchSizes, BeginBatch(n) PROVE batches' \subseteq Batch
      <3>1. [first |-> src, length |-> n] \in Batch
        BY BatchSizesAssumption DEF CursorInv, CursorTypes, Batch
      <3> QED
        BY <2>1, <3>1 DEF BeginBatch, MarkersTyped
    <2>2. ProducerStep => batches' = batches
      BY DEF ProducerStep, RequestWrite, RaiseHead, RaiseTail, EraseMarker, EraseDone,
             StagePacket, CopyCell, AddMarkerCheck, LockMarkers, AddMarker, ValidateWrite,
             batchVars
    <2> QED
      BY <2>1, <2>2 DEF MarkersTyped, ProducerNext
  <1>1. CASE EraseMarker
    <2>1. markers' = Tail(markers) /\ markers # <<>> /\ mutex' = mutex
      BY <1>1 DEF EraseMarker, FrontOverridden
    <2> QED
      BY <1>0, <2>1, HeadTailProperties DEF MarkersTyped
  <1>2. CASE AddMarker
    <2>1. markers' = InsertMarker(markers, begin, time) /\ mutex' = Nobody
      BY <1>2 DEF AddMarker
    <2>2. begin \in Nat /\ time \in Nat
      BY DEF CursorInv, CursorTypes
    <2> QED
      BY <1>0, <2>1, <2>2, InsertMarkerType DEF MarkersTyped
  <1>3. CASE ~EraseMarker /\ ~AddMarker
    <2>1. markers' = markers /\ (mutex' = mutex \/ mutex' = Producer)
      BY <1>3
      DEF ProducerNext, ProducerStep, BeginBatch, RequestWrite, RaiseHead, RaiseTail,
          EraseDone, StagePacket, CopyCell, AddMarkerCheck, LockMarkers, ValidateWrite,
          ringVars
    <2> QED
      BY <1>0, <2>1 DEF MarkersTyped
  <1> QED
    BY <1>1, <1>2, <1>3

-----------------------------------------------------------------------------
(* The markers and the samples they date.                                  *)

MarkersBehind(pos) == \A i \in 1 .. Len(markers) : markers[i].pos < pos

(* Until its marker is in the list a batch lies behind all others. *)
MarkerPending ==
  wpc \notin {"idle", "validate"} => begin = time /\ MarkersBehind(begin)

(* requestWrite still knows the tail it found, and erases what lies between *)
(* it and the new one.                                                     *)
TailRemembered ==
  /\ wpc \in {"raise_head", "raise_tail"} => oldTail = tail
  /\ wpc = "erase" => /\ tail = wanted - RingLength
                      /\ \A i \in 1 .. Len(markers) : markers[i].pos >= oldTail

(* addMarker's check still holds when it inserts. *)
MarkerChecked == wpc \in {"lock", "insert"} => begin >= head /\ begin < newHead

MarkersInv ==
  /\ MarkersFollowSamples
  /\ MarkerPending
  /\ TailRemembered
  /\ MarkerChecked

(* There is no marker and no batch yet.                                    *)
LEMMA FollowInit == ProducerInit => MarkersInv
  BY EmptySeq
  DEF ProducerInit, MarkersInv, MarkersFollowSamples, MarkerPending, TailRemembered,
      MarkerChecked

(* A position that all markers lie behind is inserted at the end.          *)
LEMMA InsertAtEnd ==
  ASSUME NEW list \in Seq(Marker), NEW pos \in Nat, NEW t \in Nat,
         \A i \in 1 .. Len(list) : list[i].pos < pos
  PROVE  LET m == [pos |-> pos, time |-> t]
         IN  InsertMarker(list, pos, t) = Append(list, m)
  <1> DEFINE k       == LastBefore(list, pos)
             m       == [pos |-> pos, time |-> t]
             renewed == [j \in 1 .. Len(list) |->
                           IF j > k /\ list[j].pos = pos THEN m ELSE list[j]]
  <1>1. Len(list) \in Nat /\ k \in 0 .. Len(list) /\ m \in Marker
    BY LenProperties, LastBeforeFound DEF Marker
  <1>2. k = Len(list)
    <2>1. \A j \in k + 1 .. Len(list) : list[j].pos >= pos
      BY LastBeforeFound
    <2>2. \A j \in 1 .. Len(list) : list[j].pos \in Nat
      <3>1. \A j \in 1 .. Len(list) : list[j] \in Marker
        BY ElementOfSeq, Zenon
      <3> QED
        BY <3>1 DEF Marker
    <2>3. \A j \in k + 1 .. Len(list) : FALSE
      BY <1>1, <2>1, <2>2
    <2> HIDE DEF k
    <2> QED
      BY <1>1, <2>3
  <1> HIDE DEF k, m
  <1>3. renewed = list
    <2>1. list \in [1 .. Len(list) -> Marker]
      BY LenProperties
    <2>2. \A j \in 1 .. Len(list) : ~ (j > k)
      BY <1>1, <1>2
    <2> QED
      BY <2>1, <2>2
  <1> HIDE DEF renewed
  <1>4. SubSeq(renewed, 1, k) = list
    BY <1>2, <1>3, SubSeqFull
  <1>5. SubSeq(renewed, k + 1, Len(list)) = <<>>
    BY <1>1, <1>2, k + 1 \in Int, Len(list) \in Int, Len(list) < k + 1, SubSeqEmpty
  <1>6. list \o <<m>> = Append(list, m)
    BY <1>1, AppendIsConcat
  <1>7. Append(list, m) \o <<>> = Append(list, m)
    BY <1>1, AppendProperties, ConcatEmptySeq
  <1> QED
    BY <1>4, <1>5, <1>6, <1>7 DEF InsertMarker, k, m, renewed

(* The values of a marker are numbers. *)
LEMMA MarkerValues ==
  ASSUME MarkersTyped
  PROVE  /\ Len(markers) \in Nat
         /\ \A i \in 1 .. Len(markers) : markers[i].pos \in Nat /\ markers[i].time \in Nat
  <1>1. markers \in Seq(Marker)
    BY DEF MarkersTyped
  <1>2. Len(markers) \in Nat
    BY <1>1, LenProperties
  <1>3. ASSUME NEW i \in 1 .. Len(markers)
        PROVE  markers[i].pos \in Nat /\ markers[i].time \in Nat
    <2>1. markers[i] \in Marker
      BY <1>1, ElementOfSeq
    <2> QED
      BY <2>1 DEF Marker
  <1> QED
    BY <1>2, <1>3

(* The loop that cleans the list takes its oldest marker. *)
LEMMA FollowErase ==
  ASSUME CursorInv, MarkersTyped, MarkersInv, EraseMarker
  PROVE  MarkersInv'
  <1>1. /\ wpc = "erase" /\ markers # <<>> /\ markers' = Tail(markers)
        /\ UNCHANGED <<newHead, head, tail, wpc, begin, time, oldTail, wanted>>
    BY DEF EraseMarker, FrontOverridden, batchVars, writeVars
  <1>2. /\ Len(markers) \in Nat /\ Len(markers') = Len(markers) - 1
        /\ \A i \in 1 .. Len(markers') : markers'[i] = markers[i + 1]
    BY <1>1, HeadTailProperties, MarkerValues DEF MarkersTyped
  <1>3. \A i \in 1 .. Len(markers') : i + 1 \in 1 .. Len(markers)
    BY <1>2
  <1>4. MarkersFollowSamples'
    <2>1. \A i \in 1 .. Len(markers') :
             /\ markers'[i].time = markers'[i].pos
             /\ markers'[i].pos < newHead
      BY <1>2, <1>3 DEF MarkersInv, MarkersFollowSamples
    <2>2. ASSUME NEW i \in 1 .. Len(markers'), NEW j \in 1 .. Len(markers'), i < j
          PROVE  markers'[i].pos < markers'[j].pos
      <3>1. i + 1 < j + 1
        BY <2>2, <1>2
      <3> QED
        BY <1>2, <1>3, <3>1 DEF MarkersInv, MarkersFollowSamples
    <2> QED
      BY <1>1, <2>1, <2>2 DEF MarkersFollowSamples
  <1>5. MarkersBehind(begin)' /\ begin = time
    BY <1>1, <1>2, <1>3 DEF MarkersInv, MarkerPending, MarkersBehind
  <1>6. \A i \in 1 .. Len(markers') : markers'[i].pos >= oldTail
    BY <1>1, <1>2, <1>3 DEF MarkersInv, TailRemembered
  <1> QED
    BY <1>1, <1>4, <1>5, <1>6 DEF MarkersInv, MarkerPending, TailRemembered, MarkerChecked

(* When the loop stops, the oldest marker left is not older than the tail, *)
(* and neither are the others.                                             *)
LEMMA FollowEraseDone ==
  ASSUME CursorInv, MarkersTyped, MarkersInv, EraseDone
  PROVE  MarkersInv'
  <1>1. /\ wpc = "erase" /\ wpc' = "stage" /\ ~ FrontOverridden
        /\ UNCHANGED <<newHead, head, tail, markers, begin, time, oldTail, wanted>>
    BY DEF EraseDone, ringVars, batchVars, writeVars
  <1>2. ASSUME NEW i \in 1 .. Len(markers) PROVE markers[i].pos >= tail
    <2>1. /\ 1 \in 1 .. Len(markers) /\ markers # <<>> /\ Len(markers) \in Nat
      BY MarkerValues, EmptySeq DEF MarkersTyped
    <2>2. /\ markers[1].pos \in Nat /\ markers[i].pos \in Nat
          /\ tail \in Nat /\ wanted \in Nat
      BY <2>1, MarkerValues DEF CursorInv, CursorTypes
    <2>3. markers[1].pos >= oldTail /\ tail = wanted - RingLength
      BY <1>1, <2>1 DEF MarkersInv, TailRemembered
    <2>4. markers[1].pos >= tail
      BY <1>1, <2>1, <2>2, <2>3, RingLengthAssumption DEF FrontOverridden
    <2>5. i = 1 \/ markers[1].pos < markers[i].pos
      BY <2>1 DEF MarkersInv, MarkersFollowSamples
    <2> QED
      BY <2>2, <2>4, <2>5
  <1> QED
    BY <1>1, <1>2
    DEF MarkersInv, MarkersFollowSamples, MarkerPending, MarkersBehind, TailRemembered,
        MarkerChecked

(* addMarker appends the marker of the batch.                              *)
LEMMA FollowAdd ==
  ASSUME CursorInv, MarkersTyped, MarkersInv, AddMarker
  PROVE  MarkersInv'
  <1> DEFINE m == [pos |-> begin, time |-> time]
  <1>1. /\ wpc = "insert" /\ wpc' = "validate"
        /\ markers' = InsertMarker(markers, begin, time)
        /\ UNCHANGED <<newHead, head, tail>>
    BY DEF AddMarker
  <1>2. /\ markers \in Seq(Marker) /\ begin \in Nat /\ time \in Nat /\ m \in Marker
        /\ newHead \in Nat /\ head \in Nat /\ tail \in Nat /\ tail <= head
    BY DEF MarkersTyped, CursorInv, CursorTypes, CursorsOrdered, Marker
  <1>3. begin = time /\ MarkersBehind(begin) /\ begin >= head /\ begin < newHead
    BY <1>1 DEF MarkersInv, MarkerPending, MarkerChecked
  <1>4. markers' = Append(markers, m)
    BY <1>1, <1>2, <1>3, InsertAtEnd DEF MarkersBehind
  <1> DEFINE n == Len(markers)
  <1>5. /\ n \in Nat /\ Len(markers') = n + 1 /\ markers'[n + 1] = m
        /\ \A i \in 1 .. n : markers'[i] = markers[i]
    BY <1>2, <1>4, AppendProperties, LenProperties
  <1>6. m.pos = begin /\ m.time = time
    OBVIOUS
  <1>7. \A i \in 1 .. n + 1 : i \in 1 .. n \/ i = n + 1
    BY <1>5
  <1> HIDE DEF m, n
  <1>8. \A i \in 1 .. n : /\ markers[i].time = markers[i].pos
                          /\ markers[i].pos < newHead
                          /\ markers[i].pos >= tail
    BY <1>1 DEF MarkersInv, MarkersFollowSamples, n
  <1>9. \A i \in 1 .. n + 1 : /\ markers'[i].time = markers'[i].pos
                              /\ markers'[i].pos < newHead
                              /\ markers'[i].pos >= tail
    <2>1. begin >= tail
      BY <1>2, <1>3
    <2>2. m.time = m.pos /\ m.pos < newHead /\ m.pos >= tail
      BY <1>3, <1>6, <2>1
    <2>3. ASSUME NEW i \in 1 .. n
          PROVE  /\ markers'[i].time = markers'[i].pos
                 /\ markers'[i].pos < newHead /\ markers'[i].pos >= tail
      BY <1>5, <1>8
    <2> QED
      BY <1>5, <1>7, <2>2, <2>3
  <1>10. ASSUME NEW i \in 1 .. n + 1, NEW j \in 1 .. n + 1, i < j
         PROVE  markers'[i].pos < markers'[j].pos
    <2>1. i \in 1 .. n
      BY <1>5, <1>10
    <2>2. CASE j \in 1 .. n
      BY <1>5, <1>10, <2>1, <2>2 DEF MarkersInv, MarkersFollowSamples, n
    <2>3. CASE j = n + 1
      <3>1. markers[i].pos < begin
        BY <1>3, <2>1 DEF MarkersBehind, n
      <3> QED
        BY <1>5, <1>6, <2>1, <2>3, <3>1
    <2> QED
      BY <1>7, <2>2, <2>3
  <1> QED
    BY <1>1, <1>5, <1>9, <1>10
    DEF MarkersInv, MarkersFollowSamples, MarkerPending, TailRemembered, MarkerChecked

(* The staging area only grows.                                            *)
LEMMA FollowStage ==
  ASSUME CursorInv, MarkersTyped, MarkersInv, StagePacket
  PROVE  MarkersInv'
  <1>1. /\ wpc = "stage" /\ wpc' = "copy" /\ newHead' = wanted /\ wanted > newHead
        /\ newHead \in Nat /\ wanted \in Nat
    BY DEF StagePacket, PacketGranted, CursorInv, CursorTypes, CursorsOrdered
  <1>2. UNCHANGED <<head, tail, markers, begin, time, oldTail>>
    BY DEF StagePacket, batchVars, writeVars
  <1>3. ASSUME NEW i \in 1 .. Len(markers) PROVE markers[i].pos < newHead'
    <2>1. markers[i].pos < newHead /\ markers[i].pos \in Nat
      BY MarkerValues DEF MarkersInv, MarkersFollowSamples
    <2> QED
      BY <1>1, <2>1
  <1>4. MarkersFollowSamples'
    BY <1>1, <1>2, <1>3 DEF MarkersInv, MarkersFollowSamples
  <1> QED
    BY <1>1, <1>2, <1>4 DEF MarkersInv, MarkerPending, MarkersBehind, TailRemembered, MarkerChecked

(* Every step of the producer keeps the markers and their samples together. *)
LEMMA FollowStep == CursorInv /\ MarkersTyped /\ MarkersInv /\ ProducerNext => MarkersInv'
  <1> SUFFICES ASSUME CursorInv, MarkersTyped, MarkersInv, ProducerNext
               PROVE  MarkersInv'
    OBVIOUS
  <1> USE RingLengthAssumption, MarkerValues
      DEF MarkersInv, MarkersFollowSamples, MarkerPending, MarkersBehind, TailRemembered,
          MarkerChecked, CursorInv, CursorTypes, CursorsOrdered, ringVars, batchVars,
          writeVars
  <1>1. ASSUME NEW n \in BatchSizes, BeginBatch(n) PROVE MarkersInv'
    BY <1>1 DEF BeginBatch, AtRest, BatchLeft
  <1>2. CASE RequestWrite
    BY <1>2 DEF RequestWrite
  <1>3. CASE RaiseHead
    BY <1>3 DEF RaiseHead
  <1>4. CASE RaiseTail
    BY <1>4 DEF RaiseTail
  <1>5. CASE EraseMarker
    BY <1>5, FollowErase
  <1>6. CASE EraseDone
    BY <1>6, FollowEraseDone
  <1>7. CASE StagePacket
    BY <1>7, FollowStage
  <1>8. CASE CopyCell
    BY <1>8 DEF CopyCell
  <1>9. CASE AddMarkerCheck
    BY <1>9 DEF AddMarkerCheck, MarkerIsStaged
  <1>10. CASE LockMarkers
    BY <1>10 DEF LockMarkers
  <1>11. CASE AddMarker
    BY <1>11, FollowAdd
  <1>12. CASE ValidateWrite
    BY <1>12 DEF ValidateWrite
  <1> QED
    BY <1>1, <1>2, <1>3, <1>4, <1>5, <1>6, <1>7, <1>8, <1>9, <1>10, <1>11, <1>12
    DEF ProducerNext, ProducerStep

(* A consumer leaves the list alone. *)
LEMMA FollowStutter == MarkersInv /\ UNCHANGED <<cursorVars, markers>> => MarkersInv'
  BY DEF cursorVars, MarkersInv, MarkersFollowSamples, MarkerPending, MarkersBehind,
         TailRemembered, MarkerChecked

-----------------------------------------------------------------------------
(* The batches and the markers that date them.                             *)

Fitting(b) == b.length <= RingLength

(* Batches follow each other, and all but the one being delivered end      *)
(* where it begins.                                                        *)
BatchesApart ==
  \A b, c \in batches : b.first < c.first => b.first + b.length <= c.first

BatchesEnd ==
  /\ wpc = "idle" => \A b \in batches : b.first + b.length <= newHead
  /\ wpc # "idle" =>
       /\ \A b \in batches :
            \/ b.first + b.length <= begin
            \/ b.first = begin /\ b.first + b.length = src + left
       /\ \E b \in batches : b.first = begin
       /\ begin <= src /\ begin < src + left
  /\ wpc \in {"mark", "lock", "insert", "validate"} => left = 0

(* A batch that fits in the ring keeps the head at its start.              *)
FittingStays ==
  wpc # "idle" => \A b \in batches :
    b.first = begin /\ Fitting(b) => head = begin /\ wpc # "raise_head"

OrderInv ==
  /\ batches \subseteq Batch
  /\ BatchesApart
  /\ BatchesEnd
  /\ FittingStays

(* addMarker is over for batch b. *)
Marked(b) == wpc \in {"idle", "validate"} \/ b.first # begin

(* Markers are at the start of batches, and a batch that fits in the ring  *)
(* has one until the tail has passed its start, when all the markers left  *)
(* are behind.                                                             *)
MarkersDate ==
  \A i \in 1 .. Len(markers) : \E b \in batches : markers[i].pos = b.first

KeptDated ==
  \A b \in batches : Fitting(b) /\ Marked(b) =>
    \/ \E i \in 1 .. Len(markers) : markers[i].pos = b.first
    \/ b.first < tail /\ \A i \in 1 .. Len(markers) : markers[i].pos > b.first

InsertLocked == wpc = "insert" => mutex = Producer

DatesInv == OrderInv /\ MarkersDate /\ KeptDated /\ InsertLocked

(* No batch was delivered and nothing is dated. *)
LEMMA DatesInit == ProducerInit => DatesInv
  BY EmptySeq
  DEF ProducerInit, DatesInv, OrderInv, BatchesApart, BatchesEnd, FittingStays,
      MarkersDate, KeptDated, InsertLocked

(* The numbers of a batch. *)
LEMMA BatchValues ==
  ASSUME OrderInv, NEW b \in batches
  PROVE  b.first \in Nat /\ b.length \in Nat \ {0}
  BY DEF OrderInv, Batch

(* What the steps of a batch leave alone.                                  *)
LEMMA BatchStands ==
  ASSUME ProducerStep
  PROVE  /\ batches' = batches
         /\ wpc # "idle"
         /\ ~ ValidateWrite => begin' = begin /\ time' = time /\ wpc' # "idle"
         /\ ~ CopyCell => src' = src /\ left' = left
  BY DEF ProducerStep, RequestWrite, RaiseHead, RaiseTail, EraseMarker, EraseDone,
         StagePacket, CopyCell, AddMarkerCheck, LockMarkers, AddMarker, ValidateWrite,
         batchVars

(* A new batch begins where the last one ended. *)
LEMMA OrderBegin ==
  ASSUME CursorInv, OrderInv, NEW n \in BatchSizes, BeginBatch(n)
  PROVE  OrderInv'
  <1> DEFINE new == [first |-> src, length |-> n]
  <1>1. /\ wpc = "idle" /\ wpc' = "request" /\ begin' = head /\ left' = n
        /\ batches' = batches \cup {new} /\ src' = src /\ head' = head
    BY DEF BeginBatch, ringVars
  <1>2. n \in Nat \ {0} /\ src \in Nat /\ src = newHead /\ head = newHead
    BY <1>1, BatchSizesAssumption
    DEF CursorInv, CursorTypes, AtRest, BatchLeft
  <1>3. new \in Batch /\ new.first = src /\ new.length = n
    BY <1>2 DEF Batch
  <1>4. \A b \in batches : /\ b.first \in Nat /\ b.length \in Nat \ {0}
                           /\ b.first + b.length <= src
    BY <1>1, <1>2, BatchValues DEF OrderInv, BatchesEnd
  <1> HIDE DEF new
  <1>5. batches' \subseteq Batch
    BY <1>1, <1>3 DEF OrderInv
  <1>6. BatchesApart'
    <2> SUFFICES ASSUME NEW b \in batches', NEW c \in batches', b.first < c.first
                 PROVE  b.first + b.length <= c.first
      BY DEF BatchesApart
    <2>1. b \in batches \/ b = new
      BY <1>1
    <2>2. c \in batches \/ c = new
      BY <1>1
    <2>3. CASE c \in batches
      <3>1. b \in batches
        BY <1>2, <1>3, <1>4, <2>1, <2>3
      <3> QED
        BY <2>3, <3>1 DEF OrderInv, BatchesApart
    <2>4. CASE c = new
      <3>1. b \in batches
        BY <1>2, <1>3, <2>1, <2>4
      <3> QED
        BY <1>3, <1>4, <2>4, <3>1
    <2> QED
      BY <2>2, <2>3, <2>4
  <1>7. BatchesEnd'
    <2>1. /\ begin' = src /\ src' = src /\ src + n = src' + left' /\ src < src + n
          /\ begin' <= src' /\ begin' < src' + left'
      BY <1>1, <1>2
    <2>2. new \in batches' /\ new.first = begin' /\ new.first + new.length = src' + left'
      BY <1>1, <1>3, <2>1
    <2>3. ASSUME NEW b \in batches'
          PROVE  \/ b.first + b.length <= begin'
                 \/ b.first = begin' /\ b.first + b.length = src' + left'
      BY <1>1, <1>4, <2>1, <2>2
    <2> QED
      BY <1>1, <2>1, <2>2, <2>3 DEF BatchesEnd
  <1>8. FittingStays'
    BY <1>1 DEF FittingStays
  <1> QED
    BY <1>5, <1>6, <1>7, <1>8 DEF OrderInv

(* The delivery of a batch stays within it. *)
LEMMA OrderStep == CursorInv /\ OrderInv /\ ProducerNext => OrderInv'
  <1> SUFFICES ASSUME CursorInv, OrderInv, ProducerNext PROVE OrderInv'
    OBVIOUS
  <1>1. ASSUME NEW n \in BatchSizes, BeginBatch(n) PROVE OrderInv'
    BY <1>1, OrderBegin
  <1>2. CASE ProducerStep
    <2>1. batches' = batches /\ wpc # "idle"
      BY <1>2, BatchStands
    <2>2. batches' \subseteq Batch /\ BatchesApart'
      BY <2>1 DEF OrderInv, BatchesApart
    <2>3. /\ src \in Nat /\ left \in Nat /\ begin \in Nat /\ newHead \in Nat
          /\ head \in Nat
      BY DEF CursorInv, CursorTypes
    <2>4. BatchesEnd'
      <3>1. CASE ValidateWrite
        <4>1. wpc = "validate" /\ wpc' = "idle" /\ newHead' = newHead
          BY <3>1 DEF ValidateWrite
        <4>2. left = 0 /\ src = newHead /\ begin <= src
          BY <2>1, <4>1 DEF OrderInv, BatchesEnd, CursorInv, AtRest
        <4>3. ASSUME NEW b \in batches PROVE b.first + b.length <= newHead
          <5>1. \/ b.first + b.length <= begin
                \/ b.first + b.length = src + left
            BY <2>1 DEF OrderInv, BatchesEnd
          <5> QED
            BY <2>3, <4>2, <5>1, BatchValues
        <4> QED
          BY <2>1, <4>1, <4>3 DEF BatchesEnd
      <3>2. CASE CopyCell
        <4>1. /\ wpc = "copy" /\ src' = src + 1 /\ left' = left - 1 /\ begin' = begin
              /\ wpc' \in {"copy", "request", "mark"}
              /\ wpc' = "mark" => packet <= 1 /\ left <= 1
          BY <3>2, <2>3
          DEF CopyCell, CursorInv, CursorTypes
        <4>2. packet >= 1 /\ packet <= left /\ packet \in Nat
          BY <4>1 DEF CursorInv, CursorTypes, Copying
        <4>3. src' + left' = src + left /\ begin <= src' /\ left >= 1
          BY <2>1, <2>3, <4>1, <4>2 DEF OrderInv, BatchesEnd
        <4>4. wpc' = "mark" => left' = 0
          BY <2>3, <4>1, <4>3
        <4> QED
          BY <2>1, <4>1, <4>3, <4>4 DEF OrderInv, BatchesEnd
      <3>3. CASE ~ ValidateWrite /\ ~ CopyCell
        <4>1. begin' = begin /\ src' = src /\ left' = left /\ wpc' # "idle"
          BY <1>2, <3>3, BatchStands
        <4>2. wpc' \in {"mark", "lock", "insert", "validate"} =>
                wpc \in {"mark", "lock", "insert", "validate"}
          BY <1>2, <3>3
          DEF ProducerStep, RequestWrite, RaiseHead, RaiseTail, EraseMarker, EraseDone,
              StagePacket, AddMarkerCheck, LockMarkers, AddMarker
        <4> QED
          BY <2>1, <4>1, <4>2 DEF OrderInv, BatchesEnd
      <3> QED
        BY <3>1, <3>2, <3>3
    <2>5. FittingStays'
      <3> SUFFICES ASSUME wpc' # "idle", NEW b \in batches, b.first = begin', Fitting(b)
                   PROVE  head' = begin' /\ wpc' # "raise_head"
        BY <2>1 DEF FittingStays, Fitting
      <3>1. ~ ValidateWrite /\ begin' = begin
        BY <1>2, BatchStands DEF ValidateWrite
      <3>2. head = begin /\ wpc # "raise_head"
        BY <2>1, <3>1 DEF OrderInv, FittingStays
      <3>3. head' = head
        BY <1>2, <3>1, <3>2
        DEF ProducerStep, RequestWrite, RaiseHead, RaiseTail, EraseMarker, EraseDone,
            StagePacket, CopyCell, AddMarkerCheck, LockMarkers, AddMarker, ringVars
      <3>4. CASE RequestWrite
        <4> DEFINE n == Contiguous(newHead, left)
        <4>1. wpc = "request" /\ left \in Nat \ {0} /\ src = newHead
          BY <2>3, <3>4 DEF RequestWrite, CursorInv, BatchLeft, AtRest
        <4>2. n \in 1 .. left
          BY <2>3, <4>1, ContiguousGrant
        <4> HIDE DEF n
        <4>3. src + left <= begin + RingLength
          <5>1. b.first \in Nat /\ b.length \in Nat \ {0}
            BY BatchValues
          <5>2. b.first + b.length = src + left
            BY <2>1, <2>3, <3>1, <5>1 DEF OrderInv, BatchesEnd
          <5> QED
            BY <2>3, <3>1, <5>1, <5>2, RingLengthAssumption DEF Fitting
        <4>4. ~ OverrunsHead(n)
          BY <2>3, <3>2, <4>1, <4>2, <4>3, RingLengthAssumption DEF OverrunsHead
        <4>5. wpc' # "raise_head"
          BY <3>4, <4>4 DEF RequestWrite, n
        <4> QED
          BY <3>1, <3>2, <3>3, <4>5
      <3>5. CASE ~ RequestWrite
        <4>1. wpc' # "raise_head"
          BY <1>2, <3>5
          DEF ProducerStep, RaiseHead, RaiseTail, EraseMarker, EraseDone, StagePacket,
              CopyCell, AddMarkerCheck, LockMarkers, AddMarker, ValidateWrite
        <4> QED
          BY <3>1, <3>2, <3>3, <4>1
      <3> QED
        BY <3>4, <3>5
    <2> QED
      BY <2>2, <2>4, <2>5 DEF OrderInv
  <1> QED
    BY <1>1, <1>2 DEF ProducerNext

(* What the steps that neither insert nor erase do to the dates. *)
LEMMA DatesStand ==
  ASSUME CursorInv, DatesInv, ProducerStep, ~ EraseMarker, ~ AddMarker
  PROVE  MarkersDate' /\ KeptDated'
  <1>1. /\ markers' = markers /\ batches' = batches /\ tail' >= tail
        /\ tail \in Nat /\ tail' \in Nat
    <2>1. markers' = markers
      BY DEF ProducerStep, RequestWrite, RaiseHead, RaiseTail, EraseDone, StagePacket,
             CopyCell, AddMarkerCheck, LockMarkers, ValidateWrite, ringVars
    <2>2. tail' >= tail /\ CursorInv'
      BY CursorStep, CursorsAdvance DEF ProducerNext
    <2> QED
      BY <2>1, <2>2, BatchStands DEF CursorInv, CursorTypes
  <1>2. MarkersDate'
    BY <1>1 DEF DatesInv, MarkersDate
  <1>3. ASSUME NEW b \in batches, Fitting(b), Marked(b)' PROVE Marked(b)
    <2>1. CASE AddMarkerCheck
      <3>1. wpc = "mark" /\ begin' = begin
        BY <2>1 DEF AddMarkerCheck, batchVars
      <3>2. CASE b.first # begin
        BY <3>2 DEF Marked
      <3>3. CASE b.first = begin
        <4>1. head = begin
          BY <1>3, <3>1, <3>3 DEF DatesInv, OrderInv, FittingStays
        <4>2. left = 0 /\ src = newHead /\ begin < src + left /\ src \in Nat /\ begin \in Nat
          BY <3>1
          DEF DatesInv, OrderInv, BatchesEnd, CursorInv, CursorTypes, AtRest
        <4>3. MarkerIsStaged
          BY <4>1, <4>2 DEF MarkerIsStaged
        <4>4. wpc' = "lock"
          BY <2>1, <4>3 DEF AddMarkerCheck
        <4> QED
          BY <1>3, <3>1, <3>3, <4>4 DEF Marked
      <3> QED
        BY <3>2, <3>3
    <2>2. CASE ValidateWrite
      BY <2>2 DEF ValidateWrite, Marked
    <2>3. CASE ~ AddMarkerCheck /\ ~ ValidateWrite
      <3>1. begin' = begin
        BY <2>3, BatchStands
      <3>2. wpc' \notin {"idle", "validate"}
        BY <2>3
        DEF ProducerStep, RequestWrite, RaiseHead, RaiseTail, EraseDone, StagePacket,
            CopyCell, LockMarkers
      <3> QED
        BY <1>3, <3>1, <3>2 DEF Marked
    <2> QED
      BY <2>1, <2>2, <2>3
  <1>4. KeptDated'
    <2> SUFFICES ASSUME NEW b \in batches, Fitting(b), Marked(b)'
                 PROVE  \/ \E i \in 1 .. Len(markers) : markers[i].pos = b.first
                        \/ /\ b.first < tail'
                           /\ \A i \in 1 .. Len(markers) : markers[i].pos > b.first
      BY <1>1 DEF KeptDated
    <2>1. \/ \E i \in 1 .. Len(markers) : markers[i].pos = b.first
          \/ b.first < tail /\ \A i \in 1 .. Len(markers) : markers[i].pos > b.first
      BY <1>3 DEF DatesInv, KeptDated
    <2>2. b.first \in Nat
      BY BatchValues DEF DatesInv
    <2> QED
      BY <1>1, <2>1, <2>2
  <1> QED
    BY <1>2, <1>4

(* A new batch has no marker to lose yet. *)
LEMMA DatesBegin ==
  ASSUME CursorInv, DatesInv, NEW n \in BatchSizes, BeginBatch(n)
  PROVE  MarkersDate' /\ KeptDated'
  <1> DEFINE new == [first |-> src, length |-> n]
  <1>1. /\ wpc = "idle" /\ wpc' = "request" /\ begin' = head /\ head = src
        /\ batches' = batches \cup {new} /\ markers' = markers /\ tail' = tail
    BY DEF BeginBatch, ringVars, CursorInv, AtRest, BatchLeft
  <1>2. new.first = src
    OBVIOUS
  <1> HIDE DEF new
  <1>3. MarkersDate'
    BY <1>1 DEF DatesInv, MarkersDate
  <1>4. ASSUME NEW b \in batches', Marked(b)' PROVE b \in batches /\ Marked(b)
    BY <1>1, <1>2, <1>4 DEF Marked
  <1>5. KeptDated'
    BY <1>1, <1>4 DEF DatesInv, KeptDated
  <1> QED
    BY <1>3, <1>5

(* The loop erases from the front, and only markers before the tail. *)
LEMMA DatesErase ==
  ASSUME CursorInv, MarkersTyped, MarkersInv, DatesInv, EraseMarker
  PROVE  MarkersDate' /\ KeptDated'
  <1>1. /\ wpc = "erase" /\ markers # <<>> /\ markers' = Tail(markers)
        /\ markers[1].pos < tail
        /\ UNCHANGED <<tail, wpc, begin, batches>>
    BY DEF EraseMarker, FrontOverridden, batchVars, MarkersInv, TailRemembered
  <1>2. /\ Len(markers) \in Nat \ {0} /\ Len(markers') = Len(markers) - 1
        /\ \A i \in 1 .. Len(markers') : markers'[i] = markers[i + 1]
    BY <1>1, HeadTailProperties, MarkerValues, EmptySeq DEF MarkersTyped
  <1>3. \A i \in 1 .. Len(markers') : i + 1 \in 1 .. Len(markers)
    BY <1>2
  <1>4. MarkersDate'
    BY <1>1, <1>2, <1>3 DEF DatesInv, MarkersDate
  <1>5. ASSUME NEW b \in batches, Fitting(b), Marked(b)
        PROVE  \/ \E i \in 1 .. Len(markers') : markers'[i].pos = b.first
               \/ b.first < tail /\ \A i \in 1 .. Len(markers') : markers'[i].pos > b.first
    <2>1. CASE b.first < tail /\ \A i \in 1 .. Len(markers) : markers[i].pos > b.first
      BY <1>2, <1>3, <2>1
    <2>2. ASSUME NEW i \in 1 .. Len(markers), markers[i].pos = b.first, i # 1
          PROVE  \E j \in 1 .. Len(markers') : markers'[j].pos = b.first
      <3>1. i - 1 \in 1 .. Len(markers') /\ (i - 1) + 1 = i
        BY <1>2, <2>2
      <3>2. markers'[i - 1] = markers[i]
        BY <1>2, <3>1
      <3> QED
        BY <2>2, <3>1, <3>2
    <2>3. CASE markers[1].pos = b.first
      <3>1. ASSUME NEW i \in 1 .. Len(markers') PROVE markers'[i].pos > b.first
        <4>1. 1 \in 1 .. Len(markers) /\ i + 1 \in 1 .. Len(markers) /\ 1 < i + 1
          BY <1>2, <1>3
        <4>2. markers[1].pos < markers[i + 1].pos
          BY <4>1 DEF MarkersInv, MarkersFollowSamples
        <4>3. markers[1].pos \in Nat /\ markers[i + 1].pos \in Nat
          BY <4>1, MarkerValues
        <4> QED
          BY <1>2, <2>3, <4>2, <4>3
      <3> QED
        BY <1>1, <2>3, <3>1
    <2> QED
      BY <1>5, <2>1, <2>2, <2>3 DEF DatesInv, KeptDated
  <1>6. KeptDated'
    <2>1. \A b \in batches : Marked(b)' <=> Marked(b)
      BY <1>1 DEF Marked
    <2> QED
      BY <1>1, <1>5, <2>1 DEF KeptDated
  <1> QED
    BY <1>4, <1>6

(* addMarker dates the batch. *)
LEMMA DatesAdd ==
  ASSUME CursorInv, MarkersTyped, MarkersInv, DatesInv, AddMarker
  PROVE  MarkersDate' /\ KeptDated'
  <1> DEFINE m == [pos |-> begin, time |-> time]
             n == Len(markers)
  <1>1. /\ wpc = "insert" /\ wpc' = "validate"
        /\ markers' = InsertMarker(markers, begin, time)
        /\ UNCHANGED <<tail, begin, batches>>
    BY DEF AddMarker, batchVars
  <1>2. markers \in Seq(Marker) /\ begin \in Nat /\ time \in Nat /\ m \in Marker
    BY DEF MarkersTyped, CursorInv, CursorTypes, Marker
  <1>3. MarkersBehind(begin)
    BY <1>1 DEF MarkersInv, MarkerPending
  <1>4. markers' = Append(markers, m)
    BY <1>1, <1>2, <1>3, InsertAtEnd DEF MarkersBehind
  <1>5. /\ n \in Nat /\ Len(markers') = n + 1 /\ markers'[n + 1] = m /\ m.pos = begin
        /\ \A i \in 1 .. n : markers'[i] = markers[i]
    BY <1>2, <1>4, AppendProperties, LenProperties
  <1>6. /\ \A i \in 1 .. n + 1 : i \in 1 .. n \/ i = n + 1
        /\ n + 1 \in 1 .. n + 1 /\ \A i \in 1 .. n : i \in 1 .. n + 1
    BY <1>5
  <1>7. PICK c \in batches : c.first = begin
    BY <1>1 DEF DatesInv, OrderInv, BatchesEnd
  <1> HIDE DEF m, n
  <1>8. MarkersDate'
    <2>1. ASSUME NEW i \in 1 .. n + 1 PROVE \E b \in batches : markers'[i].pos = b.first
      <3>1. CASE i = n + 1
        BY <1>5, <1>7, <3>1
      <3>2. CASE i \in 1 .. n
        BY <1>5, <3>2 DEF DatesInv, MarkersDate, n
      <3> QED
        BY <1>6, <3>1, <3>2
    <2> QED
      BY <1>1, <1>5, <2>1 DEF MarkersDate
  <1>9. ASSUME NEW b \in batches, Fitting(b)
        PROVE  \/ \E i \in 1 .. n + 1 : markers'[i].pos = b.first
               \/ b.first < tail /\ \A i \in 1 .. n + 1 : markers'[i].pos > b.first
    <2>1. CASE b.first = begin
      BY <1>5, <1>6, <2>1
    <2>2. CASE b.first # begin
      <3>1. \/ \E i \in 1 .. n : markers[i].pos = b.first
            \/ b.first < tail /\ \A i \in 1 .. n : markers[i].pos > b.first
        BY <1>9, <2>2 DEF DatesInv, KeptDated, Marked, n
      <3>2. CASE \E i \in 1 .. n : markers[i].pos = b.first
        BY <1>5, <1>6, <3>2
      <3>3. CASE b.first < tail /\ \A i \in 1 .. n : markers[i].pos > b.first
        <4>1. b.first < begin
          <5>1. b.first \in Nat /\ b.length \in Nat \ {0}
            BY BatchValues DEF DatesInv
          <5>2. b.first + b.length <= begin
            BY <1>1, <2>2 DEF DatesInv, OrderInv, BatchesEnd
          <5> QED
            BY <1>2, <5>1, <5>2
        <4>2. b.first \in Nat
          BY BatchValues DEF DatesInv
        <4> QED
          BY <1>2, <1>5, <1>6, <3>3, <4>1, <4>2
      <3> QED
        BY <3>1, <3>2, <3>3
    <2> QED
      BY <2>1, <2>2
  <1>10. KeptDated'
    BY <1>1, <1>5, <1>9 DEF KeptDated
  <1> QED
    BY <1>8, <1>10

(* Every step of the producer keeps the markers and the batches together. *)
LEMMA DatesStep ==
  ASSUME CursorInv, MarkersTyped, MarkersInv, DatesInv, ProducerNext
  PROVE  DatesInv'
  <1>1. OrderInv'
    BY OrderStep DEF DatesInv
  <1>2. MarkersDate' /\ KeptDated'
    BY DatesBegin, DatesStand, DatesErase, DatesAdd DEF ProducerNext
  <1>3. InsertLocked'
    BY DEF ProducerNext, ProducerStep, BeginBatch, RequestWrite, RaiseHead, RaiseTail,
           EraseMarker, EraseDone, StagePacket, CopyCell, AddMarkerCheck, LockMarkers,
           AddMarker, ValidateWrite, InsertLocked
  <1> QED
    BY <1>1, <1>2, <1>3 DEF DatesInv

(* A consumer that takes the mutex only when it is free, and gives up only *)
(* its own, does not disturb them.                                         *)
LEMMA DatesStutter ==
  ASSUME DatesInv, UNCHANGED <<cursorVars, batches, markers>>,
         mutex = Producer => mutex' = Producer
  PROVE  DatesInv'
  BY DEF cursorVars, DatesInv, OrderInv, BatchesApart, BatchesEnd, FittingStays,
         MarkersDate, KeptDated, Marked, InsertLocked

-----------------------------------------------------------------------------
(* findMarker's search, for any consumer.  The operators take the state    *)
(* they look at as arguments, to speak of the next state too.              *)

(* The k nodes the search has passed in list are markers after pos; the    *)
(* one it stopped at is not.                                               *)
PassedBy(list, pos, k) ==
  \A j \in 1 .. Len(list) : j > Len(list) - k => list[j].pos > pos

StoppedAt(list, pos, k) ==
  Len(list) - k > 0 => ~ (list[Len(list) - k].pos > pos)

(* pos is public and the marker of its batch has been inserted. *)
Public(bs, label, start, end, pos) ==
  /\ pos < end
  /\ \A b \in bs : pos \in Span(b) /\ Fitting(b) =>
       label \in {"idle", "validate"} \/ b.first # start

(* DateIsRight. *)
RightDate(bs, oldest, date, pos) ==
  \A b \in bs : pos \in Span(b) /\ Fitting(b) =>
    /\ date \in {TimeIn(b, pos), NoTime, Garbage}
    /\ b.first >= oldest => date = TimeIn(b, pos)

(* The positions of a batch.                                               *)
LEMMA SpanValues ==
  ASSUME OrderInv, NEW b \in batches, NEW pos \in Nat
  PROVE  /\ pos \in Span(b) <=> b.first <= pos /\ pos < b.first + b.length
         /\ b.first \in Nat /\ b.length \in Nat \ {0}
  BY BatchValues DEF Span

(* A position below the head belongs to a batch whose marker is inserted.  *)
LEMMA PublicBelowHead ==
  ASSUME CursorInv, DatesInv, NEW pos \in Nat, pos < head
  PROVE  Public(batches, wpc, begin, newHead, pos)
  <1>1. pos < newHead
    BY DEF CursorInv, CursorTypes, CursorsOrdered
  <1>2. ASSUME NEW b \in batches, pos \in Span(b), Fitting(b),
               wpc \notin {"idle", "validate"}, b.first = begin
        PROVE  FALSE
    <2>1. head = begin
      BY <1>2 DEF DatesInv, OrderInv, FittingStays
    <2>2. b.first <= pos
      BY <1>2, SpanValues DEF DatesInv
    <2> QED
      BY <1>2, <2>1, <2>2 DEF CursorInv, CursorTypes
  <1> QED
    BY <1>1, <1>2 DEF Public

(* The producer does not take that back, nor a right date. *)
LEMMA PublicStays ==
  ASSUME CursorInv, DatesInv, ProducerNext
  PROVE  \A pos \in Nat :
           Public(batches, wpc, begin, newHead, pos) =>
             /\ Public(batches', wpc', begin', newHead', pos)
             /\ \A date : RightDate(batches, tail, date, pos) =>
                             RightDate(batches', tail', date, pos)
  <1> SUFFICES ASSUME NEW pos \in Nat, Public(batches, wpc, begin, newHead, pos)
               PROVE  /\ Public(batches', wpc', begin', newHead', pos)
                      /\ \A date : RightDate(batches, tail, date, pos) =>
                                      RightDate(batches', tail', date, pos)
    OBVIOUS
  <1>1. /\ newHead' >= newHead /\ tail' >= tail
        /\ newHead \in Nat /\ tail \in Nat /\ newHead' \in Nat /\ tail' \in Nat
    BY CursorStep, CursorsAdvance DEF CursorInv, CursorTypes
  <1>2. pos < newHead'
    BY <1>1 DEF Public
  <1>3. ASSUME NEW b \in batches', pos \in Span(b), b \notin batches PROVE FALSE
    <2>1. PICK n \in BatchSizes : BeginBatch(n)
      BY <1>3, BatchStands DEF ProducerNext
    <2>2. b = [first |-> src, length |-> n] /\ src = newHead /\ n \in Nat
      BY <1>3, <2>1, BatchSizesAssumption DEF BeginBatch, CursorInv, AtRest
    <2>3. b.first = newHead /\ b.length = n
      BY <2>2
    <2> QED
      BY <1>1, <1>3, <2>2, <2>3 DEF Span, Public
  <1>4. ASSUME NEW b \in batches, pos \in Span(b), Fitting(b)
        PROVE  wpc' \in {"idle", "validate"} \/ b.first # begin'
    <2>1. wpc \in {"idle", "validate"} \/ b.first # begin
      BY <1>4 DEF Public
    <2>2. CASE ProducerStep
      <3>1. CASE wpc \in {"idle", "validate"}
        BY <2>2, <3>1
        DEF ProducerStep, RequestWrite, RaiseHead, RaiseTail, EraseMarker, EraseDone,
            StagePacket, CopyCell, AddMarkerCheck, LockMarkers, AddMarker, ValidateWrite
      <3>2. CASE wpc \notin {"idle", "validate"}
        BY <2>1, <2>2, <3>2, BatchStands DEF ValidateWrite
      <3> QED
        BY <3>1, <3>2
    <2>3. ASSUME NEW n \in BatchSizes, BeginBatch(n)
          PROVE  b.first # begin'
      <3>1. begin' = newHead /\ wpc = "idle"
        BY <2>3 DEF BeginBatch, CursorInv, BatchLeft
      <3>2. b.first <= pos
        BY <1>4, SpanValues DEF DatesInv
      <3> QED
        BY <1>1, <3>1, <3>2, BatchValues DEF Public, DatesInv
    <2> QED
      BY <2>2, <2>3 DEF ProducerNext
  <1>5. Public(batches', wpc', begin', newHead', pos)
    BY <1>2, <1>3, <1>4 DEF Public
  <1>6. ASSUME NEW date, RightDate(batches, tail, date, pos)
        PROVE  RightDate(batches', tail', date, pos)
    <2> SUFFICES ASSUME NEW b \in batches', pos \in Span(b), Fitting(b)
                 PROVE  /\ date \in {TimeIn(b, pos), NoTime, Garbage}
                        /\ b.first >= tail' => date = TimeIn(b, pos)
      BY DEF RightDate
    <2>1. b \in batches
      BY <1>3
    <2>2. b.first \in Nat
      BY <2>1, BatchValues DEF DatesInv
    <2>3. b.first >= tail' => b.first >= tail
      BY <1>1, <2>2
    <2> QED
      BY <1>6, <2>1, <2>3 DEF RightDate
  <1> QED
    BY <1>5, <1>6

(* While a consumer holds the mutex the producer can only take nodes off   *)
(* the front of the list, which is behind the search.                      *)
LEMMA SearchStays ==
  ASSUME CursorInv, MarkersTyped, InsertLocked, ProducerNext,
         mutex # Producer, mutex # Nobody
  PROVE  /\ mutex' = mutex
         /\ \A pos, k \in Nat :
              /\ PassedBy(markers, pos, k) => PassedBy(markers', pos, k)
              /\ StoppedAt(markers, pos, k) => StoppedAt(markers', pos, k)
  <1>1. CASE EraseMarker
    <2>1. /\ markers # <<>> /\ markers' = Tail(markers) /\ mutex' = mutex
      BY <1>1 DEF EraseMarker, FrontOverridden
    <2>2. /\ Len(markers) \in Nat \ {0} /\ Len(markers') = Len(markers) - 1
          /\ \A i \in 1 .. Len(markers') : markers'[i] = markers[i + 1]
      BY <2>1, HeadTailProperties, MarkerValues, EmptySeq DEF MarkersTyped
    <2>3. ASSUME NEW pos \in Nat, NEW k \in Nat, PassedBy(markers, pos, k)
          PROVE  PassedBy(markers', pos, k)
      <3> SUFFICES ASSUME NEW j \in 1 .. Len(markers'), j > Len(markers') - k
                   PROVE  markers'[j].pos > pos
        BY DEF PassedBy
      <3>1. j + 1 \in 1 .. Len(markers) /\ j + 1 > Len(markers) - k
        BY <2>2
      <3> QED
        BY <2>2, <2>3, <3>1 DEF PassedBy
    <2>4. ASSUME NEW pos \in Nat, NEW k \in Nat, StoppedAt(markers, pos, k)
          PROVE  StoppedAt(markers', pos, k)
      <3> DEFINE node == Len(markers) - k
      <3>1. Len(markers') - k = node - 1 /\ node \in Int
        BY <2>2
      <3>2. node - 1 > 0 => node - 1 \in 1 .. Len(markers') /\ (node - 1) + 1 = node
        BY <2>2
      <3>3. node - 1 > 0 => markers'[node - 1] = markers[node] /\ node > 0
        BY <2>2, <3>1, <3>2
      <3> QED
        BY <2>4, <3>1, <3>3 DEF StoppedAt
    <2> QED
      BY <2>1, <2>3, <2>4
  <1>2. CASE ~ EraseMarker
    <2>1. ~ LockMarkers /\ ~ AddMarker
      BY DEF LockMarkers, AddMarker, InsertLocked
    <2>2. markers' = markers /\ mutex' = mutex
      BY <1>2, <2>1
      DEF ProducerNext, ProducerStep, BeginBatch, RequestWrite, RaiseHead, RaiseTail,
          EraseDone, StagePacket, CopyCell, AddMarkerCheck, ValidateWrite, ringVars
    <2> QED
      BY <2>2
  <1> QED
    BY <1>1, <1>2

(* The marker the search stops at is that of the position's own batch; it  *)
(* finds none, or an erased one, only when that batch has lost its start.  *)
LEMMA SearchResult ==
  ASSUME CursorInv, MarkersTyped, MarkersInv, DatesInv, NEW pos \in Nat, NEW k \in Nat,
         Public(batches, wpc, begin, newHead, pos), PassedBy(markers, pos, k)
  PROVE  /\ NodeAfter(k) <= 0 => /\ RightDate(batches, tail, NoTime, pos)
                                 /\ RightDate(batches, tail, Garbage, pos)
         /\ NodeAfter(k) > 0 /\ StoppedAt(markers, pos, k) =>
              RightDate(batches, tail, TimeAtWithMarker(markers[NodeAfter(k)], pos), pos)
  <1> DEFINE node == NodeAfter(k)
  <1>0. Len(markers) \in Nat /\ node \in Int /\ node = Len(markers) - k /\ node <= Len(markers)
    BY MarkerValues DEF NodeAfter
  <1>1. ASSUME NEW b \in batches, pos \in Span(b), Fitting(b)
        PROVE  /\ b.first \in Nat /\ b.length \in Nat \ {0}
               /\ b.first <= pos /\ pos < b.first + b.length /\ Marked(b)
    BY <1>1, SpanValues DEF DatesInv, Public, Marked
  <1>2. ASSUME node <= 0, NEW b \in batches, pos \in Span(b), Fitting(b)
        PROVE  b.first < tail
    <2>1. \A j \in 1 .. Len(markers) : markers[j].pos > pos
      <3>1. \A j \in 1 .. Len(markers) : j > Len(markers) - k
        BY <1>0, <1>2
      <3> QED
        BY <3>1 DEF PassedBy
    <2>2. \A j \in 1 .. Len(markers) : markers[j].pos # b.first
      BY <1>1, <1>2, <2>1, MarkerValues
    <2> QED
      BY <1>1, <1>2, <2>2 DEF DatesInv, KeptDated
  <1>3. node <= 0 => /\ RightDate(batches, tail, NoTime, pos)
                     /\ RightDate(batches, tail, Garbage, pos)
    <2> SUFFICES ASSUME node <= 0, NEW b \in batches, pos \in Span(b), Fitting(b)
                 PROVE  ~ (b.first >= tail)
      BY DEF RightDate
    <2>1. b.first \in Nat /\ tail \in Nat /\ b.first < tail
      BY <1>1, <1>2 DEF CursorInv, CursorTypes
    <2> QED
      BY <2>1
  <1>4. ASSUME node > 0, StoppedAt(markers, pos, k),
               NEW b \in batches, pos \in Span(b), Fitting(b)
        PROVE  TimeAtWithMarker(markers[node], pos) = TimeIn(b, pos)
    <2>1. node \in 1 .. Len(markers) /\ markers[node].pos \in Nat /\ markers[node].pos <= pos
      <3>1. node \in 1 .. Len(markers)
        BY <1>0, <1>4
      <3>2. ~ (markers[node].pos > pos)
        BY <1>0, <1>4 DEF StoppedAt
      <3>3. markers[node].pos \in Nat
        BY <3>1, MarkerValues
      <3> QED
        BY <3>1, <3>2, <3>3
    <2>2. PICK c \in batches : markers[node].pos = c.first
      BY <2>1 DEF DatesInv, MarkersDate
    <2>3. c.first <= b.first
      <3>1. c.first \in Nat /\ b.first \in Nat
        BY <1>1, <1>4, BatchValues DEF DatesInv
      <3>2. ~ (b.first < c.first)
        BY <1>1, <1>4, <2>1, <2>2, <3>1 DEF DatesInv, OrderInv, BatchesApart
      <3> QED
        BY <3>1, <3>2
    <2>4. c.first = b.first
      <3> SUFFICES ASSUME c.first # b.first PROVE FALSE
        OBVIOUS
      <3>1. c.first < b.first /\ b.first \in Nat
        BY <1>1, <1>4, <2>1, <2>2, <2>3
      <3>2. PICK i \in 1 .. Len(markers) : markers[i].pos = b.first
        BY <1>1, <1>4, <2>1, <2>2, <3>1 DEF DatesInv, KeptDated
      <3>3. ~ (i > node)
        <4>1. i > node => markers[i].pos > pos
          BY <1>0 DEF PassedBy
        <4> QED
          BY <1>1, <1>4, <3>2, <4>1
      <3>4. i < node \/ i = node
        BY <1>0, <2>1, <3>3
      <3>5. i < node => markers[i].pos < markers[node].pos
        BY <2>1 DEF MarkersInv, MarkersFollowSamples
      <3> QED
        BY <2>1, <2>2, <3>1, <3>2, <3>4, <3>5
    <2>5. markers[node].time = b.first /\ markers[node].pos = b.first
      BY <2>1, <2>2, <2>4 DEF MarkersInv, MarkersFollowSamples
    <2> QED
      BY <2>5 DEF TimeAtWithMarker, TimeIn
  <1> HIDE DEF node
  <1>5. node > 0 /\ StoppedAt(markers, pos, k) =>
          RightDate(batches, tail, TimeAtWithMarker(markers[node], pos), pos)
    BY <1>4 DEF RightDate
  <1> QED
    BY <1>3, <1>5 DEF node

=============================================================================
