----------------------------- MODULE RingBuffer -----------------------------
(***************************************************************************)
(* common/ringbuffer.h: the lock-free ring that carries samples from the   *)
(* radio thread to its consumers, as the radio thread drives it in         *)
(* hachoir_c_impl::general_work (addSamples, addMarker, validateWrite).    *)
(*                                                                         *)
(* One action is one access to an atomic, one cell of a memcpy, or one     *)
(* critical section; the producer's loads of atomics that only it writes   *)
(* are part of the action that uses them.  The atomics are sequentially    *)
(* consistent, the default order of std::atomic.                           *)
(*                                                                         *)
(* A sample is its index in the stream the radio delivers, so the cell of  *)
(* position p is intact when it holds p.  Clock readings are not numbers:  *)
(* general_work reads the clock once a batch, nothing orders or spaces the *)
(* readings, and the reading of a batch is known by the index of the       *)
(* batch's first sample.  The time of a sample is a reading and the number *)
(* of sample periods added to it, so that times computed from different    *)
(* markers are different times.                                            *)
(*                                                                         *)
(* This module is the shared state and the producer.  RingBufferReaders    *)
(* and FftFromRing add consumers.                                          *)
(***************************************************************************)
EXTENDS Integers, Sequences

CONSTANTS
  RingLength,  \* _ring_length, the number of cells
  BatchSizes,  \* the noutput_items general_work may be called with
  MaxPos,      \* bound on the positions written
  Readers,     \* the consumer threads
  Producer,    \* the radio thread, as an owner of the mutex
  Nobody,      \* owner of a free mutex
  NoTime,      \* timeAt's 0: no marker was found
  Garbage      \* what a read of an erased list node yields

ASSUME RingLengthAssumption == RingLength \in Nat \ {0}
ASSUME BatchSizesAssumption == BatchSizes \subseteq Nat \ {0}
ASSUME MaxPosAssumption     == MaxPos \in Nat
ASSUME ThreadAssumption ==
  Producer \notin Readers /\ Nobody \notin Readers /\ Producer # Nobody

(* A reading of the clock, by the first sample of its batch, and the       *)
(* sample periods added to it.                                             *)
Date == [clock : Nat, samples : Int]

ASSUME TimeAssumption == NoTime \notin Date /\ Garbage \notin Date

VARIABLES
  newHead,  \* end of the staging area
  head,     \* end of the public area
  tail,     \* oldest position kept
  ring,     \* the cells
  markers,  \* the list of MarkerInternal, front first
  mutex,    \* owner of _markersMutex
  wpc,      \* what the producer does next
  src,      \* stream index of the next sample of the batch to copy
  left,     \* samples of the batch not copied yet (addSamples' length)
  begin,    \* addSamples' begin
  time,     \* general_work's curTime
  batches,  \* the batches delivered so far (observes the code, not in it)
  oldTail,  \* requestWrite's tail
  wanted,   \* requestWrite's wantedNewHead
  cell,     \* next cell the memcpy writes
  packet    \* cells left to the memcpy

ringVars  == <<newHead, head, tail, ring, markers, mutex>>
batchVars == <<src, left, begin, time, batches>>
writeVars == <<oldTail, wanted, cell, packet>>
producerVars == <<newHead, head, tail, ring, wpc, src, left, begin, time, batches,
                  oldTail, wanted, cell, packet>>

Cells == 0 .. RingLength - 1
Blank == -1  \* what `new Sample[]` left in a cell

-----------------------------------------------------------------------------

(* The number of consecutive cells from position pos, at most n, that do   *)
(* not wrap around (requestRead_unsafe).                                   *)
ContiguousUnwrapped(pos, n) == n  \* mutant: the wrap-around is forgotten

Contiguous(pos, n) ==
  IF (pos % RingLength) + n >= RingLength
    THEN RingLength - (pos % RingLength)
    ELSE n

(* The position of the marker list after which addMarker inserts: the last *)
(* marker before pos, 0 when there is none.                                *)
LastBefore(list, pos) ==
  CHOOSE k \in 0 .. Len(list) :
    /\ k > 0 => list[k].pos < pos
    /\ \A j \in k + 1 .. Len(list) : list[j].pos >= pos

(* addMarker's walk from the back of the list: it overwrites the markers   *)
(* it meets at pos and goes on until it can insert in order.               *)
InsertMarker(list, pos, t) ==
  LET k       == LastBefore(list, pos)
      renewed == [j \in 1 .. Len(list) |->
                    IF j > k /\ list[j].pos = pos
                      THEN [pos |-> pos, time |-> t] ELSE list[j]]
  IN  SubSeq(renewed, 1, k) \o <<[pos |-> pos, time |-> t]>>
        \o SubSeq(renewed, k + 1, Len(list))

(* timeAtWithMarker: the time of pos, from the time of a marker and the    *)
(* samples in between.                                                     *)
TimeAtWithMarker(m, pos) == [clock |-> m.time, samples |-> pos - m.pos]

(* findMarker's test: the search goes past the markers after pos.          *)
NotBefore(m, pos) == m.pos >= pos  \* mutant: the marker at pos is passed too

IsAfter(m, pos) == m.pos > pos

(* The node findMarker's reverse iterator is at after k rounds.  Its base  *)
(* is the node it passed last: a negative node is one the producer has     *)
(* erased from under it.                                                   *)
NodeAfter(k) == Len(markers) - k

(* requestWrite's tests for a packet of n cells: it fits next to what is   *)
(* kept; the tail must be raised past the head to make room for it.        *)
FitsBesideHead(n) == (newHead - head) + n < RingLength  \* mutant: the wrong cursor
NeverFits(n)      == FALSE                              \* mutant: no test

Fits(n) == (newHead - tail) + n < RingLength

OverrunsHead(n) == (newHead + n) - RingLength > head

(* The cell of the first position to write. *)
HeadCell == head % RingLength  \* mutant: the public end instead of the staged one

FirstCell == newHead % RingLength

(* requestWrite's test on the marker at the front of the list. *)
FrontAtTailToo ==  \* mutant: the marker at the new tail goes as well
  /\ markers # <<>>
  /\ markers[1].pos >= oldTail
  /\ markers[1].pos <= wanted - RingLength

FrontOverridden ==
  /\ markers # <<>>
  /\ markers[1].pos >= oldTail
  /\ markers[1].pos < wanted - RingLength

(* addMarker's boundary check. *)
AnyMarker == TRUE  \* mutant: no check

MarkerIsStaged == begin >= head /\ begin < newHead

-----------------------------------------------------------------------------
(* The producer.                                                           *)

(* general_work is called with n samples: curTime is taken and addSamples  *)
(* reads where the batch begins.                                           *)
BeginBatch(n) ==
  /\ wpc = "idle"
  /\ newHead + n <= MaxPos
  /\ time' = src
  /\ begin' = head
  /\ left' = n
  /\ batches' = batches \cup {[first |-> src, length |-> n]}
  /\ wpc' = "request"
  /\ UNCHANGED <<ringVars, src, writeVars>>

(* requestWrite up to its first store: the contiguous packet, and whether  *)
(* older samples must make room for it.                                    *)
RequestWrite ==
  LET n == Contiguous(newHead, left)
  IN  /\ wpc = "request"
      /\ oldTail' = tail
      /\ wanted' = newHead + n
      /\ cell' = FirstCell
      /\ packet' = n
      /\ wpc' = IF Fits(n) THEN "stage"
                ELSE IF OverrunsHead(n) THEN "raise_head"
                ELSE "raise_tail"
      /\ UNCHANGED <<ringVars, batchVars>>

(* _head.store(wantedTail): the batch alone overruns the ring. *)
RaiseHead ==
  /\ wpc = "raise_head"
  /\ head' = wanted - RingLength
  /\ wpc' = "raise_tail"
  /\ UNCHANGED <<newHead, tail, ring, markers, mutex, batchVars, writeVars>>

(* _tail.store(wantedTail): the samples about to be overwritten are given  *)
(* up before they are.                                                     *)
RaiseTail ==
  /\ wpc = "raise_tail"
  /\ tail' = wanted - RingLength
  /\ wpc' = "erase"
  /\ UNCHANGED <<newHead, head, ring, markers, mutex, batchVars, writeVars>>

(* One round of the loop that erases the markers of overwritten samples;   *)
(* it does not take _markersMutex.                                         *)
EraseMarker ==
  /\ wpc = "erase"
  /\ FrontOverridden
  /\ markers' = Tail(markers)
  /\ UNCHANGED <<newHead, head, tail, ring, mutex, wpc, batchVars, writeVars>>

EraseDone ==
  /\ wpc = "erase"
  /\ ~FrontOverridden
  /\ wpc' = "stage"
  /\ UNCHANGED <<ringVars, batchVars, writeVars>>

(* _newHead.store(wantedNewHead): the packet joins the staging area before *)
(* its cells are written.                                                  *)
PublishPacket ==  \* mutant: no staging area
  /\ wpc = "stage"
  /\ newHead' = wanted
  /\ head' = wanted
  /\ wpc' = "copy"
  /\ UNCHANGED <<tail, ring, markers, mutex, batchVars, writeVars>>

StagePacket ==
  /\ wpc = "stage"
  /\ newHead' = wanted
  /\ wpc' = "copy"
  /\ UNCHANGED <<head, tail, ring, markers, mutex, batchVars, writeVars>>

(* addSamples' memcpy, a cell at a time; after the packet's last cell the  *)
(* loop goes round or ends.                                                *)
CopyCell ==
  /\ wpc = "copy"
  /\ ring' = [ring EXCEPT ![cell] = src]
  /\ src' = src + 1
  /\ cell' = cell + 1
  /\ packet' = packet - 1
  /\ left' = left - 1
  /\ wpc' = IF packet > 1 THEN "copy" ELSE IF left > 1 THEN "request" ELSE "mark"
  /\ UNCHANGED <<newHead, head, tail, markers, mutex, begin, time, batches, oldTail,
                 wanted>>

AddMarkerCheck ==
  /\ wpc = "mark"
  /\ wpc' = IF MarkerIsStaged THEN "lock" ELSE "validate"
  /\ UNCHANGED <<ringVars, batchVars, writeVars>>

LockMarkers ==
  /\ wpc = "lock"
  /\ mutex = Nobody
  /\ mutex' = Producer
  /\ wpc' = "insert"
  /\ UNCHANGED <<newHead, head, tail, ring, markers, batchVars, writeVars>>

(* addMarker's insertion and its unlock. *)
AddMarker ==
  /\ wpc = "insert"
  /\ markers' = InsertMarker(markers, begin, time)
  /\ mutex' = Nobody
  /\ wpc' = "validate"
  /\ UNCHANGED <<newHead, head, tail, ring, batchVars, writeVars>>

(* validateWrite; general_work returns and its locals are gone. *)
ValidateWrite ==
  /\ wpc = "validate"
  /\ head' = newHead
  /\ wpc' = "idle"
  /\ begin' = 0 /\ time' = 0 /\ oldTail' = 0 /\ wanted' = 0 /\ cell' = 0
  /\ UNCHANGED <<newHead, tail, ring, markers, mutex, src, left, batches, packet>>

ProducerInit ==
  /\ newHead = 0 /\ head = 0 /\ tail = 0
  /\ ring = [c \in Cells |-> Blank]
  /\ markers = <<>>
  /\ mutex = Nobody
  /\ wpc = "idle"
  /\ src = 0 /\ left = 0 /\ begin = 0 /\ time = 0 /\ batches = {}
  /\ oldTail = 0 /\ wanted = 0 /\ cell = 0 /\ packet = 0

ProducerStep ==
  \/ RequestWrite
  \/ RaiseHead
  \/ RaiseTail
  \/ EraseMarker
  \/ EraseDone
  \/ StagePacket
  \/ CopyCell
  \/ AddMarkerCheck
  \/ LockMarkers
  \/ AddMarker
  \/ ValidateWrite

ProducerNext == (\E n \in BatchSizes : BeginBatch(n)) \/ ProducerStep

-----------------------------------------------------------------------------
(* What the producer guarantees to every consumer.                         *)

ProducerPCs == {"idle", "request", "raise_head", "raise_tail", "erase", "stage",
                "copy", "mark", "lock", "insert", "validate"}

Marker == [pos : Nat, time : Nat]

Batch == [first : Nat, length : Nat \ {0}]

ProducerTypeOK ==
  /\ newHead \in Nat /\ head \in Nat /\ tail \in Nat
  /\ ring \in [Cells -> Nat \cup {Blank}]
  /\ markers \in Seq(Marker)
  /\ mutex \in Readers \cup {Producer, Nobody}
  /\ wpc \in ProducerPCs
  /\ src \in Nat /\ left \in Nat /\ begin \in Nat /\ time \in Nat
  /\ batches \subseteq Batch
  /\ oldTail \in Nat /\ wanted \in Nat
  /\ cell \in 0 .. RingLength /\ packet \in 0 .. RingLength

(* The three cursors stay in order and never span more than the ring, at   *)
(* every single store of requestWrite and validateWrite: a consumer may    *)
(* load any of them between any two.                                       *)
CursorsOrdered ==
  /\ tail <= head
  /\ head <= newHead
  /\ newHead - tail <= RingLength

(* Every position kept, public or staged, is in its cell, except the cells *)
(* the memcpy of the current packet has still to write (those hold samples *)
(* the tail has already given up).                                         *)
Written == IF wpc = "copy" THEN newHead - packet ELSE newHead

KeptSamplesIntact ==
  \A p \in tail .. Written - 1 : ring[p % RingLength] = p

(* What general_work has made public, whatever requestWrite does to _head. *)
Committed == IF wpc = "idle" THEN newHead ELSE time

(* Staging: no consumer can find a position of a batch valid before the    *)
(* batch and its marker are complete (ringbuffer.h:31-37).                 *)
StagedDataIsPrivate == tail < head => head <= Committed

(* A marker never outlives its sample: outside requestWrite's own cleaning *)
(* loop every marker is at a position still kept, in stream order, and     *)
(* holds the clock reading of the batch that begins with that sample.      *)
MarkersFollowSamples ==
  /\ \A i \in 1 .. Len(markers) :
        /\ markers[i].time = markers[i].pos
        /\ markers[i].pos < newHead
        /\ wpc # "erase" => markers[i].pos >= tail
  /\ \A i, j \in 1 .. Len(markers) : i < j => markers[i].pos < markers[j].pos

(* What timeAt may answer for a position.  The right time of a sample is   *)
(* the clock reading of its own batch and the samples since the batch      *)
(* began.  The answer is that one, or none, or garbage when the erasing    *)
(* loop of requestWrite freed the node the search stands on; and it is     *)
(* that one for certain while the batch is kept from its start.  (A batch  *)
(* longer than the ring has no marker.)                                    *)
Span(b) == b.first .. b.first + b.length - 1

TimeIn(b, pos) == [clock |-> b.first, samples |-> pos - b.first]

DateIsRight(date, pos) ==
  \A b \in batches : pos \in Span(b) /\ b.length <= RingLength =>
    /\ date \in {TimeIn(b, pos), NoTime, Garbage}
    /\ b.first >= tail => date = TimeIn(b, pos)

(* The cursors never move back, so a position is never used twice. *)
CursorsOnlyAdvance ==
  [][newHead' >= newHead /\ head' >= head /\ tail' >= tail]_ringVars

=============================================================================
