-------------------------- MODULE RingBufferReaders --------------------------
(***************************************************************************)
(* Consumers of the ring of module RingBuffer: any number of threads that  *)
(* read a span of samples (requestRead or requestReadLastN, a copy, then   *)
(* isPositionValid, as the class documents) or ask for the time of a       *)
(* sample (SamplesRingBuffer::timeAt, through findMarker).                 *)
(*                                                                         *)
(* Every atomic load is an action of its own: the producer may store       *)
(* between any two.  A location of 64-bit arithmetic that can wrap is      *)
(* reduced modulo WordSize.                                                *)
(***************************************************************************)
EXTENDS RingBuffer

CONSTANTS
  ReadSizes,  \* the numbers of samples a consumer asks for
  WordSize    \* 2^64 in the code

ASSUME WordSizeAssumption  == WordSize \in Nat /\ WordSize > MaxPos
(* Sizes are far below 2^64: a position that wrapped below zero is never   *)
(* mistaken for one that was written.                                      *)
ASSUME ReadSizesAssumption == ReadSizes \subseteq 1 .. WordSize - MaxPos

VARIABLES
  rpc,     \* what the consumer does next
  rpos,    \* first position of the span, or the position asked about
  want,    \* number of samples asked for
  len,     \* number of samples the last request granted
  got,     \* the samples copied so far
  loaded,  \* an atomic's value loaded before it is used (requestReadLastN)
  passed,  \* nodes findMarker's reverse iterator has passed
  found    \* timeAt's result

readVars == <<rpc, rpos, want, len, got, loaded, passed, found>>
vars == <<producerVars, markers, mutex, readVars>>

Goto(r, label) == rpc' = [rpc EXCEPT ![r] = label]

(* The call is over: its locals are gone. *)
Return(r) ==
  /\ Goto(r, "idle")
  /\ rpos' = [rpos EXCEPT ![r] = 0]
  /\ want' = [want EXCEPT ![r] = 0]
  /\ len' = [len EXCEPT ![r] = 0]
  /\ got' = [got EXCEPT ![r] = <<>>]
  /\ loaded' = [loaded EXCEPT ![r] = 0]
  /\ passed' = [passed EXCEPT ![r] = 0]
  /\ found' = [found EXCEPT ![r] = NoTime]

(* An atomic load whose value decides between going on and giving up. *)
LoadAndTest(r, from, test, to) ==
  /\ rpc[r] = from
  /\ IF test THEN Goto(r, to) /\ UNCHANGED <<rpos, want, len, got, loaded, passed, found>>
             ELSE Return(r)
  /\ UNCHANGED <<producerVars, markers, mutex>>

(* Where the next packet of the span starts. *)
NextPos(r) == rpos[r] + Len(got[r])

-----------------------------------------------------------------------------
(* requestRead, the copy and the final isPositionValid.                    *)

(* A consumer starts reading want samples at a position of its choice, the *)
(* loop of ringbuffer.h:73-88.                                             *)
BeginRead(r, pos, n) ==
  /\ rpc[r] = "idle"
  /\ rpos' = [rpos EXCEPT ![r] = pos]
  /\ want' = [want EXCEPT ![r] = n]
  /\ Goto(r, "read_tail")
  /\ UNCHANGED <<len, got, loaded, passed, found, producerVars, markers, mutex>>

(* isPositionValid loads _tail, then _head if the first test holds. *)
ReadLoadTail(r) == LoadAndTest(r, "read_tail", NextPos(r) >= tail, "read_head")

ReadLoadHead(r) == LoadAndTest(r, "read_head", NextPos(r) < head, "read_clamp")

(* The test of `pos + *length > _head.load()`. *)
ReadClampTest(r) ==
  LET n == want[r] - Len(got[r])
  IN  /\ rpc[r] = "read_clamp"
      /\ IF NextPos(r) + n > head
           THEN Goto(r, "read_clamp_load") /\ UNCHANGED len
           ELSE Goto(r, "copy") /\ len' = [len EXCEPT ![r] = Contiguous(NextPos(r), n)]
      /\ UNCHANGED <<rpos, want, got, loaded, passed, found, producerVars, markers, mutex>>

(* `*length = _head.load() - pos`: a second load. *)
StagedFrom(r) == newHead - NextPos(r)  \* mutant: the wrong cursor

AvailableFrom(r) == head - NextPos(r)

ReadClampLoad(r) ==
  /\ rpc[r] = "read_clamp_load"
  /\ len' = [len EXCEPT ![r] = Contiguous(NextPos(r), AvailableFrom(r))]
  /\ Goto(r, "copy")
  /\ UNCHANGED <<rpos, want, got, loaded, passed, found, producerVars, markers, mutex>>

(* The consumer copies one granted sample; after the last it goes on with  *)
(* the next packet or checks the span.                                     *)
CopySample(r) ==
  /\ rpc[r] = "copy"
  /\ got' = [got EXCEPT ![r] = Append(@, ring[NextPos(r) % RingLength])]
  /\ len' = [len EXCEPT ![r] = @ - 1]
  /\ Goto(r, IF len[r] > 1 THEN "copy"
             ELSE IF Len(got[r]) + 1 < want[r] THEN "read_tail" ELSE "check_tail")
  /\ UNCHANGED <<rpos, want, loaded, passed, found, producerVars, markers, mutex>>

(* isPositionValid(startPos) once everything has been copied. *)
CheckLastOnly(r) ==  \* mutant: the wrong end of the span
  LoadAndTest(r, "check_tail", NextPos(r) > tail, "check_head")
CheckTail(r) == LoadAndTest(r, "check_tail", rpos[r] >= tail, "check_head")

CheckHead(r) == LoadAndTest(r, "check_head", rpos[r] < head, "accepted")

(* requestReadLastN: wantedPos, then size() (two loads), then the packet.  *)
(* Like calc_fft, the consumer only takes the first packet.                *)
BeginReadLast(r, n) ==
  /\ rpc[r] = "idle"
  /\ rpos' = [rpos EXCEPT ![r] = (head - n) % WordSize]
  /\ want' = [want EXCEPT ![r] = n]
  /\ Goto(r, "size_head")
  /\ UNCHANGED <<len, got, loaded, passed, found, producerVars, markers, mutex>>

SizeLoadHead(r) ==
  /\ rpc[r] = "size_head"
  /\ loaded' = [loaded EXCEPT ![r] = head]
  /\ Goto(r, "size_tail")
  /\ UNCHANGED <<rpos, want, len, got, passed, found, producerVars, markers, mutex>>

(* size() < n gives up; the span the consumer goes on to check is only the *)
(* packet it was granted.                                                  *)
SizeLoadTail(r) ==
  LET n == Contiguous(rpos[r], want[r])
  IN  /\ rpc[r] = "size_tail"
      /\ IF (loaded[r] - tail) % WordSize < want[r]
           THEN Return(r)
           ELSE /\ Goto(r, "copy")
                /\ want' = [want EXCEPT ![r] = n]
                /\ len' = [len EXCEPT ![r] = n]
                /\ UNCHANGED <<rpos, got, loaded, passed, found>>
      /\ UNCHANGED <<producerVars, markers, mutex>>

-----------------------------------------------------------------------------
(* timeAt: findMarker's isPositionValid, then the search under the mutex.  *)

BeginTimeAt(r, pos) ==
  /\ rpc[r] = "idle"
  /\ rpos' = [rpos EXCEPT ![r] = pos]
  /\ Goto(r, "find_tail")
  /\ UNCHANGED <<want, len, got, loaded, passed, found, producerVars, markers, mutex>>

FindLoadTail(r) == LoadAndTest(r, "find_tail", rpos[r] >= tail, "find_head")

FindLoadHead(r) == LoadAndTest(r, "find_head", rpos[r] < head, "find_lock")

FindLock(r) ==
  /\ rpc[r] = "find_lock"
  /\ mutex = Nobody
  /\ mutex' = r
  /\ Goto(r, "find_scan")
  /\ UNCHANGED <<rpos, want, len, got, loaded, passed, found, producerVars, markers>>

(* The result is known: the mutex is released and timeAt returns. *)
FindResult(r, t) ==
  /\ found' = [found EXCEPT ![r] = t]
  /\ mutex' = Nobody
  /\ Goto(r, "timed")
  /\ UNCHANGED <<rpos, want, len, got, loaded, passed, producerVars, markers>>

(* One round of findMarker's loop.  Once the producer has erased the node  *)
(* the iterator stands on, the loop reads freed memory and its outcome is  *)
(* arbitrary.                                                              *)
FindScan(r) ==
  LET node == NodeAfter(passed[r])
  IN  /\ rpc[r] = "find_scan"
      /\ \/ node < 0 /\ FindResult(r, Garbage)
         \/ node = 0 /\ FindResult(r, NoTime)
         \/ /\ node > 0
            /\ IsAfter(markers[node], rpos[r])
            /\ passed' = [passed EXCEPT ![r] = @ + 1]
            /\ UNCHANGED <<rpc, rpos, want, len, got, loaded, found>>
            /\ UNCHANGED <<producerVars, markers, mutex>>
         \/ /\ node > 0
            /\ ~ IsAfter(markers[node], rpos[r])
            /\ Goto(r, "find_take")
            /\ UNCHANGED <<rpos, want, len, got, loaded, passed, found>>
            /\ UNCHANGED <<producerVars, markers, mutex>>

(* The marker is copied out of its node, and timeAt adds the offset. *)
FindTake(r) ==
  LET node == NodeAfter(passed[r])
  IN  /\ rpc[r] = "find_take"
      /\ IF node <= 0 THEN FindResult(r, Garbage)
         ELSE FindResult(r, TimeAtWithMarker(markers[node], rpos[r]))

(* The consumer has used what it got and may start again. *)
Finish(r) ==
  /\ rpc[r] \in {"accepted", "timed"}
  /\ Return(r)
  /\ UNCHANGED <<producerVars, markers, mutex>>

-----------------------------------------------------------------------------

Init ==
  /\ ProducerInit
  /\ rpc    = [r \in Readers |-> "idle"]
  /\ rpos   = [r \in Readers |-> 0]
  /\ want   = [r \in Readers |-> 0]
  /\ len    = [r \in Readers |-> 0]
  /\ got    = [r \in Readers |-> <<>>]
  /\ loaded = [r \in Readers |-> 0]
  /\ passed = [r \in Readers |-> 0]
  /\ found  = [r \in Readers |-> NoTime]

ReaderStep(r) ==
  \/ ReadLoadTail(r)
  \/ ReadLoadHead(r)
  \/ ReadClampTest(r)
  \/ ReadClampLoad(r)
  \/ CopySample(r)
  \/ CheckTail(r)
  \/ CheckHead(r)
  \/ SizeLoadHead(r)
  \/ SizeLoadTail(r)
  \/ FindLoadTail(r)
  \/ FindLoadHead(r)
  \/ FindLock(r)
  \/ FindScan(r)
  \/ FindTake(r)
  \/ Finish(r)

(* The calls a consumer may make: any span or position up to the bound. *)
ReaderCall(r) ==
  \/ \E pos \in 0 .. MaxPos, n \in ReadSizes : BeginRead(r, pos, n)
  \/ \E n \in ReadSizes : BeginReadLast(r, n)
  \/ \E pos \in 0 .. MaxPos : BeginTimeAt(r, pos)

Next ==
  \/ ProducerNext /\ UNCHANGED readVars
  \/ \E r \in Readers : ReaderCall(r)
  \/ \E r \in Readers : ReaderStep(r)

Spec == Init /\ [][Next]_vars

-----------------------------------------------------------------------------

ReaderPCs == {"idle", "read_tail", "read_head", "read_clamp", "read_clamp_load",
              "copy", "check_tail", "check_head", "accepted", "size_head",
              "size_tail", "find_tail", "find_head", "find_lock", "find_scan",
              "find_take", "timed"}

TypeOK ==
  /\ ProducerTypeOK
  /\ rpc \in [Readers -> ReaderPCs]
  /\ rpos \in [Readers -> Nat]
  /\ want \in [Readers -> Nat]
  /\ len \in [Readers -> Nat]
  /\ got \in [Readers -> Seq(Nat \cup {Blank})]
  /\ loaded \in [Readers -> Nat]
  /\ passed \in [Readers -> Nat]
  /\ found \in [Readers -> Date \cup {NoTime, Garbage}]

(* A span whose first position is still valid after the copy is exactly    *)
(* the samples asked for, in order, however the producer's stores fell     *)
(* between the reader's loads (the warning of ringbuffer.h:269-274).       *)
ValidatedReadIntact ==
  \A r \in Readers : rpc[r] = "accepted" =>
    \A i \in 1 .. Len(got[r]) : got[r][i] = rpos[r] + i - 1

(* timeAt never dates a sample from the marker of another batch, however   *)
(* the erasing loop, which takes no lock, falls between the rounds of the  *)
(* search; and it dates it while the batch is kept from its start          *)
(* (ringbuffer.h:493-517, samplesringbuffer.h:57-61,81-102).               *)
FoundTimeIsRight ==
  \A r \in Readers : rpc[r] = "timed" => DateIsRight(found[r], rpos[r])

(* The span a consumer holds once it knows its first position was still    *)
(* kept after the copy: isPositionValid's second test only turns down      *)
(* positions that wrapped below zero.                                      *)
HeldSpan(r) ==
  IF rpc[r] \in {"check_head", "accepted"} /\ rpos[r] < head
    THEN [first |-> rpos[r], samples |-> got[r]]
    ELSE NoTime

Stream == INSTANCE SampleStream WITH
  Batches   <- BatchSizes,
  Capacity  <- RingLength,
  Consumers <- Readers,
  None      <- NoTime,
  committed <- Committed,
  oldest    <- tail,
  span      <- [r \in Readers |-> HeldSpan(r)]

(* The cells, the copies and the cursors amount to a stream that commits   *)
(* whole batches and hands out runs of it that were kept in full at the    *)
(* moment _tail was loaded (the class comment, ringbuffer.h:20-91).        *)
ImplementsStream == Stream!Spec

=============================================================================
