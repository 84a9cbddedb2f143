---------------------------- MODULE FftFromRing ----------------------------
(***************************************************************************)
(* The detection thread: the loop of hachoir_c_impl::calc_fft around       *)
(* Fft::FftFromRing (gr-gtsrc/lib/fft.cpp), the one consumer the program   *)
(* runs on the ring of module RingBuffer.  Each round it waits for FftSize *)
(* samples after the previous FFT, copies them into the input buffer of    *)
(* the FFT and dates them.                                                 *)
(*                                                                         *)
(* The numerical work is left out: an FFT is the contents of its input     *)
(* buffer, its first position and its time.                                *)
(***************************************************************************)
EXTENDS RingBuffer

CONSTANTS
  FftSize,   \* fft_size()
  WordSize,  \* 2^64 in the code
  StackWords,\* what the uninitialised restartPos of FftFromRing may hold
  Detection  \* the thread, as an owner of the mutex

ASSUME FftSizeAssumption == FftSize \in Nat \ {0} /\ FftSize <= RingLength
ASSUME WordSizeAssumption == WordSize \in Nat /\ WordSize > MaxPos
ASSUME StackWordsAssumption == StackWords \subseteq 0 .. WordSize - 1 /\ StackWords # {}
ASSUME DetectionAssumption == Detection \in Readers

VARIABLES
  fpc,         \* what the thread does next
  fromPos,     \* calc_fft's start_pos, which FftFromRing changes in place
  restartPos,
  length,      \* samples granted by the first request
  samples,     \* the cell the samples pointer addresses
  currentPos,
  i,           \* index of the copy loop
  dst,         \* the FFT's input buffer, kept from one FFT to the next
  loaded,      \* _head as loaded by size()
  passed,      \* nodes findMarker's reverse iterator has passed
  fftTime,     \* _time_ns
  valid,       \* the outcome of the final isPositionValid
  rounds       \* rounds of the copy loop (observes the code, not in it)

fftVars == <<fpc, fromPos, restartPos, length, samples, currentPos, i, dst,
             loaded, passed, fftTime, valid, rounds>>
vars == <<producerVars, markers, mutex, fftVars>>

(* The ring was allocated with sizeof(Sample) times the cells it uses, so  *)
(* a pointer run past the last cell still reads allocated memory.          *)
MemoryAt(c) == IF c \in Cells THEN ring[c] ELSE Blank

(* Fewer than all of the samples up to head: the test is strict. *)
Unlimited(pos, n) == TRUE  \* mutant: no test

HasNAvailableFrom(pos, n) == pos + n < head

-----------------------------------------------------------------------------

(* The thread may start any time after the radio's first batches.          *)
StartThread ==
  /\ fpc = "start"
  /\ fromPos' = tail
  /\ fpc' = "wait"
  /\ UNCHANGED <<restartPos, length, samples, currentPos, i, dst, loaded, passed,
                 fftTime, valid, rounds>>

WaitForSamples ==
  /\ fpc = "wait"
  /\ HasNAvailableFrom(fromPos, FftSize)
  /\ fpc' = "read_tail"
  /\ UNCHANGED <<fromPos, restartPos, length, samples, currentPos, i, dst, loaded,
                 passed, fftTime, valid, rounds>>

(* requestRead(fromPos): a failed test sends the thread to                 *)
(* requestReadLastN ("We lost samples").                                   *)
ReadLoadTail ==
  /\ fpc = "read_tail"
  /\ fpc' = IF fromPos >= tail THEN "read_head" ELSE "last_head"
  /\ UNCHANGED <<fromPos, restartPos, length, samples, currentPos, i, dst, loaded,
                 passed, fftTime, valid, rounds>>

ReadLoadHead ==
  /\ fpc = "read_head"
  /\ fpc' = IF fromPos < head THEN "read_clamp" ELSE "last_head"
  /\ UNCHANGED <<fromPos, restartPos, length, samples, currentPos, i, dst, loaded,
                 passed, fftTime, valid, rounds>>

(* The packet granted for the length n: restartPos is advanced from        *)
(* whatever the stack held.                                                *)
Granted(n) ==
  /\ length' = Contiguous(fromPos, n)
  /\ samples' = fromPos % RingLength
  /\ \E w \in StackWords : restartPos' = (w + length') % WordSize
  /\ fpc' = "find_tail"
  /\ UNCHANGED <<fromPos, currentPos, i, dst, loaded, passed, fftTime, valid,
                 rounds>>

(* requestRead's clamp to _head, which WaitForSamples has made idle.       *)
ReadClampTest ==
  /\ fpc = "read_clamp"
  /\ Granted(IF fromPos + FftSize > head THEN head - fromPos ELSE FftSize)

(* requestReadLastN(fftSize, &fromPos, &restartPos). *)
LastLoadHead ==
  /\ fpc = "last_head"
  /\ fromPos' = (head - FftSize) % WordSize
  /\ fpc' = "size_head"
  /\ UNCHANGED <<restartPos, length, samples, currentPos, i, dst, loaded, passed,
                 fftTime, valid, rounds>>

SizeLoadHead ==
  /\ fpc = "size_head"
  /\ loaded' = head
  /\ fpc' = "size_tail"
  /\ UNCHANGED <<fromPos, restartPos, length, samples, currentPos, i, dst, passed,
                 fftTime, valid, rounds>>

SizeLoadTail ==
  /\ fpc = "size_tail"
  /\ length' = IF (loaded - tail) % WordSize < FftSize THEN 0
               ELSE Contiguous(fromPos, FftSize)
  /\ restartPos' = (fromPos + length') % WordSize
  /\ samples' = fromPos % RingLength
  /\ fpc' = "find_tail"
  /\ UNCHANGED <<fromPos, currentPos, i, dst, loaded, passed, fftTime, valid,
                 rounds>>

(* timeAt(fromPos). *)
FindLoadTail ==
  /\ fpc = "find_tail"
  /\ fpc' = IF fromPos >= tail THEN "find_head" ELSE "copy"
  /\ UNCHANGED <<fromPos, restartPos, length, samples, currentPos, i, dst, loaded,
                 passed, fftTime, valid, rounds>>

FindLoadHead ==
  /\ fpc = "find_head"
  /\ fpc' = IF fromPos < head THEN "find_lock" ELSE "copy"
  /\ UNCHANGED <<fromPos, restartPos, length, samples, currentPos, i, dst, loaded,
                 passed, fftTime, valid, rounds>>

FindLock ==
  /\ fpc = "find_lock"
  /\ mutex = Nobody
  /\ mutex' = Detection
  /\ fpc' = "find_scan"
  /\ UNCHANGED <<fromPos, restartPos, length, samples, currentPos, i, dst, loaded,
                 passed, fftTime, valid, rounds>>

(* findMarker's result: the mutex is released and the copy begins. *)
Dated(t) ==
  /\ fftTime' = t
  /\ mutex' = Nobody
  /\ passed' = 0
  /\ fpc' = "copy"
  /\ UNCHANGED <<fromPos, restartPos, length, samples, currentPos, i, dst, loaded,
                 valid, rounds>>

(* One round of the search.  Once the radio thread has erased the node the *)
(* iterator stands on, the loop reads freed memory.                        *)
FindScan ==
  LET node == NodeAfter(passed)
  IN  /\ fpc = "find_scan"
      /\ \/ node < 0 /\ Dated(Garbage)
         \/ node = 0 /\ Dated(NoTime)
         \/ /\ node > 0
            /\ passed' = IF IsAfter(markers[node], fromPos) THEN passed + 1 ELSE passed
            /\ fpc' = IF IsAfter(markers[node], fromPos) THEN "find_scan" ELSE "find_take"
            /\ UNCHANGED <<mutex, fromPos, restartPos, length, samples, currentPos, i,
                           dst, loaded, fftTime, valid, rounds>>

FindTake ==
  LET node == NodeAfter(passed)
  IN  /\ fpc = "find_take"
      /\ Dated(IF node <= 0 THEN Garbage ELSE TimeAtWithMarker(markers[node], fromPos))

(* The copy loop always fills the buffer from its start. *)
CopySample ==
  /\ fpc = "copy"
  /\ i < length
  /\ dst' = [dst EXCEPT ![i] = MemoryAt(samples + i)]
  /\ i' = i + 1
  /\ UNCHANGED <<fpc, fromPos, restartPos, length, samples, currentPos, loaded,
                 passed, fftTime, valid, rounds>>

CopyDoneOnce ==  \* mutant: currentPos is set instead of advanced
  /\ fpc = "copy"
  /\ i = length
  /\ currentPos' = length
  /\ rounds' = IF rounds < 2 THEN rounds + 1 ELSE rounds
  /\ i' = 0
  /\ fpc' = IF currentPos' < FftSize THEN "again_tail" ELSE "check_tail"
  /\ UNCHANGED <<fromPos, restartPos, length, samples, dst, loaded, passed,
                 fftTime, valid>>

CopyDone ==
  /\ fpc = "copy"
  /\ i = length
  /\ currentPos' = currentPos + length
  /\ rounds' = IF rounds < 2 THEN rounds + 1 ELSE rounds
  /\ i' = 0
  /\ fpc' = IF currentPos' < FftSize THEN "again_tail" ELSE "check_tail"
  /\ UNCHANGED <<fromPos, restartPos, length, samples, dst, loaded, passed,
                 fftTime, valid>>

(* requestRead(restartPos, &len, &samples) for what is missing: only the   *)
(* samples pointer is used afterwards, its result and len are not, and     *)
(* restartPos is left alone.                                               *)
AgainLoadTail ==
  /\ fpc = "again_tail"
  /\ fpc' = IF restartPos >= tail THEN "again_head" ELSE "copy"
  /\ UNCHANGED <<fromPos, restartPos, length, samples, currentPos, i, dst, loaded,
                 passed, fftTime, valid, rounds>>

AgainLoadHead ==
  /\ fpc = "again_head"
  /\ samples' = IF restartPos < head THEN restartPos % RingLength ELSE samples
  /\ fpc' = "copy"
  /\ UNCHANGED <<fromPos, restartPos, length, currentPos, i, dst, loaded, passed,
                 fftTime, valid, rounds>>

(* isPositionValid(fromPos): when it fails FftFromRing skips doFFt. *)
CheckLastOnly ==  \* mutant: the wrong end of the span
  /\ fpc = "check_tail"
  /\ valid' = (fromPos + FftSize > tail)
  /\ fpc' = IF valid' THEN "check_head" ELSE "done"
  /\ UNCHANGED <<fromPos, restartPos, length, samples, currentPos, i, dst, loaded,
                 passed, fftTime, rounds>>

CheckTail ==
  /\ fpc = "check_tail"
  /\ valid' = (fromPos >= tail)
  /\ fpc' = IF valid' THEN "check_head" ELSE "done"
  /\ UNCHANGED <<fromPos, restartPos, length, samples, currentPos, i, dst, loaded,
                 passed, fftTime, rounds>>

CheckHead ==
  /\ fpc = "check_head"
  /\ valid' = (fromPos < head)
  /\ fpc' = "done"
  /\ UNCHANGED <<fromPos, restartPos, length, samples, currentPos, i, dst, loaded,
                 passed, fftTime, rounds>>

(* calc_fft hands the FFT to the detection and moves on to the samples     *)
(* after it; the locals of FftFromRing are gone.                           *)
UseFft ==
  /\ fpc = "done"
  /\ fromPos' = (fromPos + FftSize) % WordSize
  /\ restartPos' = 0 /\ length' = 0 /\ samples' = 0 /\ currentPos' = 0 /\ loaded' = 0
  /\ fftTime' = NoTime /\ valid' = FALSE /\ rounds' = 0
  /\ fpc' = "wait"
  /\ UNCHANGED <<i, dst, passed>>

-----------------------------------------------------------------------------

Init ==
  /\ ProducerInit
  /\ fpc = "start"
  /\ fromPos = 0 /\ restartPos = 0 /\ length = 0 /\ samples = 0 /\ currentPos = 0
  /\ i = 0 /\ loaded = 0 /\ passed = 0 /\ rounds = 0
  /\ dst = [k \in 0 .. FftSize - 1 |-> Blank]
  /\ fftTime = NoTime
  /\ valid = FALSE

FftStep ==
  \/ StartThread
  \/ WaitForSamples
  \/ ReadLoadTail
  \/ ReadLoadHead
  \/ ReadClampTest
  \/ LastLoadHead
  \/ SizeLoadHead
  \/ SizeLoadTail
  \/ FindLoadTail
  \/ FindLoadHead
  \/ CopySample
  \/ CopyDone
  \/ AgainLoadTail
  \/ AgainLoadHead
  \/ CheckTail
  \/ CheckHead
  \/ UseFft

FindStep ==
  \/ FindLock
  \/ FindScan
  \/ FindTake

ThreadStep == (FftStep /\ UNCHANGED mutex) \/ FindStep

Next ==
  \/ ProducerNext /\ UNCHANGED fftVars
  \/ ThreadStep /\ UNCHANGED <<producerVars, markers>>

Spec == Init /\ [][Next]_vars

(* The thread runs, and gets the mutex if the mutex is free again and      *)
(* again; a call of general_work that began is finished.  Nothing makes    *)
(* the radio deliver.                                                      *)
FairSpec ==
  /\ Spec
  /\ SF_vars(ThreadStep /\ UNCHANGED <<producerVars, markers>>)
  /\ WF_vars(ProducerStep /\ UNCHANGED fftVars)

-----------------------------------------------------------------------------

(* An FFT made of a single packet and found valid is the FftSize samples   *)
(* of the stream from its first position.                                  *)
SinglePacketFftIntact ==
  fpc = "done" /\ valid /\ rounds = 1 =>
    \A k \in 0 .. FftSize - 1 : dst[k] = fromPos + k

(* An FFT is dated with the time of its first sample, never from the       *)
(* marker of another batch, although three loads of a moving ring decide   *)
(* where it begins and the radio thread erases markers while they are      *)
(* searched (fft.cpp:48-57, ringbuffer.h:344-346,493-517); and it is dated *)
(* while the batch of that sample is kept from its start.                  *)
FftTimeIsRight == fpc = "done" => DateIsRight(fftTime, fromPos)

(* An FFT starts no earlier than the end of the one before (fft.h:119),    *)
(* even when samples were lost and the last FftSize ones are taken         *)
(* instead: no sample is counted twice.                                    *)
FftsNeverOverlap == [][fromPos' >= fromPos]_fromPos

(* Once the first request has granted samples the copy loop ends and the   *)
(* FFT is completed.                                                       *)
GrantedFftCompletes == (fpc = "find_tail" /\ length > 0) ~> fpc = "done"

(* "samples located after $from" (fft.h:108-109): a valid FFT is the       *)
(* FftSize samples from its first position, wrapped around the ring or not.*)
FftIsItsSamples ==
  fpc = "done" /\ valid => \A k \in 0 .. FftSize - 1 : dst[k] = fromPos + k

=============================================================================
