-------------------------- MODULE RadioEventTable --------------------------
(***************************************************************************)
(* common/radioeventtable.cpp: the table of the transmissions ("coms") the *)
(* detection found.  For every FFT the detection thread opens a cycle with *)
(* startAddingCommunications, adds each occupied band in the order of the  *)
(* spectrum (the scan of hachoir_c_impl::calc_fft, lines 239-299, compiled *)
(* out today) and closes it with stopAddingCommunications, which moves the *)
(* coms that ended from the list of active ones to the ring of finished    *)
(* ones.  Every UpdatePeriod FFTs it serialises what changed (toString).   *)
(*                                                                         *)
(* Only that thread uses the table, so one action is one call, except that *)
(* the loop of stopAddingCommunications is an action per round: it erases  *)
(* from the list it walks.  Powers, addresses and the buffer of toString   *)
(* are left out.                                                           *)
(***************************************************************************)
EXTENDS Integers, Sequences, SequencesExt

CONSTANTS
  Bands,        \* [start, end]: the bands transmissions occupy, in kHz
  MaxTime,      \* bound on the times of FFTs
  EndDelay,     \* _endOfTransmissionDelay
  MinLength,    \* _minimumTransmissionLength
  UpdatePeriod, \* FFTs per update, 10 in the code
  RingSize,     \* the size of _finishedComs
  NoCom,        \* an empty cell of _finishedComs
  MaxComs,      \* bound on _currentComID
  WordSize      \* 2^64 in the code

ASSUME BandsAssumption == \A b \in Bands : b.start \in Nat /\ b.end \in Nat /\ b.start <= b.end
ASSUME TimesAssumption ==
  /\ MaxTime \in Nat \ {0} /\ EndDelay \in Nat /\ MinLength \in Nat
  /\ WordSize \in Nat /\ WordSize > MaxTime + EndDelay
ASSUME SizesAssumption ==
  RingSize \in Nat \ {0} /\ MaxComs \in Nat /\ UpdatePeriod \in Nat \ {0}

VARIABLES
  phase,         \* where the detection thread is in its cycle
  ffts,          \* calc_fft's id, modulo UpdatePeriod
  tmpTime,       \* _tmp_timeNs
  scanned,       \* the end of the last band added in this cycle
  activeComs,    \* _activeComs, front first
  it,            \* the iterator of stopAddingCommunications, 0 for end()
  finishedRing, finishedHead, finishedTail,  \* _finishedComs
  currentComID,  \* _currentComID
  update,        \* the coms toString wrote, until the next cycle
  reported       \* the coms written as finished so far (observes the code)

finishedVars == <<finishedRing, finishedHead, finishedTail>>
cycleVars    == <<phase, ffts, tmpTime, scanned, it>>
reportVars   == <<update, reported>>
vars == <<cycleVars, activeComs, finishedVars, currentComID, reportVars>>

Finished == INSTANCE AbsoluteRingBuffer WITH
  NoElement <- NoCom, ring <- finishedRing, head <- finishedHead, tail <- finishedTail

-----------------------------------------------------------------------------
(* Matching.                                                               *)

CentralFreq(start, end) == start + (end - start) \div 2

(* A tenth of the width: coms narrower than 10 kHz allow no error. *)
MaxErrorPerMille(start, end) == ((end - start) * 10) \div 1000  \* mutant: wrong unit

MaxError(start, end) == ((end - start) * 10) \div 100

FuzzyCompare(a, b, maxError) == b - a < maxError /\ a - b < maxError

Matches(com, start, end) ==
  FuzzyCompare(CentralFreq(start, end), CentralFreq(com.freqStart, com.freqEnd),
               MaxError(start, end))

(* findMatchInActiveCommunications: the first match of the list, 0 when    *)
(* there is none.                                                          *)
FindMatch(start, end) ==
  SelectInSeq(activeComs, LAMBDA com : Matches(com, start, end))

-----------------------------------------------------------------------------
(* A cycle of the detection.                                               *)

(* The update is sent before the next FFT is built. *)
NoUpdate == [active |-> {}, finished |-> {}]

(* An FFT is dated by the clock reading of its batch and the distance from *)
(* the start of that batch in nominal sample periods: the dates of two     *)
(* FFTs are in any order, batches being read late or early and gettimeofday*)
(* being set (hachoir_c_impl.cc:98,115,137-143, samplesringbuffer.h:57-61).*)
(* timeAt returns 0 when it finds no marker.                               *)
StartAddingCommunications ==
  /\ phase = "idle"
  /\ tmpTime' \in 0 .. MaxTime
  /\ phase' = "adding"
  /\ update' = NoUpdate
  /\ UNCHANGED <<ffts, scanned, it, activeComs, finishedVars, currentComID, reported>>

NewCom(b) ==
  [id |-> currentComID, timeStart |-> tmpTime, timeEnd |-> tmpTime,
   freqStart |-> b.start, freqEnd |-> b.end, dirty |-> TRUE]

Extended(com, b) ==
  [com EXCEPT !.timeEnd   = tmpTime,
              !.freqStart = IF @ > b.start THEN b.start ELSE @,
              !.freqEnd   = IF @ < b.end THEN b.end ELSE @,
              !.dirty     = TRUE]

AddCommunication(b) ==
  LET k == FindMatch(b.start, b.end)
  IN  /\ phase = "adding"
      /\ b.start > scanned
      /\ scanned' = b.end
      /\ \/ /\ k # 0
            /\ activeComs' = [activeComs EXCEPT ![k] = Extended(@, b)]
            /\ UNCHANGED currentComID
         \/ /\ k = 0
            /\ currentComID < MaxComs
            /\ activeComs' = Append(activeComs, NewCom(b))
            /\ currentComID' = currentComID + 1
      /\ UNCHANGED <<phase, ffts, tmpTime, it, finishedVars, reportVars>>

(* _activeComs.begin() *)
SecondCom == IF Len(activeComs) < 2 THEN 0 ELSE 2  \* mutant: the front is forgotten

FirstCom == IF activeComs = <<>> THEN 0 ELSE 1

StopAddingCommunications ==
  /\ phase = "adding"
  /\ phase' = "sweeping"
  /\ it' = FirstCom
  /\ scanned' = -1
  /\ UNCHANGED <<ffts, tmpTime, activeComs, finishedVars, currentComID,
                 reportVars>>

(* The subtractions are unsigned. *)
IsAlmostOver(com) == (tmpTime - com.timeEnd) % WordSize >= EndDelay  \* mutant: off by one

IsOver(com) == (tmpTime - com.timeEnd) % WordSize > EndDelay

IsLongEnough(com) == (com.timeEnd - com.timeStart) % WordSize >= MinLength

SweepKeep ==
  /\ phase = "sweeping"
  /\ it # 0
  /\ ~IsOver(activeComs[it])
  /\ it' = IF it < Len(activeComs) THEN it + 1 ELSE 0
  /\ UNCHANGED <<phase, ffts, tmpTime, scanned, activeComs, finishedVars,
                 currentComID, reportVars>>

(* Where ++it leads after erasing the com at k of n: erase returned the    *)
(* com that follows, which ++it skips.  If the erased one was the last,    *)
(* erase returned end(), and ++ on it leads round to the front, the lists  *)
(* of libstdc++ being circular.                                            *)
AfterEraseUnbounded(k, n) == k + 1  \* mutant: end() is not recognised

AfterErase(k, n) ==
  CASE k = n /\ n = 1 -> 0
    [] k = n /\ n > 1 -> 1
    [] k = n - 1      -> 0
    [] OTHER          -> k + 1

(* The coms that remain. *)
WithoutFront(k) == Tail(activeComs)  \* mutant: pop_front instead of erase

Without(k) == RemoveAt(activeComs, k)

SweepErase ==
  /\ phase = "sweeping"
  /\ it # 0
  /\ IsOver(activeComs[it])
  /\ IF IsLongEnough(activeComs[it]) THEN Finished!PushBack(activeComs[it])
                                     ELSE UNCHANGED finishedVars
  /\ activeComs' = Without(it)
  /\ it' = AfterErase(it, Len(activeComs))
  /\ UNCHANGED <<phase, ffts, tmpTime, scanned, currentComID, reportVars>>

(* The loop is over; calc_fft reports every UpdatePeriod FFTs. *)
SweepDone ==
  /\ phase = "sweeping"
  /\ it = 0
  /\ tmpTime' = 0
  /\ ffts' = (ffts + 1) % UpdatePeriod
  /\ phase' = IF ffts = 0 THEN "reporting" ELSE "idle"
  /\ UNCHANGED <<scanned, it, activeComs, finishedVars, currentComID, reportVars>>

-----------------------------------------------------------------------------
(* toString: the active coms seen more than once, then the finished ones   *)
(* that have not been sent yet.  The order it writes them in is left out,  *)
(* and so are its early returns (radioeventtable.cpp:193-213), when a      *)
(* buffer of 1 MB, doubled at most once, is too small for what is kept: a  *)
(* thousand finished coms and the active ones are far below that.          *)

ActiveUpdate == {com \in ToSet(activeComs) : com.timeEnd # com.timeStart}

KeptButTheLast ==  \* mutant: off by one
  {Finished!At(i) : i \in finishedTail .. finishedHead - 2}

Kept == {Finished!At(i) : i \in Finished!Positions}

FinishedUpdate == {com \in Kept : com.dirty}

LeftDirty(com) == com  \* mutant: the flag is not cleared

Clean(com) == [com EXCEPT !.dirty = FALSE]

Ids(coms) == {com.id : com \in coms}

CleanFinished ==
  /\ finishedRing' = [c \in DOMAIN finishedRing |->
       IF c \in Finished!KeptCells THEN Clean(finishedRing[c]) ELSE finishedRing[c]]
  /\ UNCHANGED <<finishedHead, finishedTail>>

TableToString ==
  /\ phase = "reporting"
  /\ phase' = "idle"
  /\ update' = [active |-> Ids(ActiveUpdate), finished |-> Ids(FinishedUpdate)]
  /\ reported' = reported \cup update'.finished
  /\ CleanFinished
  /\ UNCHANGED <<ffts, tmpTime, scanned, it, activeComs, currentComID>>

-----------------------------------------------------------------------------

Init ==
  /\ phase = "idle" /\ ffts = 0 /\ tmpTime = 0 /\ scanned = -1 /\ it = 0
  /\ activeComs = <<>>
  /\ Finished!Init
  /\ currentComID = 0
  /\ update = NoUpdate
  /\ reported = {}

Cycle ==
  \/ StartAddingCommunications
  \/ StopAddingCommunications
  \/ SweepKeep
  \/ SweepErase
  \/ SweepDone
  \/ TableToString

Next == Cycle \/ \E b \in Bands : AddCommunication(b)

Spec == Init /\ [][Next]_vars

(* The detection thread never stops; nothing makes a band be occupied. *)
FairSpec == Spec /\ WF_vars(Cycle)

-----------------------------------------------------------------------------

Com == [id : 0 .. MaxComs - 1, timeStart : 0 .. MaxTime, timeEnd : 0 .. MaxTime,
        freqStart : Nat, freqEnd : Nat, dirty : BOOLEAN]

TypeOK ==
  /\ phase \in {"idle", "adding", "sweeping", "reporting"}
  /\ ffts \in 0 .. UpdatePeriod - 1
  /\ tmpTime \in 0 .. MaxTime
  /\ scanned \in Nat \cup {-1}
  /\ activeComs \in Seq(Com)
  /\ it \in 0 .. Len(activeComs)
  /\ finishedRing \in [0 .. RingSize - 1 -> Com \cup {NoCom}]
  /\ finishedHead \in 0 .. MaxComs /\ finishedTail \in 0 .. finishedHead
  /\ currentComID \in 0 .. MaxComs
  /\ update \in [active : SUBSET (0 .. MaxComs - 1), finished : SUBSET (0 .. MaxComs - 1)]
  /\ reported \subseteq 0 .. MaxComs - 1

(* A com is in one place: the list and the kept part of the ring never     *)
(* hold two entries of one identifier, whatever the sweep skips or walks   *)
(* twice, so a report never shows a com both active and finished.          *)
OneEntryPerCom ==
  /\ \A k, l \in DOMAIN activeComs : activeComs[k].id = activeComs[l].id => k = l
  /\ \A i, j \in Finished!Positions : Finished!At(i).id = Finished!At(j).id => i = j
  /\ \A k \in DOMAIN activeComs, i \in Finished!Positions :
       activeComs[k].id # Finished!At(i).id

(* "We never update old entries" (radioeventtable.cpp:246): as long as a   *)
(* finished com is kept, only its dirty flag changes.                      *)
FinishedComsAreFrozen ==
  [][\A i \in Finished!Positions \cap Finished!Positions' :
       Clean(Finished!At(i))' = Clean(Finished!At(i))]_vars

(* A com leaves the list only in a sweep dated more than the delay after   *)
(* the com was last heard, or before that, dates going back and undated    *)
(* FFTs being the only other reason: whatever the clock does and the walk  *)
(* skips or repeats, a com heard in the very FFT of the sweep stays, and   *)
(* so does one heard less than the delay ago (radioeventtable.cpp:133-153).*)
Silent(com) == tmpTime > com.timeEnd + EndDelay

LaterThanSweep(com) == com.timeEnd > tmpTime

Remains(com) == com.id \in {c.id : c \in ToSet(activeComs')}

RecentComsStay ==
  [][\A com \in ToSet(activeComs) :
       Remains(com) \/ Silent(com) \/ LaterThanSweep(com)]_activeComs

(* A com for the very band of an active one is created only for a band     *)
(* narrower than 10 kHz, whose margin, a tenth of the width in an integer, *)
(* is 0 (radioeventtable.cpp:26).                                          *)
SameBand(com, new) == com.freqStart = new.freqStart /\ com.freqEnd = new.freqEnd

IsNarrow(com) == com.freqEnd - com.freqStart < 10

NewComsAreNew ==
  [][Len(activeComs') > Len(activeComs) =>
       \A com \in ToSet(activeComs) :
         SameBand(com, Last(activeComs')) => IsNarrow(com)]_activeComs

(* A finished com is reported at most once: the viewers append what they   *)
(* receive (updateFromString).                                             *)
ReportedOnce ==
  [][phase = "reporting" => update'.finished \cap reported = {}]_vars

(* ... and at least once unless the ring gave it up first. *)
Unreported(id) ==
  id \notin reported /\ \E i \in Finished!Positions : Finished!At(i).id = id

FinishedComsAreReported == \A id \in 0 .. MaxComs - 1 : Unreported(id) ~> ~Unreported(id)

(* A com that is over in sweep after sweep leaves the list: though a sweep *)
(* may skip it, sweeps cannot skip it for ever.                            *)
OverInSweep(id) ==
  phase = "sweeping" /\ \E com \in ToSet(activeComs) : com.id = id /\ IsOver(com)

EndedComsLeave == \A id \in 0 .. MaxComs - 1 : <>[]~OverInSweep(id)

=============================================================================
