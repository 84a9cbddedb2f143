----------------------- MODULE RadioEventTable_proofs -----------------------
(***************************************************************************)
(* Theorems about the table of transmissions of module RadioEventTable,    *)
(* for every set of bands, delay, minimum length and size of the ring of   *)
(* finished coms.                                                          *)
(***************************************************************************)
EXTENDS RadioEventTable, BufferLemmas, SequenceTheorems

(* The ring of finished coms never keeps more than its size, and what it   *)
(* keeps are coms.                                                         *)
FinishedInv ==
  /\ finishedHead - finishedTail <= RingSize
  /\ \A p \in Finished!Positions : finishedRing[p % RingSize] \in Com

(* Every com ever created is still active, was finished, or was dropped.   *)
CountInv == Len(activeComs) + finishedHead <= currentComID

(* Identifiers were handed out by addCommunication, one to a com. *)
IdsInv ==
  /\ \A k \in 1 .. Len(activeComs) : activeComs[k].id < currentComID
  /\ \A p \in Finished!Positions : Finished!At(p).id < currentComID
  /\ \A id \in reported : id < currentComID
  /\ OneEntryPerCom

(* What was reported as finished is not active, nor waiting to be.         *)
ReportInv ==
  /\ \A k \in 1 .. Len(activeComs) : activeComs[k].dirty /\ activeComs[k].id \notin reported
  /\ \A p \in Finished!Positions :
       Finished!At(p).dirty => Finished!At(p).id \notin reported

Inv ==
  /\ TypeOK
  /\ FinishedInv
  /\ CountInv
  /\ IdsInv
  /\ ReportInv

-----------------------------------------------------------------------------
(* The operators the table is built from.                                  *)

(* findMatchInActiveCommunications returns an entry of the list, or none   *)
(* when none matches.                                                      *)
LEMMA FindMatchResult ==
  ASSUME TypeOK, NEW start, NEW end
  PROVE  /\ FindMatch(start, end) \in 0 .. Len(activeComs)
         /\ FindMatch(start, end) = 0 =>
              \A k \in 1 .. Len(activeComs) : ~ Matches(activeComs[k], start, end)
  <1> DEFINE I == {k \in 1 .. Len(activeComs) : Matches(activeComs[k], start, end)}
  <1>1. Len(activeComs) \in Nat
    BY LenProperties DEF TypeOK
  <1>2. FindMatch(start, end) = IF I # {} THEN Min(I) ELSE 0
    BY DEF FindMatch, SelectInSeq
  <1>3. I \in SUBSET (1 .. Len(activeComs))
    OBVIOUS
  <1>4. I = {} => \A k \in 1 .. Len(activeComs) : ~ Matches(activeComs[k], start, end)
    OBVIOUS
  <1> HIDE DEF I
  <1>5. I # {} => Min(I) \in I
    <2> SUFFICES ASSUME I # {} PROVE Min(I) \in I
      OBVIOUS
    <2>1. I \in SUBSET Nat
      BY <1>1, <1>3
    <2>2. \E m \in I : \A k \in I : m <= k
      BY <2>1, LeastNatural
    <2> QED
      BY <2>2 DEF Min
  <1>6. CASE I = {}
    BY <1>1, <1>2, <1>4, <1>6
  <1>7. CASE I # {}
    <2> DEFINE m == FindMatch(start, end)
    <2>1. m \in 1 .. Len(activeComs)
      BY <1>2, <1>3, <1>5, <1>7
    <2> HIDE DEF m
    <2>2. m \in 0 .. Len(activeComs) /\ m # 0
      BY <1>1, <2>1
    <2> QED
      BY <2>2 DEF m
  <1> QED
    BY <1>6, <1>7

(* push_back: the oldest com is given up if the ring is full, and the      *)
(* others stay where they are.                                             *)
LEMMA PushBackKeeps ==
  ASSUME TypeOK, FinishedInv, NEW e \in Com, Finished!PushBack(e)
  PROVE  /\ finishedHead' = finishedHead + 1
         /\ finishedTail' \in finishedTail .. finishedTail + 1
         /\ finishedTail' <= finishedHead'
         /\ finishedHead' - finishedTail' <= RingSize
         /\ finishedRing' \in [0 .. RingSize - 1 -> Com \cup {NoCom}]
         /\ \A p \in Finished!Positions' :
              \/ p \in Finished!Positions /\ p # finishedHead
                   /\ finishedRing'[p % RingSize] = finishedRing[p % RingSize]
              \/ p = finishedHead /\ finishedRing'[p % RingSize] = e
  <1>1. /\ finishedTail' = IF finishedHead - finishedTail >= RingSize
                             THEN finishedTail + 1 ELSE finishedTail
        /\ finishedRing' = [finishedRing EXCEPT ![finishedHead % RingSize] = e]
        /\ finishedHead' = finishedHead + 1
    BY DEF Finished!PushBack
  <1>2. /\ finishedHead \in Nat /\ finishedTail \in Nat /\ finishedTail <= finishedHead
        /\ RingSize \in Nat \ {0} /\ finishedHead - finishedTail <= RingSize
        /\ finishedRing \in [0 .. RingSize - 1 -> Com \cup {NoCom}]
    BY SizesAssumption DEF TypeOK, FinishedInv
  <1>3. finishedHead % RingSize \in 0 .. RingSize - 1
    BY <1>2, DivMod
  <1>4. finishedHead' - finishedTail' <= RingSize /\ finishedTail' <= finishedHead'
    BY <1>1, <1>2
  <1>5. ASSUME NEW p \in Finished!Positions', p # finishedHead
        PROVE  p \in Finished!Positions
               /\ finishedRing'[p % RingSize] = finishedRing[p % RingSize]
    <2>1. p \in finishedTail .. finishedHead - 1 /\ finishedHead < p + RingSize /\ p \in Nat
      BY <1>1, <1>2, <1>4, <1>5 DEF Finished!Positions
    <2>2. p % RingSize # finishedHead % RingSize
      <3>1. p < finishedHead
        BY <1>2, <2>1
      <3> QED
        BY <1>2, <2>1, <3>1, CellsDiffer
    <2>3. p % RingSize \in 0 .. RingSize - 1
      <3>1. p \in Int
        BY <2>1
      <3> QED
        BY <1>2, <3>1, DivMod
    <2> QED
      BY <1>1, <1>2, <2>1, <2>2, <2>3 DEF Finished!Positions
  <1>6. finishedRing'[finishedHead % RingSize] = e
    BY <1>1, <1>2, <1>3
  <1> QED
    BY <1>1, <1>2, <1>3, <1>4, <1>5, <1>6

-----------------------------------------------------------------------------
(* The invariant.                                                          *)

(* The table is empty. *)
LEMMA TableInit == Init => Inv
  <1> SUFFICES ASSUME Init PROVE Inv
    OBVIOUS
  <1>1. /\ activeComs = <<>> /\ finishedHead = 0 /\ finishedTail = 0 /\ reported = {}
        /\ currentComID = 0 /\ tmpTime = 0 /\ update = NoUpdate
        /\ phase = "idle" /\ ffts = 0 /\ scanned = -1 /\ it = 0
        /\ finishedRing = [c \in 0 .. RingSize - 1 |-> NoCom]
    BY DEF Init, Finished!Init
  <1>2. Len(activeComs) = 0 /\ activeComs \in Seq(Com) /\ DOMAIN activeComs = 1 .. 0
    BY <1>1, EmptySeq, LenProperties
  <1>3. TypeOK
    BY <1>1, <1>2, TimesAssumption, SizesAssumption DEF TypeOK, NoUpdate
  <1>4. Finished!Positions = {}
    BY <1>1 DEF Finished!Positions
  <1>5. FinishedInv /\ CountInv /\ ReportInv
    BY <1>1, <1>2, <1>4, SizesAssumption DEF FinishedInv, CountInv, ReportInv
  <1>6. IdsInv
    BY <1>1, <1>2, <1>4 DEF IdsInv, OneEntryPerCom
  <1> QED
    BY <1>3, <1>5, <1>6 DEF Inv

(* The values the steps depend on. *)
LEMMA TableValues ==
  ASSUME Inv
  PROVE  /\ activeComs \in Seq(Com) /\ Len(activeComs) \in Nat
         /\ DOMAIN activeComs = 1 .. Len(activeComs)
         /\ \A k \in 1 .. Len(activeComs) : activeComs[k] \in Com
         /\ finishedHead \in Nat /\ finishedTail \in Nat /\ finishedTail <= finishedHead
         /\ currentComID \in Nat /\ currentComID <= MaxComs /\ MaxComs \in Nat
         /\ tmpTime \in Nat /\ tmpTime <= MaxTime
         /\ MaxTime \in Nat
         /\ RingSize \in Nat \ {0} /\ UpdatePeriod \in Nat \ {0}
         /\ TypeOK
  BY LenProperties, ElementOfSeq, TimesAssumption, SizesAssumption DEF Inv, TypeOK

(* The fields of a com. *)
LEMMA ComFields ==
  ASSUME NEW com \in Com
  PROVE  /\ com.id \in 0 .. MaxComs - 1 /\ com.id \in Nat
         /\ com.timeStart \in 0 .. MaxTime /\ com.timeEnd \in 0 .. MaxTime
         /\ com.timeEnd \in Nat /\ com.timeStart \in Nat
         /\ com.freqStart \in Nat /\ com.freqEnd \in Nat
         /\ com.dirty \in BOOLEAN
  BY DEF Com

(* A step that leaves the coms where they are.                             *)
LEMMA ComsStand ==
  ASSUME Inv, UNCHANGED <<activeComs, finishedVars, currentComID, reported>>
  PROVE  FinishedInv' /\ CountInv' /\ IdsInv' /\ ReportInv'
  BY DEF Inv, FinishedInv, CountInv, IdsInv, ReportInv, OneEntryPerCom, finishedVars,
         Finished!Positions, Finished!At

(* The steps around the sweep. *)
LEMMA CycleStep ==
  ASSUME Inv,
         StartAddingCommunications \/ StopAddingCommunications \/ SweepKeep \/ SweepDone
  PROVE  Inv'
  <1>1. UNCHANGED <<activeComs, finishedVars, currentComID, reported>>
    BY DEF StartAddingCommunications, StopAddingCommunications, SweepKeep, SweepDone,
           reportVars
  <1>2. /\ TypeOK /\ MaxTime \in Nat
        /\ UpdatePeriod \in Nat \ {0} /\ Len(activeComs) \in Nat
    BY TableValues DEF Inv
  <1>3. TypeOK'
    <2> USE <1>2 DEF TypeOK, finishedVars, reportVars
    <2>1. CASE StartAddingCommunications
      BY <2>1 DEF StartAddingCommunications, NoUpdate
    <2>2. CASE StopAddingCommunications
      <3>1. FirstCom \in 0 .. Len(activeComs)
        BY EmptySeq DEF FirstCom
      <3> QED
        BY <2>2, <3>1 DEF StopAddingCommunications
    <2>3. CASE SweepKeep
      BY <2>3 DEF SweepKeep
    <2>4. CASE SweepDone
      <3>1. ffts + 1 \in Int
        OBVIOUS
      <3>2. (ffts + 1) % UpdatePeriod \in 0 .. UpdatePeriod - 1
        BY <3>1, DivMod
      <3> QED
        BY <2>4, <3>2 DEF SweepDone
    <2> QED
      BY <2>1, <2>2, <2>3, <2>4
  <1> QED
    BY <1>1, <1>3, ComsStand DEF Inv

(* A band that matches an active com extends it. *)
LEMMA ExtendStep ==
  ASSUME Inv, NEW b \in Bands, NEW k \in 1 .. Len(activeComs),
         activeComs' = [activeComs EXCEPT ![k] = Extended(@, b)],
         UNCHANGED <<phase, ffts, tmpTime, it, finishedVars, reportVars,
                     currentComID>>,
         scanned' = b.end
  PROVE  Inv'
  <1> DEFINE com == activeComs[k]
             new == Extended(com, b)
  <1>1. b.start \in Nat /\ b.end \in Nat
    BY BandsAssumption
  <1>2. com \in Com
    BY TableValues
  <1>3. /\ new \in Com /\ new.id = com.id /\ new.timeEnd = tmpTime /\ new.dirty
    <2>1. tmpTime \in 0 .. MaxTime
      BY TableValues
    <2> HIDE DEF com
    <2> QED
      BY <1>1, <1>2, <2>1 DEF Extended, Com
  <1> HIDE DEF com, new
  <1>4. /\ activeComs' \in Seq(Com) /\ Len(activeComs') = Len(activeComs)
        /\ \A j \in 1 .. Len(activeComs) :
             activeComs'[j] = IF j = k THEN new ELSE activeComs[j]
    BY <1>3, TableValues, ExceptSeq DEF com, new
  <1>5. \A j \in 1 .. Len(activeComs) : activeComs'[j].id = activeComs[j].id
    BY <1>3, <1>4 DEF com
  <1>6. DOMAIN activeComs' = 1 .. Len(activeComs) /\ DOMAIN activeComs = 1 .. Len(activeComs)
    BY <1>4, LenProperties, TableValues
  <1>7. TypeOK'
    BY <1>1, <1>4, TableValues DEF TypeOK, finishedVars, reportVars
  <1>8. FinishedInv' /\ CountInv'
    BY <1>4 DEF Inv, FinishedInv, CountInv, finishedVars, Finished!Positions
  <1>9. IdsInv'
    <2>1. OneEntryPerCom'
      BY <1>5, <1>6
      DEF Inv, IdsInv, OneEntryPerCom, finishedVars, Finished!Positions, Finished!At
    <2> QED
      BY <1>4, <1>5, <2>1
      DEF Inv, IdsInv, finishedVars, reportVars, Finished!Positions, Finished!At
  <1>11. ReportInv'
    BY <1>3, <1>4, <1>5
    DEF Inv, ReportInv, finishedVars, reportVars, Finished!Positions, Finished!At
  <1> QED
    BY <1>7, <1>8, <1>9, <1>11 DEF Inv

(* A new com goes to the end of the list. *)
LEMMA AppendedCom ==
  ASSUME Inv, NEW b \in Bands, currentComID < MaxComs
  PROVE  LET new  == NewCom(b)
             coms == Append(activeComs, new)
         IN  /\ new \in Com /\ new.id = currentComID /\ new.timeEnd = tmpTime /\ new.dirty
             /\ coms \in Seq(Com) /\ Len(coms) = Len(activeComs) + 1
             /\ \A j \in 1 .. Len(activeComs) : coms[j] = activeComs[j]
             /\ coms[Len(activeComs) + 1] = new
  <1> DEFINE new == NewCom(b)
  <1>1. b.start \in Nat /\ b.end \in Nat
    BY BandsAssumption
  <1>2. /\ new \in Com /\ new.id = currentComID /\ new.timeEnd = tmpTime /\ new.dirty
    BY <1>1, TableValues DEF NewCom, Com
  <1> HIDE DEF new
  <1> QED
    BY <1>2, TableValues, AppendProperties DEF new

(* A band that matches none becomes a com with a new identifier. *)
LEMMA CreateStep ==
  ASSUME Inv, NEW b \in Bands,
         currentComID < MaxComs,
         activeComs' = Append(activeComs, NewCom(b)),
         currentComID' = currentComID + 1,
         UNCHANGED <<phase, ffts, tmpTime, it, finishedVars, reportVars>>,
         scanned' = b.end
  PROVE  Inv'
  <1> DEFINE new == NewCom(b)
             n   == Len(activeComs)
  <1>1. b.start \in Nat /\ b.end \in Nat
    BY BandsAssumption
  <1>2. /\ new \in Com /\ new.id = currentComID /\ new.timeEnd = tmpTime /\ new.dirty
    BY AppendedCom
  <1>3. /\ activeComs' \in Seq(Com) /\ Len(activeComs') = n + 1
        /\ \A j \in 1 .. n : activeComs'[j] = activeComs[j]
        /\ activeComs'[n + 1] = new
    BY AppendedCom
  <1> HIDE DEF new
  <1>4. DOMAIN activeComs' = 1 .. n + 1 /\ DOMAIN activeComs = 1 .. n /\ n \in Nat
    BY <1>3, LenProperties, TableValues
  <1> HIDE DEF n
  <1>5. \A j \in 1 .. n + 1 : j \in 1 .. n \/ j = n + 1
    BY <1>4
  <1>6. TypeOK'
    <2>1. it' \in 0 .. Len(activeComs')
      <3>1. it' = it /\ it \in 0 .. n
        BY TableValues DEF TypeOK, n
      <3> QED
        BY <1>3, <1>4, <3>1
    <2>2. currentComID' \in 0 .. MaxComs /\ scanned' \in Nat
      BY <1>1, TableValues
    <2> QED
      BY <1>3, <2>1, <2>2, TableValues DEF TypeOK, finishedVars, reportVars
  <1>7. FinishedInv' /\ CountInv'
    <2>1. CountInv'
      BY <1>3, <1>4, TableValues DEF Inv, CountInv, finishedVars, n
    <2> QED
      BY <2>1 DEF Inv, FinishedInv, finishedVars, Finished!Positions
  <1>8. \A j \in 1 .. n : activeComs'[j].id < currentComID /\ activeComs[j].id \in Nat
    BY <1>3, TableValues, ComFields DEF Inv, IdsInv, n
  <1>9. /\ UNCHANGED <<Finished!Positions, reported>>
        /\ \A p \in Finished!Positions : Finished!At(p)' = Finished!At(p)
    BY DEF finishedVars, reportVars, Finished!Positions, Finished!At
  <1>10. \A p \in Finished!Positions : Finished!At(p).id < currentComID
                                       /\ Finished!At(p).id \in Nat
    BY DEF Inv, IdsInv, FinishedInv, Finished!At, Com
  <1>11. IdsInv'
    <2>1. \A j \in 1 .. n + 1 : activeComs'[j].id < currentComID'
      <3>1. currentComID \in Nat /\ currentComID' = currentComID + 1
        BY TableValues
      <3>2. ASSUME NEW j \in 1 .. n PROVE activeComs'[j].id < currentComID'
        <4>1. activeComs'[j].id < currentComID /\ activeComs'[j].id \in Nat
          BY <1>3, <1>8
        <4>2. \A id \in Nat : id < currentComID => id < currentComID'
          BY <3>1
        <4> QED
          BY <4>1, <4>2, Zenon
      <3>3. activeComs'[n + 1].id < currentComID'
        BY <1>2, <1>3, <3>1
      <3> QED
        BY <1>5, <3>2, <3>3
    <2>2. \A p \in Finished!Positions' : Finished!At(p)'.id < currentComID'
      BY <1>9, <1>10, TableValues
    <2>3. \A id \in reported' : id < currentComID'
      BY <1>9, TableValues DEF Inv, IdsInv, TypeOK
    <2>4. \A k, l \in 1 .. n + 1 : activeComs'[k].id = activeComs'[l].id => k = l
      <3> SUFFICES ASSUME NEW k \in 1 .. n + 1, NEW l \in 1 .. n + 1,
                          activeComs'[k].id = activeComs'[l].id
                   PROVE  k = l
        OBVIOUS
      <3>1. CASE k \in 1 .. n /\ l \in 1 .. n
        BY <1>3, <1>4, <3>1 DEF Inv, IdsInv, OneEntryPerCom
      <3>2. CASE k \in 1 .. n /\ l = n + 1
        <4>1. activeComs'[k].id < currentComID /\ activeComs'[l].id = currentComID
          BY <1>2, <1>3, <1>8, <3>2
        <4> QED
          BY <1>3, <1>8, <3>2, <4>1
      <3>3. CASE k = n + 1 /\ l \in 1 .. n
        <4>1. activeComs'[l].id < currentComID /\ activeComs'[k].id = currentComID
          BY <1>2, <1>3, <1>8, <3>3
        <4> QED
          BY <1>3, <1>8, <3>3, <4>1
      <3> QED
        BY <1>5, <3>1, <3>2, <3>3
    <2>5. \A p, q \in Finished!Positions' : Finished!At(p)'.id = Finished!At(q)'.id => p = q
      BY <1>9 DEF Inv, IdsInv, OneEntryPerCom
    <2>6. \A k \in 1 .. n + 1, p \in Finished!Positions' :
            activeComs'[k].id # Finished!At(p)'.id
      <3> SUFFICES ASSUME NEW k \in 1 .. n + 1, NEW p \in Finished!Positions
                   PROVE  activeComs'[k].id # Finished!At(p).id
        BY <1>9
      <3>1. CASE k \in 1 .. n
        BY <1>3, <1>4, <3>1 DEF Inv, IdsInv, OneEntryPerCom
      <3>2. CASE k = n + 1
        BY <1>2, <1>3, <1>10, <3>2, TableValues
      <3> QED
        BY <1>5, <3>1, <3>2
    <2>7. OneEntryPerCom'
      BY <1>4, <2>4, <2>5, <2>6 DEF OneEntryPerCom
    <2> QED
      BY <1>3, <2>1, <2>2, <2>3, <2>7 DEF IdsInv
  <1>13. ReportInv'
    <2>1. currentComID \notin reported
      BY TableValues DEF Inv, IdsInv
    <2>2. \A j \in 1 .. n + 1 : activeComs'[j].dirty /\ activeComs'[j].id \notin reported
      BY <1>2, <1>3, <1>5, <2>1 DEF Inv, ReportInv, n
    <2> QED
      BY <1>3, <1>9, <2>2 DEF Inv, ReportInv
  <1> QED
    BY <1>6, <1>7, <1>11, <1>13 DEF Inv

(* addCommunication either finds a match or creates a com. *)
LEMMA AddStep ==
  ASSUME Inv, NEW b \in Bands, AddCommunication(b)
  PROVE  Inv'
  <1> DEFINE k == FindMatch(b.start, b.end)
  <1>1. k \in 0 .. Len(activeComs)
    BY FindMatchResult, TableValues
  <1>2. /\ scanned' = b.end
        /\ UNCHANGED <<phase, ffts, tmpTime, it, finishedVars, reportVars>>
        /\ \/ /\ k # 0
              /\ activeComs' = [activeComs EXCEPT ![k] = Extended(@, b)]
              /\ UNCHANGED currentComID
           \/ /\ k = 0
              /\ currentComID < MaxComs
              /\ activeComs' = Append(activeComs, NewCom(b))
              /\ currentComID' = currentComID + 1
    BY DEF AddCommunication
  <1> HIDE DEF k
  <1>3. CASE k = 0
    BY <1>2, <1>3, CreateStep
  <1>4. CASE k # 0
    <2>1. k \in 1 .. Len(activeComs)
      BY <1>1, <1>4, TableValues
    <2>2. /\ activeComs' = [activeComs EXCEPT ![k] = Extended(@, b)]
          /\ UNCHANGED <<phase, ffts, tmpTime, it, finishedVars, reportVars,
                         currentComID>>
      BY <1>2, <1>4
    <2> QED
      BY <1>2, <2>1, <2>2, ExtendStep
  <1> QED
    BY <1>3, <1>4

(* A round of the sweep keeps what the ring keeps, and adds at most the    *)
(* com it erases.                                                          *)
LEMMA SweptRing ==
  ASSUME Inv, SweepErase
  PROVE  /\ finishedHead' \in {finishedHead, finishedHead + 1}
         /\ finishedTail' \in 0 .. finishedHead'
         /\ finishedHead' - finishedTail' <= RingSize
         /\ finishedRing' \in [0 .. RingSize - 1 -> Com \cup {NoCom}]
         /\ \A p \in Finished!Positions' :
              \/ p \in Finished!Positions /\ Finished!At(p)' = Finished!At(p)
              \/ Finished!At(p)' = activeComs[it] /\ p = finishedHead
         /\ finishedHead \notin Finished!Positions
  <1> DEFINE com == activeComs[it]
  <1>1. /\ TypeOK /\ FinishedInv /\ finishedHead \in Nat /\ finishedTail \in Nat
        /\ finishedTail <= finishedHead
    BY TableValues DEF Inv
  <1>2. it \in 1 .. Len(activeComs) /\ com \in Com
    BY TableValues DEF SweepErase, TypeOK
  <1>3. finishedHead \notin Finished!Positions
    BY <1>1 DEF Finished!Positions
  <1>4. Finished!PushBack(com) \/ UNCHANGED finishedVars
    BY DEF SweepErase
  <1> HIDE DEF com
  <1>5. CASE UNCHANGED finishedVars
    BY <1>1, <1>3, <1>5
    DEF TypeOK, FinishedInv, finishedVars, Finished!Positions, Finished!At
  <1>6. CASE Finished!PushBack(com)
    <2>1. /\ finishedHead' = finishedHead + 1
          /\ finishedTail' \in finishedTail .. finishedTail + 1
          /\ finishedTail' <= finishedHead'
          /\ finishedHead' - finishedTail' <= RingSize
          /\ finishedRing' \in [0 .. RingSize - 1 -> Com \cup {NoCom}]
          /\ \A p \in Finished!Positions' :
               \/ p \in Finished!Positions /\ p # finishedHead
                    /\ finishedRing'[p % RingSize] = finishedRing[p % RingSize]
               \/ p = finishedHead /\ finishedRing'[p % RingSize] = com
      BY <1>1, <1>2, <1>6, PushBackKeeps
    <2>2. \A p \in Finished!Positions' :
              \/ p \in Finished!Positions /\ Finished!At(p)' = Finished!At(p)
              \/ Finished!At(p)' = com /\ p = finishedHead
      BY <2>1 DEF Finished!At
    <2>3. finishedTail' \in 0 .. finishedHead'
      BY <1>1, <2>1
    <2> QED
      BY <1>3, <2>1, <2>2, <2>3 DEF com
  <1> QED
    BY <1>4, <1>5, <1>6

(* ... and the list keeps every com but that one. *)
LEMMA SweptList ==
  ASSUME Inv, SweepErase
  PROVE  LET old(j) == IF j < it THEN j ELSE j + 1
         IN  /\ it \in 1 .. Len(activeComs)
             /\ activeComs' \in Seq(Com)
             /\ Len(activeComs') = Len(activeComs) - 1
             /\ \A j \in 1 .. Len(activeComs') :
                  /\ old(j) \in 1 .. Len(activeComs) /\ old(j) # it
                  /\ activeComs'[j] = activeComs[old(j)]
             /\ \A j, l \in 1 .. Len(activeComs') : old(j) = old(l) => j = l
             /\ it' \in 0 .. Len(activeComs')
  <1> DEFINE n == Len(activeComs)
  <1>1. it \in 1 .. n /\ n \in Nat /\ activeComs \in Seq(Com)
    BY TableValues DEF SweepErase, TypeOK
  <1>2. /\ activeComs' \in Seq(Com)
        /\ Len(activeComs') = n - 1
        /\ \A j \in 1 .. n - 1 :
             activeComs'[j] = IF j < it THEN activeComs[j] ELSE activeComs[j + 1]
    BY <1>1, ErasedProperties DEF SweepErase, Without, RemoveAt
  <1>3. it' = AfterErase(it, n)
    BY DEF SweepErase
  <1> HIDE DEF n
  <1>4. it' \in 0 .. n - 1
    <2>1. CASE n = 1
      <3>1. AfterErase(it, n) = 0
        BY <1>1, <2>1 DEF AfterErase
      <3> QED
        BY <1>1, <1>3, <3>1
    <2>2. CASE n # 1 /\ it = n
      <3>1. AfterErase(it, n) = 1
        BY <1>1, <2>2 DEF AfterErase
      <3> QED
        BY <1>1, <1>3, <2>2, <3>1
    <2>3. CASE n # 1 /\ it # n /\ it = n - 1
      <3>1. AfterErase(it, n) = 0
        BY <1>1, <2>3 DEF AfterErase
      <3> QED
        BY <1>1, <1>3, <3>1
    <2>4. CASE n # 1 /\ it # n /\ it # n - 1
      <3>1. AfterErase(it, n) = it + 1
        BY <1>1, <2>4 DEF AfterErase
      <3> QED
        BY <1>1, <1>3, <2>4, <3>1
    <2> QED
      BY <2>1, <2>2, <2>3, <2>4
  <1> QED
    BY <1>1, <1>2, <1>4 DEF n

(* The sweep moves a com from the list to the ring, or drops it. *)
LEMMA EraseStep ==
  ASSUME Inv, SweepErase
  PROVE  Inv'
  <1> DEFINE n      == Len(activeComs')
             com    == activeComs[it]
             old(j) == IF j < it THEN j ELSE j + 1
  <1>1. /\ it \in 1 .. Len(activeComs)
        /\ activeComs' \in Seq(Com)
        /\ n = Len(activeComs) - 1
        /\ \A j \in 1 .. n :
             /\ old(j) \in 1 .. Len(activeComs) /\ old(j) # it
             /\ activeComs'[j] = activeComs[old(j)]
        /\ \A j, l \in 1 .. n : old(j) = old(l) => j = l
        /\ it' \in 0 .. n
    BY SweptList
  <1>2. /\ finishedHead' \in {finishedHead, finishedHead + 1}
        /\ finishedTail' \in 0 .. finishedHead'
        /\ finishedHead' - finishedTail' <= RingSize
        /\ finishedRing' \in [0 .. RingSize - 1 -> Com \cup {NoCom}]
        /\ \A p \in Finished!Positions' :
             \/ p \in Finished!Positions /\ Finished!At(p)' = Finished!At(p)
             \/ Finished!At(p)' = com /\ p = finishedHead
        /\ finishedHead \notin Finished!Positions
    BY SweptRing
  <1>3. UNCHANGED <<phase, ffts, tmpTime, scanned, currentComID, reportVars>>
    BY DEF SweepErase
  <1>4. com \in Com /\ n \in Nat
    BY <1>1, TableValues
  <1>5. DOMAIN activeComs' = 1 .. n /\ DOMAIN activeComs = 1 .. Len(activeComs)
    BY <1>1, LenProperties, TableValues
  <1> HIDE DEF n, com, old
  <1>6. CountInv' /\ finishedHead' \in 0 .. MaxComs
    <2>1. n + finishedHead' <= currentComID
      <3>1. /\ n = Len(activeComs) - 1 /\ Len(activeComs) + finishedHead <= currentComID
            /\ finishedHead' \in {finishedHead, finishedHead + 1}
        BY <1>1, <1>2 DEF Inv, CountInv
      <3> QED
        BY <1>4, <3>1, TableValues
    <2>2. finishedHead' \in Nat /\ finishedHead' <= MaxComs
      <3>1. finishedHead' \in Nat
        BY <1>2, TableValues
      <3> QED
        BY <1>4, <2>1, <3>1, TableValues
    <2>3. Len(activeComs') = n
      BY DEF n
    <2>4. CountInv'
      BY <1>3, <2>1, <2>3 DEF CountInv
    <2> QED
      BY <2>2, <2>4, TableValues
  <1>7. TypeOK'
    BY <1>1, <1>2, <1>3, <1>6, TableValues DEF TypeOK, n, reportVars
  <1>8. FinishedInv'
    <2>1. ASSUME NEW p \in Finished!Positions' PROVE Finished!At(p)' \in Com
      BY <1>2, <1>4 DEF Inv, FinishedInv, Finished!At
    <2> QED
      BY <1>2, <2>1 DEF FinishedInv, Finished!At
  <1>9. OneEntryPerCom'
    <2>1. OneEntryPerCom
      BY DEF Inv, IdsInv
    <2>2. \A j, l \in 1 .. n : activeComs'[j].id = activeComs'[l].id => j = l
      <3> SUFFICES ASSUME NEW j \in 1 .. n, NEW l \in 1 .. n,
                          activeComs'[j].id = activeComs'[l].id
                   PROVE  j = l
        OBVIOUS
      <3>1. old(j) = old(l)
        BY <1>1, <1>5, <2>1 DEF OneEntryPerCom
      <3> QED
        BY <1>1, <3>1
    <2>3. \A p \in Finished!Positions : Finished!At(p).id # com.id
      BY <1>1, <1>5, <2>1 DEF OneEntryPerCom, com
    <2>4. \A p, q \in Finished!Positions' : Finished!At(p)'.id = Finished!At(q)'.id => p = q
      <3> SUFFICES ASSUME NEW p \in Finished!Positions', NEW q \in Finished!Positions',
                          Finished!At(p)'.id = Finished!At(q)'.id, p # q
                   PROVE  FALSE
        OBVIOUS
      <3>1. CASE p \in Finished!Positions /\ Finished!At(p)' = Finished!At(p)
                 /\ q \in Finished!Positions /\ Finished!At(q)' = Finished!At(q)
        BY <2>1, <3>1 DEF OneEntryPerCom
      <3>2. CASE p \in Finished!Positions /\ Finished!At(p)' = Finished!At(p)
                 /\ Finished!At(q)' = com
        BY <2>3, <3>2
      <3>3. CASE q \in Finished!Positions /\ Finished!At(q)' = Finished!At(q)
                 /\ Finished!At(p)' = com
        BY <2>3, <3>3
      <3> QED
        BY <1>2, <3>1, <3>2, <3>3
    <2>5. \A k \in 1 .. n, p \in Finished!Positions' :
            activeComs'[k].id # Finished!At(p)'.id
      <3> SUFFICES ASSUME NEW k \in 1 .. n, NEW p \in Finished!Positions'
                   PROVE  activeComs[old(k)].id # Finished!At(p)'.id
        <4>1. \A k \in 1 .. n : activeComs'[k] = activeComs[old(k)]
          BY <1>1
        <4> QED
          BY <4>1, Zenon
      <3>1. CASE p \in Finished!Positions /\ Finished!At(p)' = Finished!At(p)
        BY <1>1, <1>5, <2>1, <3>1 DEF OneEntryPerCom
      <3>2. CASE Finished!At(p)' = com
        BY <1>1, <1>5, <2>1, <3>2 DEF OneEntryPerCom, com
      <3> QED
        BY <1>2, <3>1, <3>2
    <2> QED
      BY <1>5, <2>2, <2>4, <2>5 DEF OneEntryPerCom
  <1>10. IdsInv'
    <2>1. com.id < currentComID
      BY <1>1 DEF Inv, IdsInv, com
    <2>2. \A p \in Finished!Positions' : Finished!At(p)'.id < currentComID
      BY <1>2, <2>1 DEF Inv, IdsInv
    <2>3. \A j \in 1 .. n : activeComs'[j].id < currentComID
      BY <1>1 DEF Inv, IdsInv
    <2> QED
      BY <1>3, <1>9, <2>2, <2>3 DEF Inv, IdsInv, n, reportVars
  <1>12. ReportInv'
    <2>1. com.id \notin reported
      BY <1>1 DEF Inv, ReportInv, com
    <2>2. \A p \in Finished!Positions' :
            Finished!At(p)'.dirty => Finished!At(p)'.id \notin reported
      BY <1>2, <2>1 DEF Inv, ReportInv
    <2>3. \A j \in 1 .. n : activeComs'[j].dirty /\ activeComs'[j].id \notin reported
      BY <1>1 DEF Inv, ReportInv
    <2> QED
      BY <1>3, <2>2, <2>3 DEF ReportInv, n, reportVars
  <1> QED
    BY <1>6, <1>7, <1>8, <1>10, <1>12 DEF Inv

(* toString clears the flags of the coms the ring keeps, and nothing else. *)
LEMMA CleanedRing ==
  ASSUME Inv, CleanFinished
  PROVE  /\ Finished!Positions' = Finished!Positions
         /\ finishedRing' \in [0 .. RingSize - 1 -> Com \cup {NoCom}]
         /\ \A p \in Finished!Positions :
              Finished!At(p) \in Com /\ Finished!At(p)' = Clean(Finished!At(p))
  <1>1. /\ finishedRing \in [0 .. RingSize - 1 -> Com \cup {NoCom}]
        /\ \A p \in Finished!Positions : finishedRing[p % RingSize] \in Com
        /\ RingSize \in Nat \ {0}
    BY SizesAssumption DEF Inv, TypeOK, FinishedInv
  <1>2. Finished!Positions' = Finished!Positions
    BY DEF CleanFinished, Finished!Positions
  <1>3. Finished!Positions \subseteq Int
    BY TableValues DEF Finished!Positions
  <1>4. ASSUME NEW p \in Finished!Positions
        PROVE  p % RingSize \in 0 .. RingSize - 1 /\ p % RingSize \in Finished!KeptCells
    <2>1. p \in Int
      BY <1>3
    <2> QED
      BY <1>1, <2>1, DivMod DEF Finished!KeptCells
  <1>5. finishedRing' = [c \in 0 .. RingSize - 1 |->
          IF c \in Finished!KeptCells THEN Clean(finishedRing[c]) ELSE finishedRing[c]]
    BY <1>1 DEF CleanFinished
  <1>6. ASSUME NEW c \in 0 .. RingSize - 1, c \in Finished!KeptCells
        PROVE  Clean(finishedRing[c]) \in Com
    <2>1. finishedRing[c] \in Com
      BY <1>1, <1>6 DEF Finished!KeptCells
    <2> QED
      BY <2>1 DEF Clean, Com
  <1>7. finishedRing' \in [0 .. RingSize - 1 -> Com \cup {NoCom}]
    BY <1>1, <1>5, <1>6
  <1>8. \A p \in Finished!Positions :
          Finished!At(p) \in Com /\ Finished!At(p)' = Clean(Finished!At(p))
    BY <1>1, <1>2, <1>4, <1>5 DEF Finished!At
  <1> QED
    BY <1>2, <1>7, <1>8

(* A com with its flag cleared is the same com. *)
LEMMA CleanFields ==
  ASSUME NEW com \in Com
  PROVE  /\ Clean(com) \in Com /\ Clean(com).id = com.id /\ Clean(com).dirty = FALSE
         /\ Clean(Clean(com)) = Clean(com)
  BY DEF Clean, Com

(* What is written as finished is in the ring, and its flag is set. *)
LEMMA ReportedComs ==
  ASSUME Inv, TableToString
  PROVE  /\ update'.finished = {Finished!At(p).id : p \in
              {q \in Finished!Positions : Finished!At(q).dirty}}
         /\ update' \in [active : SUBSET (0 .. MaxComs - 1),
                         finished : SUBSET (0 .. MaxComs - 1)]
  <1>1. update' = [active |-> Ids(ActiveUpdate), finished |-> Ids(FinishedUpdate)]
    BY DEF TableToString
  <1>2. \A p \in Finished!Positions : Finished!At(p) \in Com
    BY DEF Inv, FinishedInv, Finished!At
  <1>3. Ids(FinishedUpdate) = {Finished!At(p).id : p \in
          {q \in Finished!Positions : Finished!At(q).dirty}}
    BY Zenon DEF Ids, FinishedUpdate, Kept
  <1>4. Ids(FinishedUpdate) \subseteq 0 .. MaxComs - 1
    BY <1>2, ComFields DEF Ids, FinishedUpdate, Kept
  <1>5. Ids(ActiveUpdate) \subseteq 0 .. MaxComs - 1
    <2>1. ToSet(activeComs) \subseteq Com
      BY TableValues DEF ToSet
    <2> QED
      BY <2>1, ComFields DEF Ids, ActiveUpdate
  <1> QED
    BY <1>1, <1>3, <1>4, <1>5

(* The report writes what changed and clears its flags. *)
LEMMA ReportStep ==
  ASSUME Inv, TableToString
  PROVE  Inv'
  <1>1. /\ UNCHANGED <<ffts, tmpTime, scanned, it, activeComs, currentComID,
                       finishedHead, finishedTail>>
        /\ phase' = "idle"
        /\ reported' = reported \cup update'.finished
        /\ CleanFinished
    BY DEF TableToString, CleanFinished
  <1>2. /\ Finished!Positions' = Finished!Positions
        /\ finishedRing' \in [0 .. RingSize - 1 -> Com \cup {NoCom}]
        /\ \A p \in Finished!Positions :
             Finished!At(p) \in Com /\ Finished!At(p)' = Clean(Finished!At(p))
    BY <1>1, CleanedRing
  <1>3. /\ update'.finished = {Finished!At(p).id : p \in
             {q \in Finished!Positions : Finished!At(q).dirty}}
        /\ update' \in [active : SUBSET (0 .. MaxComs - 1),
                        finished : SUBSET (0 .. MaxComs - 1)]
    BY ReportedComs
  <1>4. \A p \in Finished!Positions :
          /\ Finished!At(p)' \in Com
          /\ Finished!At(p)'.id = Finished!At(p).id
          /\ Finished!At(p)'.dirty = FALSE
    BY <1>2, CleanFields
  <1>5. \A id \in update'.finished :
          \E p \in Finished!Positions : id = Finished!At(p).id
    BY <1>3
  <1>6. TypeOK'
    <2>1. reported' \subseteq 0 .. MaxComs - 1
      BY <1>1, <1>3 DEF Inv, TypeOK
    <2> QED
      BY <1>1, <1>2, <1>3, <2>1 DEF Inv, TypeOK
  <1>7. FinishedInv'
    <2>1. \A p \in Finished!Positions' : finishedRing'[p % RingSize] \in Com
      BY <1>2, <1>4 DEF Finished!At
    <2> QED
      BY <1>1, <2>1 DEF Inv, FinishedInv
  <1>8. CountInv'
    BY <1>1 DEF Inv, CountInv
  <1>9. IdsInv'
    <2>1. OneEntryPerCom'
      BY <1>1, <1>2, <1>4 DEF Inv, IdsInv, OneEntryPerCom
    <2>2. \A p \in Finished!Positions' : Finished!At(p)'.id < currentComID'
      BY <1>1, <1>2, <1>4 DEF Inv, IdsInv
    <2>3. \A id \in reported' : id < currentComID'
      BY <1>1, <1>5 DEF Inv, IdsInv
    <2> QED
      BY <1>1, <2>1, <2>2, <2>3 DEF Inv, IdsInv
  <1>11. ReportInv'
    <2>1. \A k \in 1 .. Len(activeComs) : activeComs[k].id \notin update'.finished
      BY <1>5, TableValues DEF Inv, IdsInv, OneEntryPerCom
    <2>2. \A k \in 1 .. Len(activeComs) :
            activeComs[k].dirty /\ activeComs[k].id \notin reported'
      BY <1>1, <2>1 DEF Inv, ReportInv
    <2>3. \A p \in Finished!Positions' : ~ Finished!At(p)'.dirty
      BY <1>2, <1>4
    <2> QED
      BY <1>1, <2>2, <2>3 DEF ReportInv
  <1> QED
    BY <1>6, <1>7, <1>8, <1>9, <1>11 DEF Inv

(* Nothing changes. *)
LEMMA TableStutter ==
  ASSUME Inv, UNCHANGED vars
  PROVE  Inv'
  <1>1. FinishedInv' /\ CountInv' /\ IdsInv' /\ ReportInv'
    BY ComsStand DEF vars, reportVars
  <1>2. TypeOK'
    BY DEF Inv, TypeOK, vars, cycleVars, finishedVars, reportVars
  <1> QED
    BY <1>1, <1>2 DEF Inv

(* The table keeps its order whatever the detection adds.                  *)
THEOREM TableInvariance == Spec => []Inv
  <1>1. Inv /\ [Next]_vars => Inv'
    <2> SUFFICES ASSUME Inv, [Next]_vars PROVE Inv'
      OBVIOUS
    <2>1. CASE StartAddingCommunications \/ StopAddingCommunications
               \/ SweepKeep \/ SweepDone
      BY <2>1, CycleStep
    <2>2. CASE SweepErase
      BY <2>2, EraseStep
    <2>3. CASE TableToString
      BY <2>3, ReportStep
    <2>4. CASE \E b \in Bands : AddCommunication(b)
      BY <2>4, AddStep
    <2>5. CASE UNCHANGED vars
      BY <2>5, TableStutter
    <2> QED
      BY <2>1, <2>2, <2>3, <2>4, <2>5 DEF Next, Cycle
  <1> QED
    BY TableInit, <1>1, PTL DEF Spec

-----------------------------------------------------------------------------
(* The properties of the runs.                                             *)

(* Every variable keeps its type; the iterator of the sweep never leaves   *)
(* the list, though it skips the com after an erased one.                  *)
THEOREM TableTypes == Spec => []TypeOK
  <1>1. Inv => TypeOK
    BY DEF Inv
  <1> QED
    BY TableInvariance, <1>1, PTL

(* A com is never listed twice, nor both active and finished: addition,    *)
(* extension, sweep and report keep each identifier in one place.          *)
THEOREM ComsAreInOnePlace == Spec => []OneEntryPerCom
  <1>1. Inv => OneEntryPerCom
    BY DEF Inv, IdsInv
  <1> QED
    BY TableInvariance, <1>1, PTL

(* push_back into the full ring reuses only the cell of the com it gives   *)
(* up, and a report changes only flags: a finished com that is kept is     *)
(* never updated.                                                          *)
THEOREM FinishedComsStayFrozen == Spec => FinishedComsAreFrozen
  <1> DEFINE A == \A i \in Finished!Positions \cap Finished!Positions' :
                    Clean(Finished!At(i))' = Clean(Finished!At(i))
  <1>1. ASSUME Inv, [Next]_vars PROVE A
    <2>1. CASE UNCHANGED finishedVars
      BY <2>1 DEF finishedVars, Finished!Positions, Finished!At, Clean
    <2>2. CASE SweepErase
      <3>1. /\ \A p \in Finished!Positions' :
                 \/ p \in Finished!Positions /\ Finished!At(p)' = Finished!At(p)
                 \/ Finished!At(p)' = activeComs[it] /\ p = finishedHead
            /\ finishedHead \notin Finished!Positions
        BY <1>1, <2>2, SweptRing
      <3>2. \A p \in Finished!Positions \cap Finished!Positions' :
              Finished!At(p)' = Finished!At(p)
        BY <3>1
      <3> QED
        BY <3>2 DEF Clean
    <2>3. CASE TableToString
      <3>1. \A p \in Finished!Positions :
              Finished!At(p) \in Com /\ Finished!At(p)' = Clean(Finished!At(p))
        BY <1>1, <2>3, CleanedRing DEF TableToString
      <3>2. \A p \in Finished!Positions :
              Clean(Clean(Finished!At(p))) = Clean(Finished!At(p))
        BY <3>1, CleanFields
      <3>3. ASSUME NEW p \in Finished!Positions \cap Finished!Positions'
            PROVE  Clean(Finished!At(p))' = Clean(Finished!At(p))
        <4>1. Clean(Finished!At(p))' = Clean(Finished!At(p)')
          BY DEF Clean
        <4> QED
          BY <3>1, <3>2, <4>1
      <3> QED
        BY <3>3
    <2>4. CASE Next
      <3>1. UNCHANGED finishedVars \/ SweepErase \/ TableToString
        BY <2>4 DEF Next, Cycle, StartAddingCommunications, StopAddingCommunications,
             SweepKeep, SweepDone, AddCommunication
      <3> QED
        BY <2>1, <2>2, <2>3, <3>1
    <2>5. CASE UNCHANGED vars
      BY <2>1, <2>5 DEF vars
    <2> QED
      BY <1>1, <2>4, <2>5
  <1> QED
    BY TableInvariance, <1>1, PTL DEF Spec, FinishedComsAreFrozen

(* The unsigned age of a com that is not dated after the sweep is its age. *)
LEMMA AgeIsExact ==
  ASSUME Inv, NEW k \in 1 .. Len(activeComs), IsOver(activeComs[k])
  PROVE  Silent(activeComs[k]) \/ LaterThanSweep(activeComs[k])
  <1> SUFFICES ASSUME ~ LaterThanSweep(activeComs[k]) PROVE Silent(activeComs[k])
    OBVIOUS
  <1> DEFINE age == tmpTime - activeComs[k].timeEnd
  <1>1. /\ activeComs[k].timeEnd <= tmpTime
        /\ activeComs[k].timeEnd \in Nat
        /\ tmpTime \in Nat /\ tmpTime <= MaxTime
        /\ WordSize \in Nat /\ MaxTime \in Nat /\ EndDelay \in Nat
        /\ WordSize > MaxTime + EndDelay
    BY TableValues, ComFields, TimesAssumption DEF LaterThanSweep
  <1>2. age \in 0 .. WordSize - 1 /\ 0 \in Int /\ WordSize \in Nat \ {0}
    BY <1>1
  <1>3. age % WordSize > EndDelay
    BY DEF IsOver
  <1> HIDE DEF age
  <1>4. (WordSize * 0 + age) % WordSize = age
    BY <1>2, RemainderUnique
  <1>5. WordSize * 0 + age = age
    BY <1>2
  <1>6. age > EndDelay
    BY <1>3, <1>4, <1>5
  <1> QED
    BY <1>1, <1>6 DEF age, Silent

(* For every order of the dates of FFTs and every number of coms: the walk *)
(* only erases a com that was silent for more than the delay or, the       *)
(* unsigned subtraction wrapping, was last heard after the date of the     *)
(* sweep; one heard in the FFT of the sweep, dated or not, always stays.   *)
THEOREM RecentComsAlwaysStay == Spec => RecentComsStay
  <1> DEFINE A == \A com \in ToSet(activeComs) :
                    Remains(com) \/ Silent(com) \/ LaterThanSweep(com)
  <1>1. ASSUME Inv, [Next]_vars PROVE [A]_activeComs
    <2> SUFFICES ASSUME activeComs' # activeComs, NEW com \in ToSet(activeComs),
                        ~ Silent(com), ~ LaterThanSweep(com)
                 PROVE  Remains(com)
      OBVIOUS
    <2>1. PICK k \in 1 .. Len(activeComs) : com = activeComs[k]
      BY TableValues, <1>1 DEF ToSet
    <2> DEFINE Stays(j) == j \in 1 .. Len(activeComs') /\ activeComs'[j].id = com.id
    <2>2. ASSUME NEW j, Stays(j), Inv' PROVE Remains(com)
      <3>1. activeComs'[j] \in ToSet(activeComs')
        <4>1. DOMAIN activeComs' = 1 .. Len(activeComs')
          BY <2>2, LenProperties DEF Inv, TypeOK
        <4> QED
          BY <2>2, <4>1 DEF ToSet
      <3> QED
        BY <2>2, <3>1 DEF Remains
    <2>3. CASE SweepErase
      <3>1. ~ IsOver(activeComs[k]) /\ IsOver(activeComs[it])
        BY <1>1, <2>1, <2>3, AgeIsExact DEF SweepErase
      <3>2. k # it
        BY <3>1
      <3>3. /\ it \in 1 .. Len(activeComs)
            /\ Len(activeComs) \in Nat
            /\ Len(activeComs') = Len(activeComs) - 1
            /\ \A j \in 1 .. Len(activeComs') :
                 activeComs'[j] = activeComs[IF j < it THEN j ELSE j + 1]
        BY <1>1, <2>3, SweptList, TableValues
      <3>4. CASE k < it
        <4>1. Stays(k)
          BY <2>1, <3>3, <3>4
        <4> QED
          BY <1>1, <2>2, <2>3, <4>1, EraseStep
      <3>5. CASE ~ (k < it)
        <4>1. k - 1 \in 1 .. Len(activeComs') /\ ~ (k - 1 < it) /\ k - 1 + 1 = k
          BY <3>2, <3>3, <3>5
        <4>2. Stays(k - 1)
          BY <2>1, <3>3, <4>1
        <4> QED
          BY <1>1, <2>2, <2>3, <4>2, EraseStep
      <3> QED
        BY <3>4, <3>5
    <2>4. CASE \E b \in Bands : AddCommunication(b)
      <3>1. PICK b \in Bands : AddCommunication(b)
        BY <2>4
      <3>2. Stays(k)
        <4>1. CASE activeComs' = Append(activeComs, NewCom(b)) /\ currentComID < MaxComs
          <5>1. /\ Len(activeComs') = Len(activeComs) + 1 /\ Len(activeComs) \in Nat
                /\ \A j \in 1 .. Len(activeComs) : activeComs'[j] = activeComs[j]
            BY <1>1, <4>1, AppendedCom, TableValues
          <5> QED
            BY <2>1, <5>1
        <4>2. CASE activeComs' = [activeComs EXCEPT ![FindMatch(b.start, b.end)] =
                                    Extended(@, b)]
          <5>1. FindMatch(b.start, b.end) \in 0 .. Len(activeComs)
            BY <1>1, FindMatchResult, TableValues
          <5> QED
            BY <1>1, <2>1, <4>2, <5>1, TableValues DEF Extended
        <4> QED
          BY <3>1, <4>1, <4>2 DEF AddCommunication
      <3> QED
        BY <1>1, <2>2, <3>1, <3>2, AddStep
    <2> QED
      BY <1>1, <2>3, <2>4
      DEF Next, Cycle, vars, StartAddingCommunications, StopAddingCommunications,
          SweepKeep, SweepDone, TableToString
  <1> QED
    BY TableInvariance, <1>1, PTL DEF Spec, RecentComsStay

(* A band of at least 10 kHz matches itself: the margin of                 *)
(* findMatchInActiveCommunications, a tenth of the width in an integer, is *)
(* 0 for a narrower one, which matches nothing.                            *)
LEMMA WideBandsMatch ==
  ASSUME NEW b \in Bands, b.end - b.start >= 10, NEW com \in Com,
         com.freqStart = b.start, com.freqEnd = b.end
  PROVE  Matches(com, b.start, b.end)
  <1> DEFINE w == (b.end - b.start) * 10
             h == (b.end - b.start) \div 2
             c == CentralFreq(b.start, b.end)
  <1>1. b.start \in Nat /\ b.end \in Nat /\ b.end - b.start \in Int /\ b.end - b.start >= 10
    BY BandsAssumption
  <1>2. w \in Int /\ w >= 100
    BY <1>1
  <1>3. c \in Int
    <2>1. h \in Int
      BY <1>1, DivMod
    <2>2. c = b.start + h
      BY DEF CentralFreq
    <2> HIDE DEF h, c
    <2> QED
      BY <1>1, <2>1, <2>2
  <1>4. w \div 100 \in Int /\ w \div 100 > 0
    <2> HIDE DEF w
    <2>1. w \div 100 \in Int /\ w % 100 \in 0 .. 99 /\ w = 100 * (w \div 100) + (w % 100)
      BY <1>2, DivMod
    <2> QED
      BY <1>2, <2>1
  <1>5. MaxError(b.start, b.end) = w \div 100
    BY DEF MaxError
  <1>6. CentralFreq(com.freqStart, com.freqEnd) = c
    OBVIOUS
  <1> HIDE DEF w, c
  <1>7. c - c < w \div 100
    BY <1>3, <1>4
  <1> QED
    BY <1>5, <1>6, <1>7 DEF Matches, FuzzyCompare, c

(* For any bands, delays and history of the list: the only bands for which *)
(* a second com is created are the ones narrower than 10 kHz, which        *)
(* findMatchInActiveCommunications cannot match with anything.             *)
THEOREM CreatedComsAreNew == Spec => NewComsAreNew
  <1> DEFINE A == Len(activeComs') > Len(activeComs) =>
                    \A com \in ToSet(activeComs) :
                      SameBand(com, Last(activeComs')) => IsNarrow(com)
  <1>1. ASSUME Inv, [Next]_vars PROVE [A]_activeComs
    <2> SUFFICES ASSUME Len(activeComs') > Len(activeComs), activeComs' # activeComs,
                        NEW com \in ToSet(activeComs),
                        SameBand(com, Last(activeComs'))
                 PROVE  IsNarrow(com)
      OBVIOUS
    <2>1. PICK k \in 1 .. Len(activeComs) : com = activeComs[k]
      BY <1>1, TableValues DEF ToSet
    <2>2. com \in Com
      BY <1>1, <2>1, TableValues
    <2>3. CASE SweepErase
      <3>1. Len(activeComs') = Len(activeComs) - 1 /\ Len(activeComs) \in Nat
        BY <1>1, <2>3, SweptList, TableValues
      <3> QED
        BY <3>1
    <2>4. CASE \E b \in Bands : AddCommunication(b)
      <3>1. PICK b \in Bands : AddCommunication(b)
        BY <2>4
      <3>2. CASE FindMatch(b.start, b.end) # 0
        <4>1. activeComs' = [activeComs EXCEPT ![FindMatch(b.start, b.end)] =
                               Extended(@, b)]
          BY <3>1, <3>2 DEF AddCommunication
        <4>2. Len(activeComs') = Len(activeComs)
          BY <1>1, <4>1, TableValues
        <4> QED
          BY <1>1, <4>2, TableValues
      <3>3. CASE FindMatch(b.start, b.end) = 0
        <4>1. activeComs' = Append(activeComs, NewCom(b)) /\ currentComID < MaxComs
          BY <3>1, <3>3 DEF AddCommunication
        <4>2. Last(activeComs') = NewCom(b)
          BY <1>1, <4>1, AppendedCom DEF Last
        <4>3. ~ Matches(com, b.start, b.end)
          BY <1>1, <2>1, <3>3, FindMatchResult, TableValues
        <4>4. com.freqStart = b.start /\ com.freqEnd = b.end
          BY <4>2 DEF SameBand, NewCom
        <4>5. ~ (b.end - b.start >= 10)
          BY <2>2, <4>3, <4>4, WideBandsMatch
        <4> QED
          BY <4>4, <4>5, BandsAssumption DEF IsNarrow
      <3> QED
        BY <3>2, <3>3
    <2> QED
      BY <1>1, <2>3, <2>4
      DEF Next, Cycle, vars, StartAddingCommunications, StopAddingCommunications,
          SweepKeep, SweepDone, TableToString
  <1> QED
    BY TableInvariance, <1>1, PTL DEF Spec, NewComsAreNew

(* A com leaves toString as finished at most once: its flag is cleared,    *)
(* and no com gets its identifier again.                                   *)
THEOREM ComsAreReportedOnce == Spec => ReportedOnce
  <1> DEFINE A == phase = "reporting" => update'.finished \cap reported = {}
  <1>1. ASSUME Inv, [Next]_vars PROVE [A]_vars
    <2> SUFFICES ASSUME phase = "reporting", vars' # vars
                 PROVE  update'.finished \cap reported = {}
      OBVIOUS
    <2>1. TableToString
      BY <1>1
      DEF Next, Cycle, StartAddingCommunications, StopAddingCommunications,
          SweepKeep, SweepErase, SweepDone, AddCommunication
    <2>2. update'.finished = {Finished!At(p).id : p \in
            {q \in Finished!Positions : Finished!At(q).dirty}}
      BY <1>1, <2>1, ReportedComs
    <2> QED
      BY <1>1, <2>2 DEF Inv, ReportInv
  <1> QED
    BY TableInvariance, <1>1, PTL DEF Spec, ReportedOnce

=============================================================================
