-------------------------- MODULE Transmission_proofs --------------------------
(***************************************************************************)
(* Theorems about the transmitter of module Transmission, for every set of *)
(* messages and plan of them, size of blocks, number of transfers and      *)
(* limit of the heap.                                                      *)
(***************************************************************************)
EXTENDS Transmission, BufferLemmas, SequenceTheorems

Sample == Messages \X Nat \X (Nat \ {0}) \X (Nat \ {0})

Actions == {"GEN_SYMBOL", "REPEAT", "STOP"}
CommandSet == [action : Actions, value : Nat]

(* What passes between the heap, the interpreter and the radio. *)
TransmissionTypes ==
  /\ heap \in Seq(Messages)
  /\ adding \in Messages \cup {None}
  /\ cur \in [msg : Messages \cup {None}, index : Nat, remaining : Nat, repeat : Nat]
  /\ block \in Seq(Sample)
  /\ inFlight \in Seq(Seq(Sample))
  /\ data.exitIn \in -1 .. buffersCount
  /\ filling \in BOOLEAN

(* A block is made for a message. *)
CodeInv ==
  /\ filling => cur # Idle
  /\ cur # Idle => cur.msg \in Messages
  /\ InterpreterStaysInCode

(* The blocks that may still hold samples of a message are the oldest of   *)
(* those in flight: the last ExitAfter - exitIn are empty.                 *)
DrainInv ==
  /\ Len(inFlight) <= buffersCount
  /\ stream # "running" => inFlight = <<>> /\ ~filling
  /\ filling => data.exitIn < 0 /\ Len(inFlight) < buffersCount
  /\ data.exitIn >= 0 =>
       \A i \in 1 .. Len(inFlight) :
         i + (ExitAfter - data.exitIn) > Len(inFlight) => inFlight[i] = Silence

TxInv == TransmissionTypes /\ CodeInv /\ DrainInv

--------------------------------------------------------------------------------
(* The commands of a message.                                              *)

(* The symbols, the repetition if there is one, and the only STOP. *)
LEMMA CommandsProperties ==
  ASSUME NEW m \in Messages
  PROVE  /\ Commands(m) \in Seq(CommandSet)
         /\ Len(Commands(m)) \in Nat \ {0}
         /\ DOMAIN Commands(m) = 1 .. Len(Commands(m))
         /\ \A i \in 1 .. Len(Commands(m)) :
              Commands(m)[i].action = "STOP" <=> i = Len(Commands(m))
         /\ Len(Commands(m)) = Len(Plan[m].symbols) + (IF Plan[m].repeats > 0 THEN 2 ELSE 1)
         /\ \A i \in 1 .. Len(Plan[m].symbols) :
              Commands(m)[i].action = "GEN_SYMBOL" /\ Commands(m)[i].value = Plan[m].symbols[i]
         /\ \A i \in 1 .. Len(Commands(m)) :
              i = Len(Plan[m].symbols) + 1 /\ Plan[m].repeats > 0 =>
                Commands(m)[i].action = "REPEAT" /\ Commands(m)[i].value = Plan[m].repeats
  <1> DEFINE symbols == Plan[m].symbols
             code    == [i \in DOMAIN symbols |->
                           [action |-> "GEN_SYMBOL", value |-> symbols[i]]]
             again   == IF Plan[m].repeats > 0
                          THEN << [action |-> "REPEAT", value |-> Plan[m].repeats] >>
                          ELSE <<>>
             end     == << [action |-> "STOP", value |-> 0] >>
             most    == code \o again
             all     == most \o end
             n       == Len(most)
  <1>1. symbols \in Seq(Nat) /\ Plan[m].repeats \in Nat
    BY PlanAssumption
  <1>2. Len(symbols) \in Nat /\ DOMAIN symbols = 1 .. Len(symbols)
        /\ \A i \in 1 .. Len(symbols) : symbols[i] \in Nat
    BY <1>1, LenProperties, ElementOfSeq
  <1>3. /\ code \in Seq(CommandSet) /\ Len(code) \in Nat
        /\ \A i \in 1 .. Len(code) : code[i].action = "GEN_SYMBOL" /\ code[i].value = symbols[i]
        /\ Len(code) = Len(symbols)
    <2> HIDE DEF symbols
    <2>1. code \in [1 .. Len(symbols) -> CommandSet]
      BY <1>2 DEF CommandSet, Actions
    <2>2. code \in Seq(CommandSet) /\ DOMAIN code = 1 .. Len(code) /\ Len(code) \in Nat
      <3>1. code \in Seq(CommandSet)
        BY <1>2, <2>1, SeqDef
      <3> QED
        BY <3>1, LenProperties
    <2> QED
      BY <2>2
  <1>4. /\ again \in Seq(CommandSet) /\ Len(again) \in Nat
        /\ \A i \in 1 .. Len(again) : again[i].action = "REPEAT" /\ again[i].value = Plan[m].repeats
        /\ Len(again) = IF Plan[m].repeats > 0 THEN 1 ELSE 0
    <2>1. CASE Plan[m].repeats > 0
      <3> DEFINE c == [action |-> "REPEAT", value |-> Plan[m].repeats]
      <3>1. c \in CommandSet /\ c.action = "REPEAT" /\ c.value = Plan[m].repeats
        BY <1>1 DEF CommandSet, Actions
      <3>2. again = <<c>>
        BY <2>1
      <3> HIDE DEF c, again
      <3>3. <<c>> \in Seq(CommandSet) /\ Len(<<c>>) = 1 /\ <<c>>[1] = c
        BY <3>1
      <3> QED
        BY <2>1, <3>1, <3>2, <3>3
    <2>2. CASE ~ (Plan[m].repeats > 0)
      <3>1. again = <<>>
        BY <2>2
      <3> HIDE DEF again
      <3> QED
        BY <2>2, <3>1, EmptySeq
    <2> QED
      BY <2>1, <2>2
  <1>5. end \in Seq(CommandSet) /\ Len(end) = 1 /\ end[1].action = "STOP"
    BY DEF CommandSet, Actions
  <1>6. Commands(m) = all
    BY DEF Commands
  <1> HIDE DEF code, again, end, symbols
  <1>7. /\ most \in Seq(CommandSet)
        /\ n = Len(code) + Len(again)
        /\ \A i \in 1 .. n :
             most[i] = IF i <= Len(code) THEN code[i] ELSE again[i - Len(code)]
    BY <1>3, <1>4, ConcatProperties
  <1>8. n \in Nat
    BY <1>3, <1>4, <1>7
  <1> HIDE DEF most, n
  <1>9. \A i \in 1 .. n : most[i].action # "STOP"
    <2> TAKE i \in 1 .. n
    <2>1. CASE i <= Len(code)
      BY <1>3, <1>4, <1>7, <2>1
    <2>2. CASE ~ (i <= Len(code))
      <3>1. i - Len(code) \in 1 .. Len(again)
        BY <1>3, <1>4, <1>7, <2>2
      <3> QED
        BY <1>4, <1>7, <2>2, <3>1
    <2> QED
      BY <2>1, <2>2
  <1>10. /\ all \in Seq(CommandSet) /\ Len(all) = n + 1
         /\ \A i \in 1 .. n + 1 : all[i] = IF i <= n THEN most[i] ELSE end[i - n]
    <2>1. most \in Seq(CommandSet) /\ end \in Seq(CommandSet)
      BY <1>5, <1>7
    <2>2. /\ all \in Seq(CommandSet)
          /\ Len(all) = n + Len(end)
          /\ \A i \in 1 .. n + Len(end) : all[i] = IF i <= n THEN most[i] ELSE end[i - n]
      BY <2>1, ConcatProperties, Zenon DEF n
    <2> HIDE DEF all
    <2> QED
      BY <1>5, <2>2
  <1> HIDE DEF all
  <1>11. \A i \in 1 .. n + 1 : all[i].action = "STOP" <=> i = n + 1
    <2> TAKE i \in 1 .. n + 1
    <2>1. CASE i <= n
      BY <1>8, <1>9, <1>10, <2>1
    <2>2. CASE ~ (i <= n)
      <3>1. i = n + 1 /\ i - n = 1
        BY <1>8, <2>2
      <3> QED
        BY <1>5, <1>8, <1>10, <2>2, <3>1
    <2> QED
      BY <2>1, <2>2
  <1>16. /\ Len(symbols) \in Nat /\ Len(code) = Len(symbols) /\ n = Len(code) + Len(again)
         /\ Len(again) = IF Plan[m].repeats > 0 THEN 1 ELSE 0
    BY <1>2, <1>3, <1>4, <1>7, Zenon
  <1>12. n + 1 = Len(symbols) + (IF Plan[m].repeats > 0 THEN 2 ELSE 1)
    BY <1>16
  <1>13. ASSUME NEW i \in 1 .. Len(symbols)
         PROVE  all[i].action = "GEN_SYMBOL" /\ all[i].value = symbols[i]
    <2>1. i \in 1 .. n /\ i \in 1 .. n + 1 /\ i <= n /\ i <= Len(code) /\ i \in 1 .. Len(code)
      BY <1>16
    <2>2. all[i] = code[i]
      BY <1>7, <1>10, <2>1
    <2> QED
      BY <1>3, <2>1, <2>2
  <1>14. ASSUME NEW i \in 1 .. n + 1, i = Len(symbols) + 1, Plan[m].repeats > 0
         PROVE  all[i].action = "REPEAT" /\ all[i].value = Plan[m].repeats
    <2>1. /\ i \in 1 .. n /\ i <= n /\ ~ (i <= Len(code)) /\ i - Len(code) = 1
          /\ 1 \in 1 .. Len(again)
      BY <1>14, <1>16
    <2>2. all[i] = again[1]
      BY <1>7, <1>10, <2>1
    <2> QED
      BY <1>4, <2>1, <2>2
  <1>15. all \in Seq(CommandSet) /\ Len(all) = n + 1 /\ DOMAIN all = 1 .. n + 1
    BY <1>10, LenProperties
  <1>17. /\ all \in Seq(CommandSet) /\ Len(all) \in Nat \ {0} /\ DOMAIN all = 1 .. Len(all)
         /\ \A i \in 1 .. Len(all) : all[i].action = "STOP" <=> i = Len(all)
         /\ Len(all) = Len(symbols) + (IF Plan[m].repeats > 0 THEN 2 ELSE 1)
    BY <1>8, <1>11, <1>12, <1>15
  <1>18. \A i \in 1 .. Len(all) : i = Len(symbols) + 1 /\ Plan[m].repeats > 0 =>
            all[i].action = "REPEAT" /\ all[i].value = Plan[m].repeats
    BY <1>14, <1>15
  <1> QED
    BY <1>6, <1>13, <1>17, <1>18, Zenon DEF symbols

(* The values the interpreter depends on. *)
LEMMA InterpreterValues ==
  ASSUME TxInv, filling
  PROVE  /\ cur \in [msg : Messages \cup {None}, index : Nat, remaining : Nat, repeat : Nat]
         /\ cur # Idle /\ cur.msg \in Messages
         /\ cur.index \in 1 .. Len(Commands(cur.msg)) /\ Len(Commands(cur.msg)) \in Nat
         /\ Command \in CommandSet
         /\ Command.action = "STOP" <=> cur.index = Len(Commands(cur.msg))
         /\ cur.remaining > 0 => Command.action = "GEN_SYMBOL" /\ cur.remaining <= Command.value
  <1>1. /\ cur # Idle /\ cur.msg \in Messages
        /\ cur \in [msg : Messages \cup {None}, index : Nat, remaining : Nat, repeat : Nat]
        /\ cur.index \in DOMAIN Commands(cur.msg)
        /\ cur.remaining > 0 => Command.action = "GEN_SYMBOL" /\ cur.remaining <= Command.value
    BY DEF TxInv, CodeInv, TransmissionTypes, InterpreterStaysInCode
  <1>2. /\ Commands(cur.msg) \in Seq(CommandSet)
        /\ Len(Commands(cur.msg)) \in Nat \ {0}
        /\ DOMAIN Commands(cur.msg) = 1 .. Len(Commands(cur.msg))
        /\ \A i \in 1 .. Len(Commands(cur.msg)) :
              Commands(cur.msg)[i].action = "STOP" <=> i = Len(Commands(cur.msg))
    BY <1>1, CommandsProperties
  <1>3. Command \in CommandSet
    BY <1>1, <1>2, ElementOfSeq DEF Command
  <1> QED
    BY <1>1, <1>2, <1>3 DEF Command

--------------------------------------------------------------------------------
(* The steps.                                                              *)

LEMMA TxInit == Init => TxInv
  <1> SUFFICES ASSUME Init PROVE TxInv
    OBVIOUS
  <1>1. /\ heap = <<>> /\ adding = None /\ cur = Idle /\ filling = FALSE /\ block = <<>>
        /\ inFlight = <<>> /\ data.exitIn = -1 /\ stream = "running"
    BY DEF Init
  <1>2. Len(inFlight) = 0 /\ buffersCount \in Nat
    BY <1>1, PlanAssumption DEF buffersCount
  <1>3. TransmissionTypes
    <2>1. heap \in Seq(Messages) /\ block \in Seq(Sample) /\ inFlight \in Seq(Seq(Sample))
      BY <1>1, EmptySeq
    <2>2. cur \in [msg : Messages \cup {None}, index : Nat, remaining : Nat, repeat : Nat]
      BY <1>1 DEF Idle
    <2>3. data.exitIn \in -1 .. buffersCount
      BY <1>1, <1>2
    <2>4. filling \in BOOLEAN /\ adding \in Messages \cup {None}
      BY <1>1
    <2> QED
      BY <2>1, <2>2, <2>3, <2>4 DEF TransmissionTypes
  <1>4. CodeInv
    BY <1>1 DEF CodeInv, InterpreterStaysInCode
  <1>5. DrainInv
    BY <1>1, <1>2 DEF DrainInv
  <1> QED
    BY <1>3, <1>4, <1>5 DEF TxInv

(* A step of the interpreter that leads to another command of the message. *)
LEMMA MoveInCode ==
  ASSUME TxInv, filling,
         NEW i \in 1 .. Len(Commands(cur.msg)), NEW left \in Nat, NEW again \in Nat,
         left > 0 => i = cur.index /\ Command.action = "GEN_SYMBOL" /\ left <= Command.value,
         cur' = [msg |-> cur.msg, index |-> i, remaining |-> left, repeat |-> again],
         block' \in Seq(Sample),
         UNCHANGED <<heap, adding, filling, inFlight, data, stream>>
  PROVE  TxInv'
  <1>1. /\ cur \in [msg : Messages \cup {None}, index : Nat, remaining : Nat, repeat : Nat]
        /\ cur.msg \in Messages /\ Len(Commands(cur.msg)) \in Nat
    BY InterpreterValues
  <1>2. cur'.msg = cur.msg /\ cur'.index = i /\ cur'.remaining = left /\ cur'.repeat = again
    OBVIOUS
  <1>3. cur' # Idle /\ i \in DOMAIN Commands(cur.msg)
    BY <1>1, <1>2, CommandsProperties DEF Idle
  <1>4. TransmissionTypes'
    BY <1>1 DEF TxInv, TransmissionTypes
  <1>5. InterpreterStaysInCode'
    <2>1. left > 0 => Command' = Command
      BY <1>2 DEF Command
    <2> QED
      BY <1>2, <1>3, <2>1 DEF InterpreterStaysInCode
  <1>6. CodeInv'
    BY <1>1, <1>2, <1>3, <1>5 DEF CodeInv
  <1>7. DrainInv'
    BY DEF TxInv, DrainInv
  <1> QED
    BY <1>4, <1>6, <1>7 DEF TxInv

(* getNextSamples goes on in its loop. *)
LEMMA FillStep ==
  ASSUME TxInv, FillBlock, UNCHANGED adding
  PROVE  TxInv'
  <1> DEFINE n == Len(Commands(cur.msg))
  <1>1. /\ filling
        /\ UNCHANGED <<heap, adding, filling, inFlight, data, stream>>
    BY DEF FillBlock, Generate, GenSymbol, Repeat, Filling
  <1>2. /\ cur \in [msg : Messages \cup {None}, index : Nat, remaining : Nat, repeat : Nat]
        /\ cur # Idle /\ cur.msg \in Messages
        /\ cur.index \in 1 .. n /\ n \in Nat
        /\ Command \in CommandSet
        /\ Command.action = "STOP" <=> cur.index = n
        /\ cur.remaining > 0 => Command.action = "GEN_SYMBOL" /\ cur.remaining <= Command.value
    BY <1>1, InterpreterValues
  <1>3. block \in Seq(Sample) /\ BlockSize \in Nat \ {0} /\ Len(block) \in Nat
    BY PlanAssumption, LenProperties DEF TxInv, TransmissionTypes
  <1>4. Command.value \in Nat /\ cur.remaining \in Nat /\ cur.repeat \in Nat
    BY <1>2 DEF CommandSet
  <1>5. Command.action # "STOP" => cur.index + 1 \in 1 .. n
    BY <1>2
  <1> HIDE DEF n
  <1>6. CASE Generate
    <2> DEFINE k    == IF cur.remaining > Room THEN Room ELSE cur.remaining
               left == cur.remaining - k
    <2>1. Room > 0 /\ cur.remaining > 0 /\ Room \in Int
      BY <1>3, <1>6 DEF Generate, Room
    <2>2. /\ block' = block \o Modulated(cur, k)
          /\ cur' = [cur EXCEPT !.remaining = left,
                                !.index = IF left = 0 THEN @ + 1 ELSE @]
      BY <1>6 DEF Generate, LeftAfter
    <2>3. k \in Nat /\ left \in Nat /\ left <= Command.value
      BY <1>2, <1>4, <2>1
    <2> HIDE DEF k, left
    <2>4. Modulated(cur, k) \in Seq(Sample)
      <3> DEFINE at == Command.value - cur.remaining
      <3>1. at \in Nat
        BY <1>2, <1>4, <2>1
      <3>2. Modulated(cur, k) = [j \in 1 .. k |-> <<cur.msg, cur.repeat, cur.index, at + j>>]
        BY DEF Modulated, Command
      <3> HIDE DEF at
      <3>3. \A j \in 1 .. k : <<cur.msg, cur.repeat, cur.index, at + j>> \in Sample
        BY <1>2, <1>4, <3>1 DEF Sample
      <3>4. Modulated(cur, k) \in [1 .. k -> Sample]
        BY <3>2, <3>3
      <3> QED
        BY <2>3, <3>4, SeqDef
    <2>5. block' \in Seq(Sample)
      BY <1>3, <2>2, <2>4, ConcatProperties
    <2> DEFINE i == IF left = 0 THEN cur.index + 1 ELSE cur.index
    <2>6. /\ i \in 1 .. n
          /\ left > 0 => i = cur.index /\ Command.action = "GEN_SYMBOL" /\ left <= Command.value
      BY <1>2, <1>5, <2>1, <2>3
    <2>7. cur' = [msg |-> cur.msg, index |-> i, remaining |-> left, repeat |-> cur.repeat]
      BY <1>2, <2>2
    <2> HIDE DEF i
    <2> QED
      BY <1>1, <1>4, <2>3, <2>5, <2>6, <2>7, MoveInCode DEF n
  <1>7. CASE GenSymbol
    <2> DEFINE i == IF Command.value = 0 THEN cur.index + 1 ELSE cur.index
    <2>1. Command.action = "GEN_SYMBOL" /\ block' = block
      BY <1>7 DEF GenSymbol, Filling
    <2>2. cur' = [msg |-> cur.msg, index |-> i, remaining |-> Command.value,
                  repeat |-> cur.repeat]
      BY <1>2, <1>7 DEF GenSymbol
    <2>3. i \in 1 .. n /\ (Command.value > 0 => i = cur.index)
      BY <1>2, <1>5, <2>1
    <2> HIDE DEF i
    <2> QED
      BY <1>1, <1>3, <1>4, <2>1, <2>2, <2>3, MoveInCode DEF n
  <1>8. CASE Repeat
    <2>1. Command.action = "REPEAT" /\ block' = block /\ cur.remaining = 0
      BY <1>8 DEF Repeat, Filling
    <2>2. CASE cur.repeat < Command.value
      <3>1. cur' = [msg |-> cur.msg, index |-> 1, remaining |-> 0, repeat |-> cur.repeat + 1]
        BY <1>2, <1>8, <2>1, <2>2 DEF Repeat
      <3>2. 1 \in 1 .. n /\ cur.repeat + 1 \in Nat
        BY <1>2, <1>4
      <3> QED
        BY <1>1, <1>3, <2>1, <3>1, <3>2, MoveInCode DEF n
    <2>3. CASE ~ (cur.repeat < Command.value)
      <3>1. cur' = [msg |-> cur.msg, index |-> cur.index + 1, remaining |-> 0,
                    repeat |-> cur.repeat]
        BY <1>2, <1>8, <2>1, <2>3 DEF Repeat
      <3>2. cur.index + 1 \in 1 .. n
        BY <1>5, <2>1
      <3> QED
        BY <1>1, <1>3, <1>4, <2>1, <3>1, <3>2, MoveInCode DEF n
    <2> QED
      BY <2>2, <2>3
  <1> QED
    BY <1>6, <1>7, <1>8 DEF FillBlock

(* A block is given to the radio: one that holds samples while the stream  *)
(* goes on, and an empty one when it is about to end.                      *)
LEMMA GiveStep ==
  ASSUME TxInv, stream = "running", Len(inFlight) < buffersCount,
         NEW b \in Seq(Sample), NEW exitIn \in -1 .. buffersCount, NEW newPhy,
         Give(b, exitIn, newPhy),
         exitIn >= 0 => /\ b = Silence
                        /\ exitIn = (IF data.exitIn < 0 THEN ExitAfter ELSE data.exitIn) - 1,
         UNCHANGED stream, filling' = FALSE
  PROVE  /\ inFlight' \in Seq(Seq(Sample)) /\ data'.exitIn \in -1 .. buffersCount
         /\ DrainInv'
  <1> DEFINE n == Len(inFlight)
  <1>1. inFlight' = Append(inFlight, b) /\ data' = [phy |-> newPhy, exitIn |-> exitIn]
    BY DEF Give
  <1>2. /\ inFlight \in Seq(Seq(Sample)) /\ n \in Nat
        /\ buffersCount \in Nat /\ ExitAfter = buffersCount + 1
        /\ data.exitIn \in -1 .. buffersCount
    BY LenProperties, PlanAssumption
    DEF TxInv, TransmissionTypes, buffersCount, ExitAfter
  <1>3. /\ inFlight' \in Seq(Seq(Sample)) /\ Len(inFlight') = n + 1
        /\ \A i \in 1 .. n : inFlight'[i] = inFlight[i]
        /\ inFlight'[n + 1] = b
    BY <1>1, <1>2, AppendProperties
  <1>4. data'.exitIn = exitIn
    BY <1>1
  <1>5. n < buffersCount
    OBVIOUS
  <1>6. data.exitIn >= 0 =>
           \A i \in 1 .. n : i + (ExitAfter - data.exitIn) > n => inFlight[i] = Silence
    BY DEF TxInv, DrainInv
  <1> HIDE DEF n
  <1>7. ASSUME exitIn >= 0, NEW i \in 1 .. n + 1, i + (ExitAfter - exitIn) > n + 1
        PROVE  inFlight'[i] = Silence
    <2>1. CASE i = n + 1
      BY <1>3, <1>7, <2>1
    <2>2. CASE i # n + 1
      <3>1. i \in 1 .. n
        BY <1>2, <2>2
      <3>2. CASE data.exitIn < 0
        BY <1>2, <1>7, <3>1, <3>2
      <3>3. CASE data.exitIn >= 0
        <4>1. exitIn = data.exitIn - 1
          BY <1>2, <1>7, <3>3
        <4>2. i + (ExitAfter - data.exitIn) > n
          <5>1. /\ i \in Int /\ n \in Int /\ ExitAfter \in Int /\ data.exitIn \in Int
                /\ i + (ExitAfter - (data.exitIn - 1)) > n + 1
            BY <1>2, <1>7, <3>1, <4>1
          <5> QED
            BY <5>1
        <4> QED
          BY <1>3, <1>6, <3>1, <3>3, <4>2
      <3> QED
        BY <1>2, <3>2, <3>3
    <2> QED
      BY <2>1, <2>2
  <1>8. DrainInv'
    <2>1. ExitAfter' = ExitAfter /\ buffersCount' = buffersCount /\ Silence' = Silence
      BY DEF ExitAfter, buffersCount, Silence
    <2>2. Len(inFlight') <= buffersCount
      BY <1>2, <1>3, <1>5
    <2> QED
      BY <1>3, <1>4, <1>7, <2>1, <2>2 DEF DrainInv
  <1> QED
    BY <1>3, <1>4, <1>8

(* The callback of the stream. *)
LEMMA CallbackStep ==
  ASSUME TxInv, Callback
  PROVE  TxInv'
  <1>1. UNCHANGED adding
    BY DEF Callback
  <1>2. /\ TransmissionTypes /\ CodeInv /\ DrainInv
        /\ buffersCount \in Nat /\ ExitAfter = buffersCount + 1
        /\ Silence \in Seq(Sample)
    BY PlanAssumption, EmptySeq DEF TxInv, buffersCount, ExitAfter, Silence
  <1>3. ASSUME Asked PROVE /\ stream = "running" /\ Len(inFlight) < buffersCount /\ ~filling
    BY <1>3 DEF Asked
  <1>4. ASSUME NEW exitIn \in -1 .. buffersCount, NEW newPhy,
               Asked, Give(Silence, exitIn, newPhy),
               exitIn >= 0 =>
                 exitIn = (IF data.exitIn < 0 THEN ExitAfter ELSE data.exitIn) - 1,
               UNCHANGED <<heap, cur, filling, block, stream>>
        PROVE  TxInv'
    <2>1. /\ inFlight' \in Seq(Seq(Sample)) /\ data'.exitIn \in -1 .. buffersCount
          /\ DrainInv'
      BY <1>2, <1>3, <1>4, GiveStep DEF TransmissionTypes
    <2>2. TransmissionTypes'
      BY <1>1, <1>2, <1>4, <2>1 DEF TransmissionTypes, buffersCount
    <2>3. CodeInv'
      BY <1>2, <1>4 DEF CodeInv, InterpreterStaysInCode, Command
    <2> QED
      BY <2>1, <2>2, <2>3 DEF TxInv
  <1>5. CASE HeapRace
    BY <1>1, <1>2, <1>5
    DEF HeapRace, TxInv, TransmissionTypes, CodeInv, InterpreterStaysInCode, Command, DrainInv
  <1>6. CASE NoBlock
    <2>1. data.exitIn \in -1 .. buffersCount /\ ~ (data.exitIn >= 0)
      BY <1>2, <1>6 DEF NoBlock, Consult, TransmissionTypes
    <2> QED
      BY <1>4, <1>6, <2>1 DEF NoBlock, Consult
  <1>7. CASE ChangePhy
    <2>1. data.exitIn < 0 /\ ExitAfter - 1 \in -1 .. buffersCount
      BY <1>2, <1>7 DEF ChangePhy, Consult
    <2> QED
      BY <1>4, <1>7, <2>1 DEF ChangePhy, Consult
  <1>8. CASE BeginBlock
    <2>1. /\ Asked /\ data.exitIn < 0 /\ filling' = TRUE /\ block' = <<>>
          /\ UNCHANGED <<inFlight, data, stream>>
          /\ \/ cur # Idle /\ UNCHANGED <<heap, cur>>
             \/ heap # <<>> /\ cur' = PrepareMessage(Head(heap)) /\ heap' = Tail(heap)
      BY <1>8 DEF BeginBlock, Consult
    <2>2. DrainInv'
      BY <1>2, <1>3, <2>1 DEF DrainInv, TransmissionTypes, ExitAfter, buffersCount
    <2>3. CASE cur # Idle /\ UNCHANGED <<heap, cur>>
      <3>1. TransmissionTypes'
        BY <1>1, <1>2, <2>1, <2>3, EmptySeq DEF TransmissionTypes, buffersCount
      <3>2. CodeInv'
        BY <1>2, <2>1, <2>3 DEF CodeInv, InterpreterStaysInCode, Command
      <3> QED
        BY <2>2, <3>1, <3>2 DEF TxInv
    <2>4. CASE heap # <<>> /\ cur' = PrepareMessage(Head(heap)) /\ heap' = Tail(heap)
      <3>1. Head(heap) \in Messages /\ heap' \in Seq(Messages)
        BY <1>2, <2>4, HeadTailProperties DEF TransmissionTypes
      <3>2. cur' = [msg |-> Head(heap), index |-> 1, remaining |-> 0, repeat |-> 0]
        BY <2>4 DEF PrepareMessage
      <3>3. /\ cur' \in [msg : Messages \cup {None}, index : Nat, remaining : Nat,
                          repeat : Nat]
            /\ cur'.msg \in Messages /\ cur'.index = 1 /\ cur'.remaining = 0
        BY <3>1, <3>2
      <3>4. TransmissionTypes'
        <4>1. block' \in Seq(Sample) /\ filling' \in BOOLEAN
          BY <2>1, EmptySeq
        <4> QED
          BY <1>1, <1>2, <2>1, <3>1, <3>3, <4>1 DEF TransmissionTypes, buffersCount
      <3>5. cur' # Idle
        BY <3>3 DEF Idle
      <3>6. 1 \in DOMAIN Commands(cur'.msg)
        <4>1. \A m \in Messages : 1 \in DOMAIN Commands(m)
          <5> TAKE m \in Messages
          <5>1. /\ Len(Commands(m)) \in Nat \ {0}
                /\ DOMAIN Commands(m) = 1 .. Len(Commands(m))
            BY CommandsProperties
          <5> QED
            BY <5>1
        <4> QED
          BY <3>3, <4>1
      <3>7. InterpreterStaysInCode'
        BY <3>3, <3>6 DEF InterpreterStaysInCode
      <3>8. CodeInv'
        BY <3>3, <3>5, <3>7 DEF CodeInv
      <3> QED
        BY <2>2, <3>4, <3>8 DEF TxInv
    <2> QED
      BY <2>1, <2>3, <2>4
  <1>9. CASE FillBlock
    BY <1>1, <1>9, FillStep
  <1>10. CASE EndBlock
    <2>1. /\ filling /\ filling' = FALSE /\ block' = <<>>
          /\ Give(block, data.exitIn, data.phy)
          /\ cur' = Idle \/ cur' = cur
          /\ UNCHANGED <<heap, stream>>
      BY <1>10 DEF EndBlock
    <2>2. /\ stream = "running" /\ Len(inFlight) < buffersCount /\ data.exitIn < 0
          /\ data.exitIn \in -1 .. buffersCount /\ block \in Seq(Sample)
      BY <1>2, <2>1 DEF DrainInv, TransmissionTypes
    <2>3. ~ (data.exitIn >= 0)
      BY <1>2, <2>2
    <2>4. /\ inFlight' \in Seq(Seq(Sample)) /\ data'.exitIn \in -1 .. buffersCount
          /\ DrainInv'
      BY <2>1, <2>2, <2>3, GiveStep
    <2>5. cur' \in [msg : Messages \cup {None}, index : Nat, remaining : Nat, repeat : Nat]
      BY <1>2, <2>1 DEF TransmissionTypes, Idle
    <2>6. TransmissionTypes'
      <3>1. block' \in Seq(Sample) /\ filling' \in BOOLEAN
        BY <2>1, EmptySeq
      <3> QED
        BY <1>1, <1>2, <2>1, <2>4, <2>5, <3>1 DEF TransmissionTypes, buffersCount
    <2>7. CodeInv'
      BY <1>2, <2>1 DEF CodeInv, InterpreterStaysInCode, Command
    <2> QED
      BY <2>4, <2>6, <2>7 DEF TxInv
  <1>11. CASE RefusedBlock
    <2>1. data.exitIn < 0 /\ ExitAfter - 1 \in -1 .. buffersCount
      BY <1>2, <1>11 DEF RefusedBlock
    <2> QED
      BY <1>4, <1>11, <2>1 DEF RefusedBlock
  <1>12. CASE DrainingBlock
    <2>1. data.exitIn > 0 /\ data.exitIn \in -1 .. buffersCount
      BY <1>2, <1>12 DEF DrainingBlock, TransmissionTypes
    <2>2. data.exitIn - 1 \in -1 .. buffersCount /\ ~ (data.exitIn < 0)
      BY <1>2, <2>1
    <2> QED
      BY <1>4, <1>12, <2>2 DEF DrainingBlock
  <1>13. CASE EndStream
    <2>1. /\ ~filling /\ inFlight' = <<>> /\ UNCHANGED <<heap, cur, filling, block, data>>
      BY <1>13 DEF EndStream, Asked
    <2>2. inFlight' \in Seq(Seq(Sample)) /\ Len(inFlight') = 0
      BY <2>1, EmptySeq
    <2>3. TransmissionTypes'
      BY <1>1, <1>2, <2>1, <2>2 DEF TransmissionTypes, buffersCount
    <2>4. CodeInv'
      BY <1>2, <2>1 DEF CodeInv, InterpreterStaysInCode, Command
    <2>5. DrainInv'
      BY <1>2, <2>1, <2>2 DEF DrainInv, buffersCount
    <2> QED
      BY <2>3, <2>4, <2>5 DEF TxInv
  <1> QED
    BY <1>5, <1>6, <1>7, <1>8, <1>9, <1>10, <1>11, <1>12, <1>13 DEF Callback

(* The radio, the thread of the stream and main. *)
LEMMA ThreadsStep ==
  ASSUME TxInv,
         \/ Transmit \/ StreamError \/ RestartStream \/ SetPhyFails \/ EndAddMessage
         \/ Signal \/ \E m \in Messages : BeginAddMessage(m)
  PROVE  TxInv'
  <1>1. UNCHANGED <<cur, filling, block>>
    BY DEF Transmit, StreamError, RestartStream, SetPhyFails, EndAddMessage, Signal,
           BeginAddMessage
  <1>2. /\ TransmissionTypes /\ CodeInv /\ DrainInv
        /\ buffersCount \in Nat \ {0} /\ ExitAfter = buffersCount + 1
        /\ inFlight \in Seq(Seq(Sample)) /\ Len(inFlight) \in Nat
    BY PlanAssumption, LenProperties DEF TxInv, buffersCount, ExitAfter, TransmissionTypes
  <1>3. CodeInv'
    BY <1>1, <1>2 DEF CodeInv, InterpreterStaysInCode, Command
  <1>4. CASE Transmit
    <2>1. /\ stream = "running" /\ Len(inFlight) = buffersCount /\ inFlight' = Tail(inFlight)
          /\ UNCHANGED <<heap, adding, data, stream>>
      BY <1>4 DEF Transmit
    <2>2. inFlight # <<>>
      BY <1>2, <2>1, EmptySeq
    <2>3. /\ inFlight' \in Seq(Seq(Sample))
          /\ Len(inFlight') = Len(inFlight) - 1
          /\ \A i \in 1 .. Len(inFlight') : inFlight'[i] = inFlight[i + 1]
      BY <1>2, <2>1, <2>2, HeadTailProperties
    <2>4. TransmissionTypes'
      BY <1>1, <1>2, <2>1, <2>3 DEF TransmissionTypes, buffersCount
    <2>5. ASSUME data.exitIn >= 0, NEW i \in 1 .. Len(inFlight'),
                 i + (ExitAfter - data.exitIn) > Len(inFlight')
          PROVE  inFlight'[i] = Silence
      <3>1. i + 1 \in 1 .. Len(inFlight) /\ data.exitIn \in Int
        <4>1. data.exitIn \in Int
          BY <1>2 DEF TransmissionTypes
        <4>2. i \in 1 .. Len(inFlight) - 1
          BY <2>3, <2>5
        <4> QED
          BY <1>2, <4>1, <4>2
      <3>2. i + 1 + (ExitAfter - data.exitIn) > Len(inFlight)
        <4>1. /\ i \in Int /\ Len(inFlight) \in Int /\ ExitAfter \in Int /\ data.exitIn \in Int
              /\ i + (ExitAfter - data.exitIn) > Len(inFlight) - 1
          BY <1>2, <2>3, <2>5, <3>1
        <4> QED
          BY <4>1
      <3>3. inFlight[i + 1] = Silence
        BY <1>2, <2>5, <3>1, <3>2 DEF DrainInv
      <3> QED
        BY <2>3, <3>3
    <2>6. Len(inFlight') < buffersCount
      BY <1>2, <2>1, <2>3
    <2>7. DrainInv'
      <3>1. ExitAfter' = ExitAfter /\ buffersCount' = buffersCount /\ Silence' = Silence
        BY DEF ExitAfter, buffersCount, Silence
      <3> QED
        BY <1>1, <1>2, <2>1, <2>3, <2>5, <2>6, <3>1 DEF DrainInv
    <2> QED
      BY <1>3, <2>4, <2>7 DEF TxInv
  <1>5. CASE StreamError
    <2>1. ~filling /\ inFlight' = <<>> /\ UNCHANGED <<heap, adding, data>>
      BY <1>5 DEF StreamError
    <2>2. inFlight' \in Seq(Seq(Sample)) /\ Len(inFlight') = 0
      BY <2>1, EmptySeq
    <2>3. TransmissionTypes'
      BY <1>1, <1>2, <2>1, <2>2 DEF TransmissionTypes, buffersCount
    <2>4. DrainInv'
      BY <1>1, <1>2, <2>1, <2>2 DEF DrainInv, buffersCount
    <2> QED
      BY <1>3, <2>3, <2>4 DEF TxInv
  <1>6. CASE RestartStream
    <2>1. /\ stream # "running" /\ stream' = "running" /\ data' = [phy |-> phy, exitIn |-> -1]
          /\ UNCHANGED <<heap, adding, inFlight>>
      BY <1>6 DEF RestartStream
    <2>2. data'.exitIn = -1 /\ -1 \in -1 .. buffersCount
      BY <1>2, <2>1
    <2>3. TransmissionTypes'
      BY <1>1, <1>2, <2>1, <2>2 DEF TransmissionTypes, buffersCount
    <2>4. DrainInv'
      BY <1>1, <1>2, <2>1, <2>2 DEF DrainInv, buffersCount
    <2> QED
      BY <1>3, <2>3, <2>4 DEF TxInv
  <1>7. CASE EndAddMessage \/ Signal \/ \E m \in Messages : BeginAddMessage(m)
    <2>1. UNCHANGED <<inFlight, data, stream>>
      BY <1>7 DEF EndAddMessage, Signal, BeginAddMessage
    <2>2. heap' \in Seq(Messages) /\ adding' \in Messages \cup {None}
      <3>1. CASE EndAddMessage
        <4>1. adding \in Messages /\ heap \in Seq(Messages)
          BY <1>2, <3>1 DEF EndAddMessage, TransmissionTypes
        <4> QED
          BY <3>1, <4>1, AppendProperties DEF EndAddMessage
      <3>2. CASE Signal \/ \E m \in Messages : BeginAddMessage(m)
        BY <1>2, <3>2 DEF Signal, BeginAddMessage, TransmissionTypes
      <3> QED
        BY <1>7, <3>1, <3>2
    <2>3. TransmissionTypes'
      BY <1>1, <1>2, <2>1, <2>2 DEF TransmissionTypes, buffersCount
    <2>4. DrainInv'
      BY <1>1, <1>2, <2>1 DEF DrainInv, buffersCount, ExitAfter
    <2> QED
      BY <1>3, <2>3, <2>4 DEF TxInv
  <1>8. CASE SetPhyFails
    <2>1. stream # "running" /\ UNCHANGED <<heap, adding, inFlight, data>>
      BY <1>8 DEF SetPhyFails
    <2>2. TransmissionTypes'
      BY <1>1, <1>2, <2>1 DEF TransmissionTypes, buffersCount
    <2>3. DrainInv'
      BY <1>1, <1>2, <2>1 DEF DrainInv, buffersCount, ExitAfter
    <2> QED
      BY <1>3, <2>2, <2>3 DEF TxInv
  <1> QED
    BY <1>4, <1>5, <1>6, <1>7, <1>8

LEMMA TxStutter ==
  ASSUME TxInv, UNCHANGED txVars
  PROVE  TxInv'
  BY DEF txVars, TxInv, TransmissionTypes, CodeInv, InterpreterStaysInCode, Command, DrainInv,
         buffersCount, ExitAfter

(* The invariant holds of every message, block and stream. *)
THEOREM TransmissionInvariance == Spec => []TxInv
  <1>1. TxInv /\ [Next]_txVars => TxInv'
    <2> SUFFICES ASSUME TxInv, [Next]_txVars PROVE TxInv'
      OBVIOUS
    <2>1. CASE Next
      BY <2>1, CallbackStep, ThreadsStep DEF Next
    <2>2. CASE UNCHANGED txVars
      BY <2>2, TxStutter
    <2> QED
      BY <2>1, <2>2
  <1> QED
    BY TxInit, <1>1, PTL DEF Spec

--------------------------------------------------------------------------------
(* The properties of the runs.                                             *)

(* getNextSamples stays within the commands of its message wherever blocks *)
(* end: each of its rounds executes a command endMessage pushed.           *)
THEOREM TheInterpreterStaysInCode == Spec => []InterpreterStaysInCode
  <1>1. TxInv => InterpreterStaysInCode
    BY DEF TxInv, CodeInv
  <1> QED
    BY TransmissionInvariance, <1>1, PTL

(* bladerf_TX_cb gives one empty block more than the library has buffers   *)
(* before it ends the stream, so all it still has in flight is empty: a    *)
(* change of frequency or the signal never cuts a message.                 *)
THEOREM StreamsAreDrained == Spec => DrainedBeforeStop
  <1> DEFINE A == stream = "running" /\ stream' = "stopped" =>
                    \A i \in DOMAIN inFlight : inFlight[i] = Silence
  <1>1. ASSUME TxInv, [Next]_txVars PROVE [A]_txVars
    <2> SUFFICES ASSUME stream = "running", stream' = "stopped"
                 PROVE  \A i \in DOMAIN inFlight : inFlight[i] = Silence
      OBVIOUS
    <2>1. EndStream
      BY <1>1
      DEF Next, Callback, HeapRace, NoBlock, ChangePhy, BeginBlock, FillBlock, EndBlock,
          RefusedBlock, DrainingBlock, Transmit, StreamError, RestartStream, SetPhyFails,
          BeginAddMessage, EndAddMessage, Signal, txVars
    <2>2. data.exitIn = 0
      BY <2>1 DEF EndStream
    <2>3. /\ buffersCount \in Nat /\ ExitAfter = buffersCount + 1
          /\ Len(inFlight) \in Nat /\ DOMAIN inFlight = 1 .. Len(inFlight)
          /\ Len(inFlight) <= buffersCount
      BY <1>1, PlanAssumption, LenProperties
      DEF TxInv, DrainInv, buffersCount, ExitAfter, TransmissionTypes
    <2>4. \A i \in 1 .. Len(inFlight) : i + (ExitAfter - data.exitIn) > Len(inFlight)
      BY <2>2, <2>3
    <2> QED
      BY <1>1, <2>2, <2>3, <2>4 DEF TxInv, DrainInv
  <1> QED
    BY TransmissionInvariance, <1>1, PTL DEF Spec, DrainedBeforeStop

--------------------------------------------------------------------------------
(* The invariant of the messages.                                          *)

(* What has been made of the message of interpreter c: the repetitions     *)
(* that are over, the symbols of this one, and a part of a symbol.         *)
Symbols(m, r) == [i \in DOMAIN Plan[m].symbols |-> Symbol(m, r, i)]
Times(m) == [r \in 1 .. Plan[m].repeats + 1 |-> Once(m, r - 1)]

Repeated(m, r) == FlattenSeq(FirstOf(Times(m), r))

Before(m, r, i) ==
  FlattenSeq(FirstOf(Symbols(m, r), IF i - 1 <= Len(Plan[m].symbols) THEN i - 1
                                    ELSE Len(Plan[m].symbols)))

SinceStart(c) ==
  IF c.remaining > 0 THEN Plan[c.msg].symbols[c.index] - c.remaining ELSE 0

Begun(c) == [k \in 1 .. SinceStart(c) |-> <<c.msg, c.repeat, c.index, k>>]

Made(c) == (Repeated(c.msg, c.repeat) \o Before(c.msg, c.repeat, c.index)) \o Begun(c)

(* The messages next_block took from the heap, and all of the first k      *)
(* messages.                                                               *)
Taken == Len(accepted) - Len(heap)

Sent(a, k) == FlattenSeq([i \in 1 .. k |-> Samples(a[i])])

(* The heap holds the last messages that were accepted; the one that is    *)
(* sent was accepted before them.                                          *)
HeapInv ==
  /\ accepted \in Seq(Messages)
  /\ Len(heap) <= Len(accepted)
  /\ \A i \in 1 .. Len(heap) : heap[i] = accepted[Taken + i]
  /\ cur # Idle => Taken >= 1 /\ accepted[Taken] = cur.msg

(* The interpreter ends a message after its last repetition only, and none *)
(* is interrupted when the frequency changes.                              *)
RepeatInv ==
  cur # Idle => /\ cur.repeat <= Plan[cur.msg].repeats
                /\ Command.action = "STOP" => cur.repeat = Plan[cur.msg].repeats
DrainedIdle == data.exitIn >= 0 /\ ~stop => cur = Idle

(* What was given, with what is in the block, is the messages taken before *)
(* and what was made of this one.                                          *)
StreamInv ==
  /\ out \in Seq(Sample \cup {Gap})
  /\ ~filling => block = <<>>
  /\ WithoutGaps(out) \o block = IF cur = Idle THEN Sent(accepted, Taken)
                                   ELSE Sent(accepted, Taken - 1) \o Made(cur)

(* Silence comes after the end of a message, or for ever.                  *)
Closed(s) == s = Last(Samples(s[1]))
GapsAre(s, open) ==
  \A i \in 2 .. Len(s) : s[i] = Gap => Closed(s[i - 1]) \/ (i = Len(s) /\ open)
GapInv == GapsAre(out, stop /\ ~filling)

SentInv == HeapInv /\ RepeatInv /\ DrainedIdle /\ StreamInv /\ GapInv

--------------------------------------------------------------------------------
(* The samples of a message.                                               *)

OfMessage(m) == {m} \X Nat \X (Nat \ {0}) \X (Nat \ {0})

(* What a plan says of a message. *)
LEMMA PlanFacts ==
  ASSUME NEW m \in Messages
  PROVE  /\ Plan[m].symbols \in Seq(Nat) /\ Plan[m].repeats \in Nat
         /\ Len(Plan[m].symbols) \in Nat
         /\ DOMAIN Plan[m].symbols = 1 .. Len(Plan[m].symbols)
         /\ \A i \in 1 .. Len(Plan[m].symbols) : Plan[m].symbols[i] \in Nat
         /\ OfMessage(m) \subseteq Sample
  <1>1. Plan[m].symbols \in Seq(Nat) /\ Plan[m].repeats \in Nat
    BY PlanAssumption
  <1>2. /\ Len(Plan[m].symbols) \in Nat
        /\ DOMAIN Plan[m].symbols = 1 .. Len(Plan[m].symbols)
        /\ \A i \in 1 .. Len(Plan[m].symbols) : Plan[m].symbols[i] \in Nat
    BY <1>1, LenProperties, ElementOfSeq
  <1> QED
    BY <1>1, <1>2 DEF OfMessage, Sample

(* The symbols of a repetition are sequences of samples of the message. *)
LEMMA SymbolsType ==
  ASSUME NEW m \in Messages, NEW r \in Nat
  PROVE  /\ Symbols(m, r) \in Seq(Seq(OfMessage(m)))
         /\ Len(Symbols(m, r)) = Len(Plan[m].symbols)
         /\ \A i \in 1 .. Len(Plan[m].symbols) :
              /\ Symbols(m, r)[i] = Symbol(m, r, i)
              /\ Symbol(m, r, i) \in Seq(OfMessage(m))
         /\ Once(m, r) = FlattenSeq(Symbols(m, r))
         /\ Once(m, r) \in Seq(OfMessage(m))
  <1> DEFINE n == Len(Plan[m].symbols)
  <1>1. /\ n \in Nat /\ DOMAIN Plan[m].symbols = 1 .. n
        /\ \A i \in 1 .. n : Plan[m].symbols[i] \in Nat
    BY PlanFacts
  <1>2. Symbols(m, r) = [i \in 1 .. n |-> Symbol(m, r, i)]
    BY <1>1 DEF Symbols
  <1> HIDE DEF n
  <1>3. ASSUME NEW i \in 1 .. n PROVE Symbol(m, r, i) \in Seq(OfMessage(m))
    <2>1. PICK l \in Nat : l = Plan[m].symbols[i]
      BY <1>1
    <2>2. Symbol(m, r, i) = [k \in 1 .. l |-> <<m, r, i, k>>]
      BY <2>1 DEF Symbol
    <2>3. \A k \in 1 .. l : <<m, r, i, k>> \in OfMessage(m)
      BY <1>1 DEF OfMessage
    <2>4. Symbol(m, r, i) \in [1 .. l -> OfMessage(m)]
      BY <2>2, <2>3
    <2> QED
      BY <2>4, SeqDef
  <1>4. Symbols(m, r) \in [1 .. n -> Seq(OfMessage(m))]
    BY <1>2, <1>3
  <1>5. Symbols(m, r) \in Seq(Seq(OfMessage(m)))
    BY <1>1, <1>4, SeqDef
  <1>6. Len(Symbols(m, r)) = n
    BY <1>1, <1>4, <1>5, LenProperties
  <1>7. Once(m, r) = FlattenSeq(Symbols(m, r))
    BY DEF Once, Symbols
  <1>8. Once(m, r) \in Seq(OfMessage(m))
    BY <1>5, <1>7, FlattenType
  <1> QED
    BY <1>2, <1>3, <1>5, <1>6, <1>7, <1>8 DEF n

(* A message is the sequence of its repetitions. *)
LEMMA TimesType ==
  ASSUME NEW m \in Messages
  PROVE  /\ Times(m) \in Seq(Seq(OfMessage(m)))
         /\ Len(Times(m)) = Plan[m].repeats + 1
         /\ \A r \in 1 .. Plan[m].repeats + 1 : Times(m)[r] = Once(m, r - 1)
         /\ Samples(m) = FlattenSeq(Times(m))
         /\ Samples(m) \in Seq(OfMessage(m))
  <1> DEFINE n == Plan[m].repeats + 1
  <1>1. n \in Nat
    BY PlanFacts
  <1>2. Times(m) = [r \in 1 .. n |-> Once(m, r - 1)]
    BY DEF Times
  <1> HIDE DEF n
  <1>3. ASSUME NEW r \in 1 .. n PROVE Once(m, r - 1) \in Seq(OfMessage(m))
    <2>1. r - 1 \in Nat
      BY <1>1
    <2> QED
      BY <2>1, SymbolsType
  <1>4. Times(m) \in [1 .. n -> Seq(OfMessage(m))]
    BY <1>2, <1>3
  <1>5. Times(m) \in Seq(Seq(OfMessage(m)))
    BY <1>1, <1>4, SeqDef
  <1>6. Len(Times(m)) = n
    BY <1>1, <1>4, <1>5, LenProperties
  <1>7. Samples(m) = FlattenSeq(Times(m))
    BY DEF Samples, Times
  <1>8. Samples(m) \in Seq(OfMessage(m))
    BY <1>5, <1>7, FlattenType
  <1> QED
    BY <1>2, <1>5, <1>6, <1>7, <1>8 DEF n

(* One repetition after the others.                                        *)
LEMMA RepeatedNext ==
  ASSUME NEW m \in Messages, NEW r \in 0 .. Plan[m].repeats
  PROVE  /\ Repeated(m, r) \in Seq(Sample) /\ Once(m, r) \in Seq(Sample)
         /\ Repeated(m, r + 1) = Repeated(m, r) \o Once(m, r)
  <1>1. /\ Plan[m].repeats \in Nat /\ r \in Nat /\ r \in 0 .. Plan[m].repeats + 1
        /\ r + 1 \in 0 .. Plan[m].repeats + 1 /\ r + 1 \in 1 .. Plan[m].repeats + 1
        /\ r \in 0 .. r + 1 /\ r + 1 - 1 = r
    BY PlanFacts
  <1>2. PICK TT \in Seq(Seq(OfMessage(m))) : TT = FirstOf(Times(m), r + 1)
    BY <1>1, TimesType, FirstOfProperties
  <1>3. Len(TT) = r + 1 /\ FirstOf(TT, r) = FirstOf(Times(m), r)
    BY <1>1, <1>2, TimesType, FirstOfProperties
  <1>4. TT[r + 1] = Once(m, r)
    <2>1. PICK i \in 1 .. Plan[m].repeats + 1 : i = r + 1
      BY <1>1
    <2>2. TT[i] = Times(m)[i]
      BY <1>1, <1>2, <2>1 DEF FirstOf
    <2>3. i - 1 = r
      BY <1>1, <2>1
    <2> QED
      BY <2>1, <2>2, <2>3, TimesType
  <1>5. /\ FlattenSeq(FirstOf(TT, r)) \in Seq(OfMessage(m))
        /\ TT[r + 1] \in Seq(OfMessage(m))
        /\ FlattenSeq(TT) = FlattenSeq(FirstOf(TT, r)) \o TT[r + 1]
    BY <1>1, <1>3, FlattenNext
  <1>6. Repeated(m, r) \in Seq(Sample) /\ Once(m, r) \in Seq(Sample)
    BY <1>3, <1>4, <1>5, PlanFacts, SeqMonotonic DEF Repeated
  <1> QED
    BY <1>2, <1>3, <1>4, <1>5, <1>6 DEF Repeated

(* No repetition is over at first, and all of them in the end. *)
LEMMA RepeatedEnds ==
  ASSUME NEW m \in Messages
  PROVE  /\ Repeated(m, 0) = <<>>
         /\ Repeated(m, Plan[m].repeats + 1) = Samples(m)
         /\ Samples(m) \in Seq(Sample)
  <1>1. FirstOf(Times(m), Plan[m].repeats + 1) = Times(m) /\ FirstOf(Times(m), 0) = <<>>
    BY TimesType, FirstOfAll
  <1>2. Samples(m) \in Seq(Sample)
    BY TimesType, PlanFacts, SeqMonotonic
  <1> QED
    BY <1>1, <1>2, TimesType, FlattenEmpty DEF Repeated

(* One symbol after the others.                                            *)
LEMMA BeforeNext ==
  ASSUME NEW m \in Messages, NEW r \in Nat, NEW i \in 1 .. Len(Plan[m].symbols)
  PROVE  /\ Before(m, r, i) \in Seq(Sample) /\ Symbol(m, r, i) \in Seq(Sample)
         /\ Before(m, r, i + 1) = Before(m, r, i) \o Symbol(m, r, i)
  <1> DEFINE n == Len(Plan[m].symbols)
  <1>1. n \in Nat
    BY PlanFacts
  <1>2. PICK j \in Nat : i = j + 1 /\ j \in 0 .. n /\ j + 1 \in 0 .. n /\ j \in 0 .. j + 1
                         /\ i - 1 = j /\ i + 1 - 1 = j + 1 /\ j <= n /\ j + 1 <= n
    <2>1. i - 1 \in Nat /\ i = (i - 1) + 1 /\ i - 1 <= n /\ i <= n
      BY <1>1
    <2>2. PICK j \in Nat : j = i - 1
      BY <2>1
    <2> QED
      BY <1>1, <2>1, <2>2
  <1>3. Before(m, r, i) = FlattenSeq(FirstOf(Symbols(m, r), j))
    BY <1>2 DEF Before
  <1>4. Before(m, r, i + 1) = FlattenSeq(FirstOf(Symbols(m, r), j + 1))
    BY <1>2 DEF Before
  <1>5. PICK TT \in Seq(Seq(OfMessage(m))) : TT = FirstOf(Symbols(m, r), j + 1)
    BY <1>2, SymbolsType, FirstOfProperties
  <1>6. Len(TT) = j + 1 /\ FirstOf(TT, j) = FirstOf(Symbols(m, r), j)
    BY <1>2, <1>5, SymbolsType, FirstOfProperties
  <1>7. TT[i] = Symbol(m, r, i)
    <2>1. i \in 1 .. j + 1
      BY <1>2
    <2>2. TT[i] = Symbols(m, r)[i]
      BY <1>5, <2>1 DEF FirstOf
    <2> QED
      BY <2>2, SymbolsType
  <1>8. /\ FlattenSeq(FirstOf(TT, j)) \in Seq(OfMessage(m))
        /\ TT[j + 1] \in Seq(OfMessage(m))
        /\ FlattenSeq(TT) = FlattenSeq(FirstOf(TT, j)) \o TT[j + 1]
    BY <1>2, <1>6, FlattenNext
  <1>9. Before(m, r, i) \in Seq(Sample) /\ Symbol(m, r, i) \in Seq(Sample)
    BY <1>2, <1>3, <1>6, <1>7, <1>8, PlanFacts, SeqMonotonic
  <1> QED
    BY <1>2, <1>3, <1>4, <1>5, <1>6, <1>7, <1>8, <1>9

(* No symbol is over at first, and all of them after the last one. *)
LEMMA BeforeEnds ==
  ASSUME NEW m \in Messages, NEW r \in Nat
  PROVE  /\ Before(m, r, 1) = <<>>
         /\ \A i \in Nat : i > Len(Plan[m].symbols) => Before(m, r, i) = Once(m, r)
  <1> DEFINE n == Len(Plan[m].symbols)
  <1>1. n \in Nat
    BY PlanFacts
  <1>2. FirstOf(Symbols(m, r), n) = Symbols(m, r) /\ FirstOf(Symbols(m, r), 0) = <<>>
    BY SymbolsType, FirstOfAll
  <1>3. Before(m, r, 1) = <<>>
    <2>1. 1 - 1 <= n /\ 1 - 1 = 0
      BY <1>1
    <2> QED
      BY <1>2, <2>1, FlattenEmpty DEF Before
  <1>4. ASSUME NEW i \in Nat, i > n PROVE Before(m, r, i) = Once(m, r)
    <2>1. (IF i - 1 <= n THEN i - 1 ELSE n) = n
      BY <1>1, <1>4
    <2>2. Before(m, r, i) = FlattenSeq(FirstOf(Symbols(m, r), n))
      BY <2>1 DEF Before
    <2> QED
      BY <1>2, <2>2, SymbolsType
  <1> QED
    BY <1>3, <1>4

(* What can be known of a message that is being sent.                      *)
Position(c) ==
  /\ c \in [msg : Messages, index : Nat \ {0}, remaining : Nat, repeat : Nat]
  /\ c.repeat <= Plan[c.msg].repeats
  /\ c.remaining > 0 => /\ c.index <= Len(Plan[c.msg].symbols)
                        /\ c.remaining <= Plan[c.msg].symbols[c.index]

(* The parts of what was made of a message are samples. *)
LEMMA MadeType ==
  ASSUME NEW c, Position(c)
  PROVE  /\ Repeated(c.msg, c.repeat) \in Seq(Sample)
         /\ Before(c.msg, c.repeat, c.index) \in Seq(Sample)
         /\ Begun(c) \in Seq(Sample)
         /\ SinceStart(c) \in Nat /\ (SinceStart(c) = 0 => Begun(c) = <<>>)
         /\ c.remaining = 0 => Begun(c) = <<>>
         /\ Made(c) \in Seq(Sample)
  <1>1. /\ c.msg \in Messages /\ c.index \in Nat \ {0} /\ c.remaining \in Nat
        /\ c.repeat \in 0 .. Plan[c.msg].repeats /\ c.repeat \in Nat
    BY PlanFacts DEF Position
  <1>2. Repeated(c.msg, c.repeat) \in Seq(Sample) /\ Once(c.msg, c.repeat) \in Seq(Sample)
    BY <1>1, RepeatedNext
  <1>3. Before(c.msg, c.repeat, c.index) \in Seq(Sample)
    <2>1. CASE c.index <= Len(Plan[c.msg].symbols)
      <3>1. c.index \in 1 .. Len(Plan[c.msg].symbols)
        BY <1>1, <2>1, PlanFacts
      <3> QED
        BY <1>1, <3>1, BeforeNext
    <2>2. CASE ~ (c.index <= Len(Plan[c.msg].symbols))
      <3>1. c.index > Len(Plan[c.msg].symbols)
        BY <1>1, <2>2, PlanFacts
      <3> QED
        BY <1>1, <1>2, <3>1, BeforeEnds
    <2> QED
      BY <2>1, <2>2
  <1>4. /\ Begun(c) \in Seq(Sample) /\ (c.remaining = 0 => Begun(c) = <<>>)
        /\ SinceStart(c) \in Nat /\ (SinceStart(c) = 0 => Begun(c) = <<>>)
    <2>1. SinceStart(c) \in Nat /\ (c.remaining = 0 => SinceStart(c) = 0)
      <3>1. CASE c.remaining > 0
        <4>1. c.index \in 1 .. Len(Plan[c.msg].symbols)
          BY <1>1, <3>1, PlanFacts DEF Position
        <4>2. Plan[c.msg].symbols[c.index] \in Nat
          BY <1>1, <4>1, PlanFacts
        <4> QED
          BY <1>1, <3>1, <4>2 DEF Position, SinceStart
      <3>2. CASE ~ (c.remaining > 0)
        BY <1>1, <3>2 DEF SinceStart
      <3> QED
        BY <3>1, <3>2
    <2>2. PICK l \in Nat : l = SinceStart(c)
      BY <2>1
    <2>3. Begun(c) = [k \in 1 .. l |-> <<c.msg, c.repeat, c.index, k>>]
      BY <2>2 DEF Begun
    <2>4. \A k \in 1 .. l : <<c.msg, c.repeat, c.index, k>> \in Sample
      BY <1>1 DEF Sample
    <2>5. Begun(c) \in [1 .. l -> Sample]
      BY <2>3, <2>4
    <2>6. Begun(c) \in Seq(Sample)
      BY <2>5, SeqDef
    <2>7. ASSUME SinceStart(c) = 0 PROVE Begun(c) = <<>>
      <3>1. Len(Begun(c)) = 0
        BY <2>2, <2>5, <2>6, <2>7, LenProperties
      <3> QED
        BY <2>6, <3>1, EmptySeq
    <2> QED
      BY <2>1, <2>6, <2>7
  <1>5. Made(c) \in Seq(Sample)
    BY <1>2, <1>3, <1>4, ConcatProperties DEF Made
  <1> QED
    BY <1>2, <1>3, <1>4, <1>5

(* Nothing has been made of a message that was only taken from the heap.   *)
LEMMA NothingMade ==
  ASSUME NEW m \in Messages
  PROVE  Position(PrepareMessage(m)) /\ Made(PrepareMessage(m)) = <<>>
  <1> DEFINE c == [msg |-> m, index |-> 1, remaining |-> 0, repeat |-> 0]
  <1>1. PrepareMessage(m) = c
    BY DEF PrepareMessage
  <1>2. /\ c \in [msg : Messages, index : Nat \ {0}, remaining : Nat, repeat : Nat]
        /\ c.msg = m /\ c.index = 1 /\ c.remaining = 0 /\ c.repeat = 0
    OBVIOUS
  <1> HIDE DEF c
  <1>3. Position(c)
    BY <1>2, PlanFacts DEF Position
  <1>4. Repeated(m, 0) = <<>> /\ Before(m, 0, 1) = <<>> /\ Begun(c) = <<>>
    BY <1>2, <1>3, MadeType, RepeatedEnds, BeforeEnds
  <1>5. (<<>> \o <<>>) \o <<>> = <<>>
    BY EmptySeq, ConcatEmptySeq
  <1> QED
    BY <1>1, <1>2, <1>3, <1>4, <1>5 DEF Made

(* Samples of a symbol, and those after them.                              *)
FirstSamples(m, r, i, a) == [j \in 1 .. a |-> <<m, r, i, j>>]
NextSamples(m, r, i, a, b) == [j \in 1 .. b |-> <<m, r, i, a + j>>]

(* The samples of a symbol may be generated in two parts. *)
LEMMA SamplesJoin ==
  ASSUME NEW m \in Messages, NEW r \in Nat, NEW i \in Nat \ {0}, NEW a \in Nat, NEW b \in Nat
  PROVE  /\ FirstSamples(m, r, i, a) \in Seq(Sample)
         /\ NextSamples(m, r, i, a, b) \in Seq(Sample)
         /\ FirstSamples(m, r, i, a) \o NextSamples(m, r, i, a, b)
              = FirstSamples(m, r, i, a + b)
  <1> DEFINE s == [j \in 1 .. a |-> <<m, r, i, j>>]
             u == [j \in 1 .. b |-> <<m, r, i, a + j>>]
             t == [j \in 1 .. a + b |-> <<m, r, i, j>>]
  <1>1. \A j \in Nat \ {0} : <<m, r, i, j>> \in Sample
    BY DEF Sample
  <1>2. \A j \in 1 .. b : a + j \in Nat \ {0}
    OBVIOUS
  <1>3. s \in Seq(Sample) /\ Len(s) = a
    <2>1. s \in [1 .. a -> Sample]
      BY <1>1
    <2> HIDE DEF s
    <2>2. s \in Seq(Sample)
      BY <2>1, SeqDef
    <2> QED
      BY <2>1, <2>2, LenProperties
  <1>4. u \in Seq(Sample) /\ Len(u) = b
    <2>1. u \in [1 .. b -> Sample]
      BY <1>1, <1>2
    <2> HIDE DEF u
    <2>2. u \in Seq(Sample)
      BY <2>1, SeqDef
    <2> QED
      BY <2>1, <2>2, LenProperties
  <1>5. t \in Seq(Sample) /\ Len(t) = a + b
    <2>1. t \in [1 .. a + b -> Sample]
      BY <1>1
    <2> HIDE DEF t
    <2>2. t \in Seq(Sample)
      BY <2>1, SeqDef
    <2> QED
      BY <2>1, <2>2, LenProperties
  <1>6. /\ \A j \in 1 .. a : s[j] = <<m, r, i, j>>
        /\ \A j \in 1 .. b : u[j] = <<m, r, i, a + j>>
        /\ \A j \in 1 .. a + b : t[j] = <<m, r, i, j>>
    OBVIOUS
  <1> HIDE DEF s, u, t
  <1>7. /\ s \o u \in Seq(Sample) /\ Len(s \o u) = a + b
        /\ \A j \in 1 .. a + b : (s \o u)[j] = IF j <= a THEN s[j] ELSE u[j - a]
    BY <1>3, <1>4, ConcatProperties
  <1>8. ASSUME NEW j \in 1 .. a + b PROVE (s \o u)[j] = t[j]
    <2>1. CASE j <= a
      <3>1. j \in 1 .. a
        BY <2>1
      <3> QED
        BY <1>6, <1>7, <2>1, <3>1
    <2>2. CASE ~ (j <= a)
      <3>1. j - a \in 1 .. b /\ a + (j - a) = j
        BY <2>2
      <3>2. u[j - a] = <<m, r, i, a + (j - a)>>
        BY <1>6, <3>1
      <3> QED
        BY <1>6, <1>7, <2>2, <3>1, <3>2
    <2> QED
      BY <2>1, <2>2
  <1>9. s \o u = t
    BY <1>5, <1>7, <1>8, SeqEqual
  <1> QED
    BY <1>3, <1>4, <1>9 DEF s, u, t, FirstSamples, NextSamples

(* Three sequences of samples.                                             *)
LEMMA Regroup ==
  \A f, g, h \in Seq(Sample) :
    /\ (f \o g) \o h = f \o (g \o h)
    /\ f \o g \in Seq(Sample) /\ g \o h \in Seq(Sample) /\ (f \o g) \o h \in Seq(Sample)
  <1> TAKE f, g, h \in Seq(Sample)
  <1>1. (f \o g) \o h = f \o (g \o h)
    BY ConcatAssociative
  <1>2. PICK k \in Seq(Sample) : k = f \o g
    BY ConcatProperties
  <1>3. k \o h \in Seq(Sample) /\ g \o h \in Seq(Sample)
    BY ConcatProperties
  <1> QED
    BY <1>1, <1>2, <1>3

(* getNextSamples generates from where the last block left.                *)
Generated(c, n, left, next, d) ==
  /\ n \in Nat \ {0} /\ left \in Nat /\ c.remaining = n + left
  /\ Commands(c.msg)[c.index].value = Plan[c.msg].symbols[c.index]
  /\ next = IF left > 0 THEN c.index ELSE c.index + 1
  /\ d = [msg |-> c.msg, index |-> next, remaining |-> left, repeat |-> c.repeat]

(* What a round of Generate makes comes after what was made. *)
LEMMA MadeGenerate ==
  ASSUME NEW c, Position(c), NEW n, NEW left, NEW next, NEW d, Generated(c, n, left, next, d)
  PROVE  /\ Position(d) /\ Modulated(c, n) \in Seq(Sample)
         /\ Made(d) = Made(c) \o Modulated(c, n)
  <1>1. PICK m, r, i : m = c.msg /\ r = c.repeat /\ i = c.index
    OBVIOUS
  <1>18. n \in Nat \ {0} /\ left \in Nat
    BY DEF Generated
  <1>2. /\ m \in Messages /\ r \in Nat /\ r <= Plan[m].repeats /\ i \in Nat \ {0}
        /\ i <= Len(Plan[m].symbols) /\ n + left <= Plan[m].symbols[i]
    BY <1>1, <1>18 DEF Position, Generated
  <1>3. i \in 1 .. Len(Plan[m].symbols)
    BY <1>2, PlanFacts
  <1>4. PICK size \in Nat : size = Plan[m].symbols[i]
    BY <1>2, <1>3, PlanFacts
  <1>5. PICK a \in Nat : /\ a + n + left = size /\ a = size - c.remaining
                         /\ c.remaining > 0
    <2>1. n + left \in Nat /\ n + left <= size /\ n + left > 0
      BY <1>2, <1>4, <1>18
    <2>2. PICK a \in Nat : a = size - (n + left)
      BY <2>1
    <2>3. a + n + left = size
      BY <1>18, <2>2
    <2> QED
      BY <2>1, <2>2, <2>3 DEF Generated
  <1>6. Begun(c) = FirstSamples(m, r, i, a)
    <2>1. SinceStart(c) = a
      BY <1>1, <1>4, <1>5 DEF SinceStart
    <2> QED
      BY <1>1, <2>1 DEF Begun, FirstSamples
  <1>7. Modulated(c, n) = NextSamples(m, r, i, a, n)
    BY <1>1, <1>4, <1>5 DEF Modulated, Generated, NextSamples
  <1>8. /\ next \in Nat \ {0} /\ (left > 0 \/ left = 0)
        /\ next = IF left > 0 THEN i ELSE i + 1
    BY <1>1, <1>2, <1>18 DEF Generated
  <1>9. /\ d.msg = m /\ d.index = next /\ d.remaining = left /\ d.repeat = r
        /\ d = [msg |-> m, index |-> next, remaining |-> left, repeat |-> r]
    BY <1>1 DEF Generated
  <1>10. Position(d)
    <2>1. d \in [msg : Messages, index : Nat \ {0}, remaining : Nat, repeat : Nat]
      BY <1>2, <1>8, <1>9, <1>18
    <2>2. left > 0 => next <= Len(Plan[m].symbols) /\ left <= Plan[m].symbols[next]
      BY <1>2, <1>4, <1>5, <1>8, <1>18
    <2> QED
      BY <1>2, <1>9, <2>1, <2>2 DEF Position
  <1>11. PICK X, b : /\ X = Modulated(c, n) /\ b = Begun(c)
                     /\ X \in Seq(Sample) /\ b \in Seq(Sample)
                     /\ b \o X = FirstSamples(m, r, i, a + n)
    <2>1. n \in Nat
      BY <1>18
    <2>2. /\ FirstSamples(m, r, i, a) \in Seq(Sample)
          /\ NextSamples(m, r, i, a, n) \in Seq(Sample)
          /\ FirstSamples(m, r, i, a) \o NextSamples(m, r, i, a, n)
               = FirstSamples(m, r, i, a + n)
      BY <1>2, <2>1, SamplesJoin
    <2> QED
      BY <1>6, <1>7, <2>2
  <1>13. PICK R, B : /\ R = Repeated(m, r) /\ B = Before(m, r, i)
                     /\ R \in Seq(Sample) /\ B \in Seq(Sample)
    BY <1>1, MadeType
  <1>14. PICK Y, Q : /\ Y = b \o X /\ Q = R \o B
                     /\ Y \in Seq(Sample) /\ Q \in Seq(Sample)
    BY <1>11, <1>13, ConcatProperties
  <1>15. Made(c) \o X = Q \o Y
    <2>1. Q \in Seq(Sample) /\ b \in Seq(Sample) /\ X \in Seq(Sample)
      BY <1>11, <1>14
    <2>2. (Q \o b) \o X = Q \o (b \o X)
      BY <2>1, Regroup, SMTT(30)
    <2> QED
      BY <1>1, <1>11, <1>13, <1>14, <2>2 DEF Made
  <1>16. CASE left > 0
    <2>1. next = i
      BY <1>8, <1>16
    <2>2. SinceStart(d) = a + n
      <3>1. SinceStart(d) = size - left
        BY <1>4, <1>9, <1>16, <2>1 DEF SinceStart
      <3> QED
        BY <1>4, <1>5, <1>18, <3>1
    <2>3. Begun(d) = Y
      BY <1>9, <1>11, <1>14, <2>1, <2>2 DEF Begun, FirstSamples
    <2>4. Made(d) = Q \o Y
      BY <1>9, <1>13, <1>14, <2>1, <2>3 DEF Made
    <2> QED
      BY <1>10, <1>11, <1>15, <2>4
  <1>17. CASE left = 0
    <2>1. next = i + 1 /\ a + n = size
      BY <1>5, <1>8, <1>17, <1>18
    <2>2. Begun(d) = <<>>
      BY <1>9, <1>10, <1>17, MadeType
    <2>3. Y = Symbol(m, r, i)
      BY <1>4, <1>11, <1>14, <2>1 DEF Symbol, FirstSamples
    <2>4. Before(m, r, i + 1) = B \o Y
      BY <1>2, <1>3, <1>13, <2>3, BeforeNext
    <2>5. Made(d) = (R \o (B \o Y)) \o <<>>
      BY <1>9, <1>13, <2>1, <2>2, <2>4 DEF Made
    <2>6. R \o (B \o Y) \in Seq(Sample) /\ Q \o Y = R \o (B \o Y)
      <3>1. R \in Seq(Sample) /\ B \in Seq(Sample) /\ Y \in Seq(Sample)
        BY <1>13, <1>14
      <3>2. (R \o B) \o Y = R \o (B \o Y) /\ (R \o B) \o Y \in Seq(Sample)
        BY <3>1, Regroup, SMTT(30)
      <3> QED
        BY <1>14, <3>2
    <2>7. Made(d) = Q \o Y
      BY <2>5, <2>6, ConcatEmptySeq
    <2> QED
      BY <1>10, <1>11, <1>15, <2>7
  <1> QED
    BY <1>8, <1>16, <1>17

(* A symbol is begun, or an empty one left behind.                         *)
LEMMA MadeSymbol ==
  ASSUME NEW c, Position(c), c.remaining = 0, c.index <= Len(Plan[c.msg].symbols), NEW d,
         d = [msg |-> c.msg,
              index |-> IF Plan[c.msg].symbols[c.index] = 0 THEN c.index + 1 ELSE c.index,
              remaining |-> Plan[c.msg].symbols[c.index], repeat |-> c.repeat]
  PROVE  Position(d) /\ Made(d) = Made(c)
  <1> DEFINE m == c.msg
             r == c.repeat
             i == c.index
             size == Plan[m].symbols[i]
  <1>1. m \in Messages /\ r \in Nat /\ r <= Plan[m].repeats /\ i \in Nat \ {0}
    BY DEF Position
  <1>2. i \in 1 .. Len(Plan[m].symbols) /\ size \in Nat
    <2>1. i \in 1 .. Len(Plan[m].symbols)
      BY <1>1, PlanFacts
    <2> QED
      BY <1>1, <2>1, PlanFacts
  <1>3. /\ d.msg = m /\ d.repeat = r /\ d.remaining = size
        /\ d.index = IF size = 0 THEN i + 1 ELSE i
    OBVIOUS
  <1>4. Position(d)
    <2>1. d \in [msg : Messages, index : Nat \ {0}, remaining : Nat, repeat : Nat]
      BY <1>1, <1>2
    <2>2. size > 0 => d.index = i
      BY <1>2, <1>3
    <2> HIDE DEF m, r, i, size
    <2>3. size > 0 => d.index <= Len(Plan[m].symbols) /\ size <= Plan[m].symbols[d.index]
      BY <1>2, <2>2 DEF m, i, size
    <2> QED
      BY <1>1, <1>3, <2>1, <2>3 DEF Position
  <1>5. Begun(c) = <<>> /\ Begun(d) = <<>>
    <2>1. SinceStart(d) = 0
      <3>1. CASE size = 0
        BY <1>3, <3>1 DEF SinceStart
      <3>2. CASE size # 0
        BY <1>2, <1>3, <3>2 DEF SinceStart
      <3> QED
        BY <3>1, <3>2
    <2> QED
      BY <1>4, <2>1, MadeType
  <1>6. Before(m, r, d.index) = Before(m, r, i)
    <2>1. CASE size = 0
      <3>1. Symbol(m, r, i) = <<>>
        <4>1. Symbol(m, r, i) = [k \in 1 .. 0 |-> <<m, r, i, k>>]
          BY <2>1 DEF Symbol
        <4>2. Symbol(m, r, i) \in Seq(Sample)
          BY <1>1, <1>2, BeforeNext
        <4>3. DOMAIN Symbol(m, r, i) = 1 .. 0
          BY <4>1
        <4>4. Len(Symbol(m, r, i)) = 0
          BY <4>2, <4>3, LenProperties
        <4> QED
          BY <4>2, <4>4, EmptySeq
      <3>2. /\ Before(m, r, i) \in Seq(Sample)
            /\ Before(m, r, i + 1) = Before(m, r, i) \o Symbol(m, r, i)
        BY <1>1, <1>2, BeforeNext
      <3>3. Before(m, r, i + 1) = Before(m, r, i)
        BY <3>1, <3>2, ConcatEmptySeq
      <3> QED
        BY <1>3, <2>1, <3>3
    <2>2. CASE size # 0
      BY <1>3, <2>2
    <2> QED
      BY <2>1, <2>2
  <1> QED
    BY <1>3, <1>4, <1>5, <1>6 DEF Made

(* Behind its symbols, the interpreter goes on or starts them again.       *)
LEMMA MadeRepeat ==
  ASSUME NEW c, Position(c), c.remaining = 0, c.index > Len(Plan[c.msg].symbols), NEW d,
         \/ /\ c.repeat < Plan[c.msg].repeats
            /\ d = [msg |-> c.msg, index |-> 1, remaining |-> 0, repeat |-> c.repeat + 1]
         \/ d = [msg |-> c.msg, index |-> c.index + 1, remaining |-> 0, repeat |-> c.repeat]
  PROVE  Position(d) /\ Made(d) = Made(c)
  <1> DEFINE m == c.msg
             r == c.repeat
             i == c.index
  <1>1. /\ m \in Messages /\ r \in Nat /\ r <= Plan[m].repeats /\ i \in Nat \ {0}
        /\ Plan[m].repeats \in Nat /\ Len(Plan[m].symbols) \in Nat
    BY PlanFacts DEF Position
  <1>2. /\ Repeated(m, r) \in Seq(Sample) /\ Once(m, r) \in Seq(Sample)
        /\ Repeated(m, r + 1) = Repeated(m, r) \o Once(m, r)
    <2>1. r \in 0 .. Plan[m].repeats
      BY <1>1
    <2> QED
      BY <1>1, <2>1, RepeatedNext
  <1>3. Before(m, r, i) = Once(m, r) /\ Before(m, r, i + 1) = Once(m, r)
    <2>1. i + 1 \in Nat /\ i + 1 > Len(Plan[m].symbols)
      BY <1>1
    <2> QED
      BY <1>1, <2>1, BeforeEnds
  <1>4. Begun(c) = <<>>
    BY MadeType
  <1>5. Made(c) = (Repeated(m, r) \o Once(m, r)) \o <<>>
    BY <1>3, <1>4 DEF Made
  <1>6. CASE /\ c.repeat < Plan[c.msg].repeats
             /\ d = [msg |-> c.msg, index |-> 1, remaining |-> 0, repeat |-> c.repeat + 1]
    <2>1. d.msg = m /\ d.index = 1 /\ d.remaining = 0 /\ d.repeat = r + 1
      BY <1>6
    <2>2. Position(d)
      <3>1. d \in [msg : Messages, index : Nat \ {0}, remaining : Nat, repeat : Nat]
        BY <1>1, <1>6
      <3>2. r + 1 <= Plan[m].repeats
        BY <1>1, <1>6
      <3> QED
        BY <2>1, <3>1, <3>2 DEF Position
    <2>3. Begun(d) = <<>>
      BY <2>1, <2>2, MadeType
    <2>4. Before(m, r + 1, 1) = <<>>
      BY <1>1, BeforeEnds
    <2>5. Made(d) = ((Repeated(m, r) \o Once(m, r)) \o <<>>) \o <<>>
      BY <1>2, <2>1, <2>3, <2>4 DEF Made
    <2>6. Repeated(m, r) \o Once(m, r) \in Seq(Sample)
      BY <1>2, ConcatProperties
    <2>7. (Repeated(m, r) \o Once(m, r)) \o <<>> = Repeated(m, r) \o Once(m, r)
      BY <2>6, ConcatEmptySeq
    <2> QED
      BY <1>5, <2>2, <2>5, <2>7
  <1>7. CASE d = [msg |-> c.msg, index |-> c.index + 1, remaining |-> 0, repeat |-> c.repeat]
    <2>1. d.msg = m /\ d.index = i + 1 /\ d.remaining = 0 /\ d.repeat = r
      BY <1>7
    <2>2. Position(d)
      <3>1. d \in [msg : Messages, index : Nat \ {0}, remaining : Nat, repeat : Nat]
        BY <1>1, <1>7
      <3> QED
        BY <1>1, <2>1, <3>1 DEF Position
    <2>3. Begun(d) = <<>>
      BY <2>1, <2>2, MadeType
    <2> QED
      BY <1>3, <1>5, <2>1, <2>2, <2>3 DEF Made
  <1> QED
    BY <1>6, <1>7

(* After the last repetition, all of the message has been made.            *)
LEMMA AllMade ==
  ASSUME NEW c, Position(c), c.remaining = 0, c.index > Len(Plan[c.msg].symbols),
         c.repeat = Plan[c.msg].repeats
  PROVE  Made(c) = Samples(c.msg)
  <1> DEFINE m == c.msg
             r == c.repeat
  <1>1. m \in Messages /\ r \in Nat /\ r \in 0 .. Plan[m].repeats /\ c.index \in Nat
    BY PlanFacts DEF Position
  <1>2. /\ Repeated(m, r) \o Once(m, r) = Samples(m)
        /\ Samples(m) \in Seq(Sample)
    BY <1>1, RepeatedNext, RepeatedEnds
  <1>3. Before(m, r, c.index) = Once(m, r) /\ Begun(c) = <<>>
    BY <1>1, BeforeEnds, MadeType
  <1> QED
    BY <1>2, <1>3, ConcatEmptySeq DEF Made

(* What was made of a message is the beginning of it.                      *)
LEMMA OnceBegins ==
  ASSUME NEW c, Position(c)
  PROVE  \E v \in Seq(Sample) :
           Once(c.msg, c.repeat) = (Before(c.msg, c.repeat, c.index) \o Begun(c)) \o v
  <1>1. PICK m, r, i : m = c.msg /\ r = c.repeat /\ i = c.index
    OBVIOUS
  <1>2. m \in Messages /\ r \in Nat /\ i \in Nat \ {0}
    BY <1>1 DEF Position
  <1>3. PICK B, b : /\ B = Before(m, r, i) /\ B \in Seq(Sample)
                    /\ b = Begun(c) /\ b \in Seq(Sample)
    BY <1>1, MadeType
  <1>4. PICK n \in Nat : n = Len(Plan[m].symbols)
    BY <1>2, PlanFacts
  <1>5. PICK O : O = Once(m, r) /\ O \in Seq(Sample)
    BY <1>2, SymbolsType, PlanFacts, SeqMonotonic
  <1>6. ASSUME NEW k \in 0 .. n
        PROVE  \E u \in Seq(Sample) : O = FlattenSeq(FirstOf(Symbols(m, r), k)) \o u
    <2>3. PICK ss \in Seq(Seq(OfMessage(m))) : ss = Symbols(m, r) /\ Len(ss) = n
      BY <1>2, <1>4, SymbolsType
    <2>4. k \in 0 .. Len(ss) /\ O = FlattenSeq(ss)
      BY <1>2, <1>5, <2>3, SymbolsType
    <2>1. PICK u \in Seq(OfMessage(m)) : O = FlattenSeq(FirstOf(ss, k)) \o u
      BY <2>4, FlattenBegins
    <2>2. u \in Seq(Sample)
      BY <1>2, PlanFacts, SeqMonotonic
    <2> QED
      BY <2>1, <2>2, <2>3
  <1>7. ASSUME NEW j \in Nat \ {0}
        PROVE  \E u \in Seq(Sample) : O = Before(m, r, j) \o u
    <2>1. PICK k \in 0 .. n : k = IF j - 1 <= n THEN j - 1 ELSE n
      OBVIOUS
    <2>2. Before(m, r, j) = FlattenSeq(FirstOf(Symbols(m, r), k))
      BY <1>4, <2>1 DEF Before
    <2> QED
      BY <1>6, <2>2
  <1>8. CASE c.remaining = 0
    <2>1. PICK u \in Seq(Sample) : O = B \o u
      BY <1>2, <1>3, <1>7
    <2>2. b = <<>>
      BY <1>3, <1>8, MadeType
    <2>3. B \o b = B
      BY <1>3, <2>2, ConcatEmptySeq
    <2> QED
      BY <1>1, <1>3, <1>5, <2>1, <2>3
  <1>9. CASE c.remaining > 0
    <2>1. i \in 1 .. n /\ i + 1 \in Nat \ {0}
      BY <1>1, <1>2, <1>4, <1>9 DEF Position
    <2>2. Plan[m].symbols[i] \in Nat
      BY <1>2, <1>4, <2>1, PlanFacts
    <2>3. SinceStart(c) \in Nat /\ SinceStart(c) <= Plan[m].symbols[i]
      <3>1. c.remaining \in Nat /\ c.remaining <= Plan[m].symbols[i]
        BY <1>1, <1>9 DEF Position
      <3>2. SinceStart(c) = Plan[m].symbols[i] - c.remaining
        BY <1>1, <1>9 DEF SinceStart
      <3> QED
        BY <2>2, <3>1, <3>2
    <2>4. PICK a, rest \in Nat : a = SinceStart(c) /\ a + rest = Plan[m].symbols[i]
      <3>1. Plan[m].symbols[i] - SinceStart(c) \in Nat
        BY <2>2, <2>3
      <3>2. SinceStart(c) + (Plan[m].symbols[i] - SinceStart(c)) = Plan[m].symbols[i]
        BY <2>2, <2>3
      <3> QED
        BY <2>3, <3>1, <3>2
    <2>5. b = FirstSamples(m, r, i, a)
      BY <1>1, <1>3, <2>4 DEF Begun, FirstSamples
    <2>6. PICK w : w \in Seq(Sample) /\ b \o w = Symbol(m, r, i)
      <3>1. /\ NextSamples(m, r, i, a, rest) \in Seq(Sample)
            /\ FirstSamples(m, r, i, a) \o NextSamples(m, r, i, a, rest)
                 = FirstSamples(m, r, i, a + rest)
        BY <1>2, SamplesJoin
      <3>2. Symbol(m, r, i) = FirstSamples(m, r, i, a + rest)
        BY <2>4 DEF Symbol, FirstSamples
      <3> QED
        BY <2>5, <3>1, <3>2
    <2>7. Before(m, r, i + 1) = B \o (b \o w)
      <3>1. Before(m, r, i + 1) = B \o Symbol(m, r, i)
        BY <1>2, <1>3, <1>4, <2>1, BeforeNext
      <3> QED
        BY <2>6, <3>1, Zenon
    <2>8. PICK u : u \in Seq(Sample) /\ O = Before(m, r, i + 1) \o u
      BY <1>7, <2>1
    <2>9. O = ((B \o b) \o w) \o u
      <3>1. B \o (b \o w) = (B \o b) \o w
        <4>1. B \in Seq(Sample) /\ b \in Seq(Sample) /\ w \in Seq(Sample)
          BY <1>3, <2>6
        <4> QED
          BY <4>1, Regroup, SMTT(30)
      <3> QED
        BY <2>7, <2>8, <3>1
    <2>10. PICK Q : Q \in Seq(Sample) /\ Q = B \o b
      BY <1>3, ConcatProperties
    <2>11. O = Q \o (w \o u) /\ w \o u \in Seq(Sample)
      <3>1. (Q \o w) \o u = Q \o (w \o u) /\ w \o u \in Seq(Sample)
        <4>1. Q \in Seq(Sample) /\ w \in Seq(Sample) /\ u \in Seq(Sample)
          BY <2>6, <2>8, <2>10
        <4> QED
          BY <4>1, Regroup, SMTT(30)
      <3> QED
        BY <2>9, <2>10, <3>1
    <2> QED
      BY <1>1, <1>3, <1>5, <2>10, <2>11
  <1> QED
    <2>1. c.remaining = 0 \/ c.remaining > 0
      BY DEF Position
    <2> QED
      BY <1>8, <1>9, <2>1, Zenon

(* What was made of a message is the beginning of its samples. *)
LEMMA MadeBegins ==
  ASSUME NEW c, Position(c)
  PROVE  \E u \in Seq(Sample) : Samples(c.msg) = Made(c) \o u
  <1>1. PICK m, r : m = c.msg /\ r = c.repeat
    OBVIOUS
  <1>2. /\ m \in Messages /\ r \in 0 .. Plan[m].repeats /\ Plan[m].repeats \in Nat
        /\ r + 1 \in 0 .. Plan[m].repeats + 1
    BY <1>1, PlanFacts DEF Position
  <1>3. PICK R, B, b : /\ R = Repeated(m, r) /\ R \in Seq(Sample)
                       /\ B = Before(m, r, c.index) /\ B \in Seq(Sample)
                       /\ b = Begun(c) /\ b \in Seq(Sample)
    BY <1>1, MadeType
  <1>4. PICK v : v \in Seq(Sample) /\ Once(m, r) = (B \o b) \o v
    BY <1>1, <1>3, OnceBegins
  <1>5. Repeated(m, r + 1) = R \o ((B \o b) \o v)
    BY <1>2, <1>3, <1>4, RepeatedNext
  <1>6. PICK u : u \in Seq(Sample) /\ Samples(m) = Repeated(m, r + 1) \o u
    <2>1. PICK ss \in Seq(Seq(OfMessage(m))) : /\ ss = Times(m) /\ Samples(m) = FlattenSeq(ss)
                                                 /\ r + 1 \in 0 .. Len(ss)
      BY <1>2, TimesType
    <2>2. PICK k \in 0 .. Len(ss) : k = r + 1
      BY <2>1
    <2>3. PICK u \in Seq(OfMessage(m)) : FlattenSeq(ss) = FlattenSeq(FirstOf(ss, k)) \o u
      BY <2>1, <2>2, FlattenBegins
    <2>4. u \in Seq(Sample)
      BY <1>2, PlanFacts, SeqMonotonic
    <2> QED
      BY <2>1, <2>2, <2>3, <2>4 DEF Repeated
  <1>7. PICK Q : Q \in Seq(Sample) /\ Q = B \o b
    BY <1>3, ConcatProperties
  <1>8. PICK Z : Z \in Seq(Sample) /\ Z = R \o Q
    BY <1>3, <1>7, ConcatProperties
  <1>9. Samples(m) = (R \o (Q \o v)) \o u
    BY <1>5, <1>6, <1>7
  <1>10. R \o (Q \o v) = Z \o v
    <2>1. R \in Seq(Sample) /\ Q \in Seq(Sample) /\ v \in Seq(Sample)
      BY <1>3, <1>4, <1>7
    <2>2. (R \o Q) \o v = R \o (Q \o v)
      BY <2>1, Regroup, SMTT(30)
    <2> QED
      BY <1>8, <2>2
  <1>11. (Z \o v) \o u = Z \o (v \o u) /\ v \o u \in Seq(Sample)
    BY <1>4, <1>6, <1>8, Regroup
  <1>12. Made(c) = Z
    <2>1. Made(c) = (R \o B) \o b
      BY <1>1, <1>3 DEF Made
    <2>2. R \in Seq(Sample) /\ B \in Seq(Sample) /\ b \in Seq(Sample)
      BY <1>3
    <2>3. (R \o B) \o b = R \o (B \o b)
      BY <2>2, Regroup, SMTT(30)
    <2> QED
      BY <1>7, <1>8, <2>1, <2>3
  <1> QED
    BY <1>1, <1>9, <1>10, <1>11, <1>12

--------------------------------------------------------------------------------
(* The messages that were accepted.                                        *)

AllOf(a) == [i \in 1 .. Len(a) |-> Samples(a[i])]

(* The first k messages as the first k of their samples. *)
LEMMA SentIs ==
  ASSUME NEW a \in Seq(Messages)
  PROVE  /\ AllOf(a) \in Seq(Seq(Sample)) /\ Len(AllOf(a)) = Len(a)
         /\ \A i \in 1 .. Len(a) : AllOf(a)[i] = Samples(a[i])
         /\ \A k \in 0 .. Len(a) : /\ Sent(a, k) = FlattenSeq(FirstOf(AllOf(a), k))
                                   /\ Sent(a, k) \in Seq(Sample)
         /\ Sent(a, 0) = <<>>
  <1>1. PICK n \in Nat : n = Len(a)
    BY LenProperties
  <1>2. \A i \in 1 .. n : a[i] \in Messages
    BY <1>1, ElementOfSeq
  <1>3. \A i \in 1 .. n : Samples(a[i]) \in Seq(Sample)
    BY <1>2, RepeatedEnds
  <1>4. AllOf(a) = [i \in 1 .. n |-> Samples(a[i])]
    BY <1>1 DEF AllOf
  <1>5. AllOf(a) \in [1 .. n -> Seq(Sample)]
    BY <1>3, <1>4
  <1>6. AllOf(a) \in Seq(Seq(Sample))
    BY <1>5, SeqDef
  <1>7. Len(AllOf(a)) = n
    BY <1>5, <1>6, LenProperties
  <1>8. \A i \in 1 .. n : AllOf(a)[i] = Samples(a[i])
    BY <1>4
  <1>9. ASSUME NEW k \in 0 .. n
        PROVE  Sent(a, k) = FlattenSeq(FirstOf(AllOf(a), k)) /\ Sent(a, k) \in Seq(Sample)
    <2>1. FirstOf(AllOf(a), k) = [i \in 1 .. k |-> Samples(a[i])]
      <3>1. \A i \in 1 .. k : AllOf(a)[i] = Samples(a[i])
        BY <1>8
      <3> QED
        BY <3>1 DEF FirstOf
    <2>2. FirstOf(AllOf(a), k) \in Seq(Seq(Sample))
      BY <1>6, <1>7, FirstOfProperties
    <2>3. FlattenSeq(FirstOf(AllOf(a), k)) \in Seq(Sample)
      BY <2>2, FlattenType
    <2> QED
      BY <2>1, <2>3 DEF Sent
  <1>10. Sent(a, 0) = <<>>
    <2>1. 0 \in 0 .. n
      OBVIOUS
    <2>2. FirstOf(AllOf(a), 0) = <<>>
      BY <1>6, FirstOfAll
    <2> QED
      BY <1>9, <2>1, <2>2, FlattenEmpty
  <1> QED
    BY <1>1, <1>6, <1>7, <1>8, <1>9, <1>10

(* One message more comes at the end. *)
LEMMA SentNext ==
  ASSUME NEW a \in Seq(Messages), NEW k \in Nat, k + 1 <= Len(a)
  PROVE  /\ a[k + 1] \in Messages
         /\ Sent(a, k + 1) = Sent(a, k) \o Samples(a[k + 1])
  <1>1. PICK n \in Nat : n = Len(a)
    BY LenProperties
  <1>2. PICK j \in 1 .. n : j = k + 1
    BY <1>1
  <1>3. k \in 0 .. n /\ j \in 0 .. n /\ k \in 0 .. j
    BY <1>1, <1>2
  <1>4. a[j] \in Messages
    BY <1>1, ElementOfSeq
  <1>5. PICK TT \in Seq(Seq(Sample)) : TT = FirstOf(AllOf(a), j)
    BY <1>1, <1>3, SentIs, FirstOfProperties
  <1>6. Len(TT) = k + 1 /\ FirstOf(TT, k) = FirstOf(AllOf(a), k)
    BY <1>1, <1>2, <1>3, <1>5, SentIs, FirstOfProperties
  <1>7. FlattenSeq(TT) = FlattenSeq(FirstOf(TT, k)) \o TT[k + 1]
    BY <1>6, FlattenNext
  <1>8. TT[j] = Samples(a[j])
    <2>1. TT[j] = AllOf(a)[j]
      BY <1>5 DEF FirstOf
    <2> QED
      BY <1>1, <2>1, SentIs
  <1>9. Sent(a, j) = FlattenSeq(TT) /\ Sent(a, k) = FlattenSeq(FirstOf(AllOf(a), k))
    BY <1>1, <1>3, <1>5, SentIs
  <1> QED
    BY <1>2, <1>4, <1>6, <1>7, <1>8, <1>9

(* The first messages are the beginning of all.                            *)
LEMMA SentBegins ==
  ASSUME NEW a \in Seq(Messages), NEW k \in 0 .. Len(a)
  PROVE  /\ \E u \in Seq(Sample) : Sent(a, Len(a)) = Sent(a, k) \o u
         /\ Sent(a, Len(a)) = FlattenSeq([i \in DOMAIN a |-> Samples(a[i])])
  <1>1. Len(a) \in Nat /\ DOMAIN a = 1 .. Len(a) /\ Len(a) \in 0 .. Len(a)
    BY LenProperties
  <1>2. FirstOf(AllOf(a), Len(a)) = AllOf(a)
    BY SentIs, FirstOfAll
  <1>3. Sent(a, Len(a)) = FlattenSeq(AllOf(a))
    BY <1>1, <1>2, SentIs
  <1>4. \E u \in Seq(Sample) : FlattenSeq(AllOf(a)) = FlattenSeq(FirstOf(AllOf(a), k)) \o u
    <2>1. AllOf(a) \in Seq(Seq(Sample)) /\ k \in 0 .. Len(AllOf(a))
      BY SentIs
    <2> QED
      BY <2>1, FlattenBegins, Zenon
  <1>5. AllOf(a) = [i \in DOMAIN a |-> Samples(a[i])]
    BY <1>1 DEF AllOf
  <1> QED
    BY <1>1, <1>3, <1>4, <1>5, SentIs

(* They are the same when one more is accepted.                            *)
LEMMA SentKept ==
  ASSUME NEW a \in Seq(Messages), NEW m \in Messages, NEW k \in 0 .. Len(a)
  PROVE  Sent(Append(a, m), k) = Sent(a, k)
  <1>1. \A i \in 1 .. Len(a) : Append(a, m)[i] = a[i]
    BY AppendProperties
  <1>2. \A i \in 1 .. k : Append(a, m)[i] = a[i]
    BY <1>1, LenProperties
  <1>3. [i \in 1 .. k |-> Samples(Append(a, m)[i])] = [i \in 1 .. k |-> Samples(a[i])]
    BY <1>2
  <1> QED
    BY <1>3 DEF Sent

(* A sequence of messages ends with the last sample of one of them.        *)
LEMMA SentClosed ==
  ASSUME NEW a \in Seq(Messages), NEW k \in 0 .. Len(a), Sent(a, k) # <<>>
  PROVE  Closed(Last(Sent(a, k)))
  <1> DEFINE I == {j \in Nat : j <= Len(a) /\ Sent(a, j) # <<>> => Closed(Last(Sent(a, j)))}
  <1>1. 0 \in I
    BY SentIs
  <1>2. ASSUME NEW j \in I PROVE j + 1 \in I
    <2> SUFFICES ASSUME j + 1 <= Len(a), Sent(a, j + 1) # <<>>
                 PROVE  Closed(Last(Sent(a, j + 1)))
      OBVIOUS
    <2>1. j \in Nat /\ Len(a) \in Nat
      BY LenProperties
    <2>2. j \in 0 .. Len(a) /\ j <= Len(a)
      BY <2>1
    <2> HIDE DEF I
    <2>3. PICK m \in Messages : m = a[j + 1] /\ Sent(a, j + 1) = Sent(a, j) \o Samples(m)
      BY <2>1, SentNext
    <2>4. PICK s, u \in Seq(Sample) : s = Sent(a, j) /\ u = Samples(m)
      BY <2>2, SentIs, RepeatedEnds
    <2>5. CASE u # <<>>
      <3>1. Last(Sent(a, j + 1)) = Last(u)
        <4>1. Last(s \o u) = Last(u)
          BY <2>5, LastOfConcat
        <4> QED
          BY <2>3, <2>4, <4>1
      <3>2. u \in Seq(OfMessage(m))
        BY <2>4, TimesType
      <3>3. Len(u) \in 1 .. Len(u)
        BY <2>5, <3>2, EmptySeq
      <3>4. Last(u) \in OfMessage(m)
        BY <3>2, <3>3, ElementOfSeq DEF Last
      <3>5. Last(u)[1] = m
        BY <3>4 DEF OfMessage
      <3> QED
        BY <2>4, <3>1, <3>5 DEF Closed
    <2>6. CASE u = <<>>
      <3>1. Sent(a, j + 1) = s
        BY <2>3, <2>4, <2>6, ConcatEmptySeq
      <3> QED
        BY <2>2, <2>4, <3>1 DEF I
    <2> QED
      BY <2>5, <2>6
  <1>3. I = Nat
    <2> HIDE DEF I
    <2> QED
      BY <1>1, <1>2, AllNaturals DEF I
  <1>4. k \in I
    <2> HIDE DEF I
    <2> QED
      BY <1>3, LenProperties
  <1> QED
    BY <1>4, LenProperties

--------------------------------------------------------------------------------
(* What was given, without the silences.                                   *)

Heard == Sample \cup {Gap}
Piece(e) == IF e = Gap THEN <<>> ELSE <<e>>
Pieces(s) == [i \in DOMAIN s |-> Piece(s[i])]

(* A silence is no sample. *)
LEMMA PieceType ==
  /\ Gap \notin Sample
  /\ \A e \in Heard : Piece(e) \in Seq(Sample)
  /\ \A e \in Sample : Piece(e) = <<e>>
  /\ Piece(Gap) = <<>>
  <1>1. Gap \notin Sample
    BY DEF Gap, Sample
  <1>2. ASSUME NEW e \in Heard PROVE Piece(e) \in Seq(Sample)
    <2>1. CASE e = Gap
      BY <2>1, EmptySeq DEF Piece
    <2>2. CASE e # Gap
      <3>1. e \in Sample
        BY <2>2 DEF Heard
      <3>2. <<e>> \in Seq(Sample)
        BY <3>1
      <3> QED
        BY <2>2, <3>2 DEF Piece
    <2> QED
      BY <2>1, <2>2
  <1>3. ASSUME NEW e \in Sample PROVE Piece(e) = <<e>>
    BY <1>1 DEF Piece
  <1> QED
    BY <1>1, <1>2, <1>3 DEF Piece

(* What is heard of a sequence of samples and silences. *)
LEMMA GapsType ==
  ASSUME NEW s \in Seq(Heard)
  PROVE  /\ Pieces(s) \in Seq(Seq(Sample)) /\ Len(Pieces(s)) = Len(s)
         /\ \A i \in 1 .. Len(s) : Pieces(s)[i] = Piece(s[i])
         /\ WithoutGaps(s) = FlattenSeq(Pieces(s))
         /\ WithoutGaps(s) \in Seq(Sample)
  <1>1. PICK n \in Nat : n = Len(s) /\ DOMAIN s = 1 .. n
    BY LenProperties
  <1>2. \A i \in 1 .. n : s[i] \in Heard
    BY <1>1, ElementOfSeq
  <1>3. Pieces(s) = [i \in 1 .. n |-> Piece(s[i])]
    BY <1>1 DEF Pieces
  <1>4. Pieces(s) \in [1 .. n -> Seq(Sample)]
    BY <1>2, <1>3, PieceType
  <1>5. Pieces(s) \in Seq(Seq(Sample))
    BY <1>4, SeqDef
  <1>6. Len(Pieces(s)) = n
    BY <1>4, <1>5, LenProperties
  <1>7. WithoutGaps(s) = FlattenSeq(Pieces(s))
    BY DEF WithoutGaps, Pieces, Piece
  <1> QED
    BY <1>1, <1>3, <1>5, <1>6, <1>7, FlattenType

(* One sample or silence more. *)
LEMMA GapsNext ==
  ASSUME NEW s \in Seq(Heard), NEW e \in Heard
  PROVE  WithoutGaps(Append(s, e)) = WithoutGaps(s) \o Piece(e)
  <1>1. PICK n \in Nat : n = Len(s)
    BY LenProperties
  <1>2. PICK t \in Seq(Heard) : /\ t = Append(s, e) /\ Len(t) = n + 1
                                /\ \A i \in 1 .. n : t[i] = s[i]
                                /\ t[n + 1] = e
    BY <1>1, AppendProperties
  <1>3. PICK tt \in Seq(Seq(Sample)) : tt = Pieces(t) /\ Len(tt) = n + 1
    BY <1>2, GapsType
  <1>4. tt[n + 1] = Piece(e)
    <2>1. n + 1 \in 1 .. Len(t)
      BY <1>2
    <2> QED
      BY <1>2, <1>3, <2>1, GapsType
  <1>5. FirstOf(tt, n) = Pieces(s)
    <2>1. ASSUME NEW i \in 1 .. n PROVE tt[i] = Pieces(s)[i]
      <3>1. i \in 1 .. Len(t) /\ i \in 1 .. Len(s)
        BY <1>1, <1>2
      <3>2. tt[i] = Piece(t[i]) /\ Pieces(s)[i] = Piece(s[i])
        BY <1>3, <3>1, GapsType
      <3> QED
        BY <1>2, <3>2
    <2>2. /\ FirstOf(tt, n) \in Seq(Seq(Sample)) /\ Len(FirstOf(tt, n)) = n
          /\ \A i \in 1 .. n : FirstOf(tt, n)[i] = tt[i]
      <3>1. n \in 0 .. Len(tt)
        BY <1>3
      <3> QED
        BY <3>1, FirstOfProperties
    <2>3. Pieces(s) \in Seq(Seq(Sample)) /\ Len(Pieces(s)) = n
      BY <1>1, GapsType
    <2> QED
      BY <2>1, <2>2, <2>3, SeqEqual
  <1>6. FlattenSeq(tt) = FlattenSeq(FirstOf(tt, n)) \o tt[n + 1]
    BY <1>3, FlattenNext
  <1> QED
    BY <1>2, <1>3, <1>4, <1>5, <1>6, GapsType

(* Nothing is heard of nothing. *)
LEMMA GapsEmpty == WithoutGaps(<<>>) = <<>>
  <1>1. <<>> \in Seq(Heard) /\ Len(<<>>) = 0
    BY EmptySeq
  <1>2. Pieces(<<>>) \in Seq(Seq(Sample)) /\ Len(Pieces(<<>>)) = 0
    BY <1>1, GapsType
  <1>3. Pieces(<<>>) = <<>>
    BY <1>2, EmptySeq
  <1> QED
    BY <1>1, <1>3, GapsType, FlattenEmpty

(* A block is heard as it is.                                              *)
LEMMA GapsConcat ==
  ASSUME NEW s \in Seq(Heard), NEW b \in Seq(Sample)
  PROVE  s \o b \in Seq(Heard) /\ WithoutGaps(s \o b) = WithoutGaps(s) \o b
  <1>1. PICK W : W = WithoutGaps(s) /\ W \in Seq(Sample)
    BY GapsType
  <1>2. ASSUME NEW k \in Nat, k <= Len(b)
        PROVE  FirstOf(b, k) \in Seq(Sample) /\ FirstOf(b, k) \in Seq(Heard)
    <2>1. k \in 0 .. Len(b)
      BY <1>2, LenProperties
    <2>2. FirstOf(b, k) \in Seq(Sample)
      BY <2>1, FirstOfProperties
    <2> QED
      BY <2>2, SeqMonotonic DEF Heard
  <1> DEFINE Holds(k) == WithoutGaps(s \o FirstOf(b, k)) = W \o FirstOf(b, k)
             I == {k \in Nat : k <= Len(b) => Holds(k)}
  <1>3. Holds(0)
    <2>1. FirstOf(b, 0) = <<>>
      BY FirstOfAll
    <2>2. s \o <<>> = s /\ W \o <<>> = W
      BY <1>1, ConcatEmptySeq
    <2> QED
      BY <1>1, <2>1, <2>2
  <1>4. ASSUME NEW k \in Nat, k + 1 <= Len(b), Holds(k) PROVE Holds(k + 1)
    <2>1. k <= Len(b) /\ k + 1 \in 1 .. Len(b)
      BY <1>4, LenProperties
    <2>2. PICK e : e \in Sample /\ e = b[k + 1] /\ e \in Heard
      BY <2>1, ElementOfSeq DEF Heard
    <2>3. PICK f : f = FirstOf(b, k) /\ f \in Seq(Sample) /\ f \in Seq(Heard)
      BY <1>2, <2>1
    <2>4. FirstOf(b, k + 1) = Append(f, e)
      <3>1. /\ FirstOf(b, k + 1) \in Seq(Sample) /\ Len(FirstOf(b, k + 1)) = k + 1
            /\ \A i \in 1 .. k + 1 : FirstOf(b, k + 1)[i] = b[i]
        <4>1. k + 1 \in 0 .. Len(b)
          BY <2>1
        <4> QED
          BY <4>1, FirstOfProperties
      <3>2. Len(f) = k /\ \A i \in 1 .. k : f[i] = b[i]
        <4>1. k \in 0 .. Len(b)
          BY <2>1, LenProperties
        <4> QED
          BY <2>3, <4>1, FirstOfProperties
      <3>3. /\ Append(f, e) \in Seq(Sample) /\ Len(Append(f, e)) = k + 1
            /\ \A i \in 1 .. k : Append(f, e)[i] = b[i]
            /\ Append(f, e)[k + 1] = b[k + 1]
        BY <2>2, <2>3, <3>2, AppendProperties
      <3>4. ASSUME NEW i \in 1 .. k + 1 PROVE FirstOf(b, k + 1)[i] = Append(f, e)[i]
        <4>1. i \in 1 .. k \/ i = k + 1
          OBVIOUS
        <4> QED
          BY <3>1, <3>3, <4>1
      <3> QED
        BY <3>1, <3>3, <3>4, SeqEqual
    <2>5. s \o Append(f, e) = Append(s \o f, e) /\ s \o f \in Seq(Heard)
      <3>1. Append(f, e) = f \o <<e>> /\ <<e>> \in Seq(Heard)
        BY <2>2, <2>3, AppendIsConcat
      <3>2. s \o (f \o <<e>>) = (s \o f) \o <<e>>
        BY <2>3, <3>1, ConcatAssociative
      <3>3. s \o f \in Seq(Heard)
        BY <2>3, ConcatProperties
      <3>4. Append(s \o f, e) = (s \o f) \o <<e>>
        BY <2>2, <3>3, AppendIsConcat
      <3> QED
        BY <3>1, <3>2, <3>3, <3>4
    <2>6. WithoutGaps(Append(s \o f, e)) = WithoutGaps(s \o f) \o <<e>>
      BY <2>2, <2>5, GapsNext, PieceType
    <2>7. WithoutGaps(s \o f) = W \o f
      BY <1>4, <2>3
    <2>8. (W \o f) \o <<e>> = W \o Append(f, e)
      <3>1. Append(f, e) = f \o <<e>> /\ <<e>> \in Seq(Sample)
        BY <2>2, <2>3, AppendIsConcat
      <3>2. W \o (f \o <<e>>) = (W \o f) \o <<e>>
        <4>1. W \in Seq(Sample) /\ f \in Seq(Sample) /\ <<e>> \in Seq(Sample)
          BY <1>1, <2>3, <3>1
        <4> QED
          BY <4>1, Regroup, SMTT(30)
      <3> QED
        BY <3>1, <3>2
    <2> QED
      BY <2>4, <2>5, <2>6, <2>7, <2>8
  <1> HIDE DEF Holds
  <1>5. I = Nat
    <2>1. 0 \in I
      BY <1>3
    <2>2. ASSUME NEW k \in I PROVE k + 1 \in I
      <3> SUFFICES ASSUME k + 1 <= Len(b) PROVE Holds(k + 1)
        OBVIOUS
      <3>1. k \in Nat /\ Len(b) \in Nat
        BY LenProperties
      <3>2. k <= Len(b)
        BY <3>1
      <3> QED
        BY <1>4, <3>1, <3>2
    <2> HIDE DEF I
    <2> QED
      BY <2>1, <2>2, AllNaturals DEF I
  <1>6. Holds(Len(b))
    <2>1. Len(b) \in Nat
      BY LenProperties
    <2>2. Len(b) \in I
      <3> HIDE DEF I
      <3> QED
        BY <1>5, <2>1
    <2> QED
      BY <2>1, <2>2
  <1>7. b \in Seq(Heard)
    BY SeqMonotonic DEF Heard
  <1>8. s \o b \in Seq(Heard)
    BY <1>7, ConcatProperties
  <1> QED
    BY <1>1, <1>6, <1>8, FirstOfAll DEF Holds

(* What is not a silence is heard last.                                    *)
LEMMA LastHeard ==
  ASSUME NEW s \in Seq(Heard), s # <<>>, Last(s) # Gap
  PROVE  WithoutGaps(s) # <<>> /\ Last(WithoutGaps(s)) = Last(s)
  <1>1. PICK t \in Seq(Heard), e \in Heard : s = Append(t, e)
    BY SequenceEmptyOrAppend
  <1>2. e = Last(s)
    <2>1. Len(Append(t, e)) = Len(t) + 1 /\ Append(t, e)[Len(t) + 1] = e
      BY AppendProperties
    <2> QED
      BY <1>1, <2>1 DEF Last
  <1>3. e \in Sample /\ Piece(e) = <<e>>
    BY <1>2, PieceType DEF Heard
  <1>4. PICK u : u = <<e>> /\ u \in Seq(Sample) /\ u # <<>> /\ Last(u) = e
    <2>1. <<e>> \in Seq(Sample) /\ Len(<<e>>) = 1 /\ <<e>>[1] = e /\ <<e>> # <<>>
      BY <1>3
    <2> QED
      BY <2>1 DEF Last
  <1>5. PICK w : w = WithoutGaps(t) /\ w \in Seq(Sample)
    BY <1>1, GapsType
  <1>6. (w \o u) # <<>> /\ Last(w \o u) = e
    <2>1. w \in Seq(Sample) /\ u \in Seq(Sample) /\ u # <<>>
      BY <1>4, <1>5
    <2>2. (w \o u) # <<>> /\ Last(w \o u) = Last(u)
      BY <2>1, LastOfConcat
    <2> QED
      BY <1>4, <2>2
  <1>7. WithoutGaps(s) = w \o u
    BY <1>1, <1>3, <1>4, <1>5, GapsNext
  <1> QED
    BY <1>2, <1>6, <1>7

(* A silence at the end changes nothing of what is heard. *)
LEMMA GapNotHeard ==
  ASSUME NEW s \in Seq(Heard)
  PROVE  WithGap(s) \in Seq(Heard) /\ WithoutGaps(WithGap(s)) = WithoutGaps(s)
  <1>1. CASE s # <<>> /\ Last(s) = Gap
    BY <1>1 DEF WithGap
  <1>2. CASE ~ (s # <<>> /\ Last(s) = Gap)
    <2>1. WithGap(s) = Append(s, Gap) /\ Gap \in Heard
      BY <1>2 DEF WithGap, Heard
    <2>2. WithoutGaps(Append(s, Gap)) = WithoutGaps(s) \o <<>>
      BY <2>1, GapsNext, PieceType
    <2>3. WithoutGaps(s) \o <<>> = WithoutGaps(s)
      BY GapsType, ConcatEmptySeq
    <2> QED
      BY <2>1, <2>2, <2>3, AppendProperties
  <1> QED
    BY <1>1, <1>2

--------------------------------------------------------------------------------
(* The steps that give samples.                                            *)

(* The command at a place of a message with n symbols.                     *)
CodeOf(m, C, n) ==
  /\ C = Commands(m) /\ n = Len(Plan[m].symbols) /\ n \in Nat /\ Plan[m].repeats \in Nat
  /\ Len(C) \in Nat /\ DOMAIN C = 1 .. Len(C)
  /\ \/ Plan[m].repeats > 0 /\ Len(C) = n + 2
     \/ Plan[m].repeats = 0 /\ Len(C) = n + 1
  /\ \A i \in 1 .. Len(C) : C[i].action = "STOP" <=> i = Len(C)
  /\ \A i \in 1 .. n : C[i].action = "GEN_SYMBOL" /\ C[i].value = Plan[m].symbols[i]
  /\ \A i \in 1 .. Len(C) : i = n + 1 /\ Plan[m].repeats > 0 =>
                             C[i].action = "REPEAT" /\ C[i].value = Plan[m].repeats

(* The commands of a message have that shape. *)
LEMMA CodeShape ==
  ASSUME NEW m \in Messages
  PROVE  CodeOf(m, Commands(m), Len(Plan[m].symbols))
  <1>1. Len(Plan[m].symbols) \in Nat /\ Plan[m].repeats \in Nat
    BY PlanFacts
  <1>2. /\ Len(Commands(m)) \in Nat \ {0}
        /\ DOMAIN Commands(m) = 1 .. Len(Commands(m))
        /\ Len(Commands(m)) = Len(Plan[m].symbols) + (IF Plan[m].repeats > 0 THEN 2 ELSE 1)
    BY CommandsProperties
  <1>3. /\ \A i \in 1 .. Len(Commands(m)) :
             Commands(m)[i].action = "STOP" <=> i = Len(Commands(m))
        /\ \A i \in 1 .. Len(Plan[m].symbols) :
             Commands(m)[i].action = "GEN_SYMBOL" /\ Commands(m)[i].value = Plan[m].symbols[i]
        /\ \A i \in 1 .. Len(Commands(m)) :
             i = Len(Plan[m].symbols) + 1 /\ Plan[m].repeats > 0 =>
               Commands(m)[i].action = "REPEAT" /\ Commands(m)[i].value = Plan[m].repeats
    BY CommandsProperties, Zenon
  <1>4. \/ /\ Plan[m].repeats > 0
           /\ Len(Commands(m)) = Len(Plan[m].symbols) + 2
        \/ /\ Plan[m].repeats = 0
           /\ Len(Commands(m)) = Len(Plan[m].symbols) + 1
    <2>1. PICK len, n, p : /\ len = Len(Commands(m)) /\ n = Len(Plan[m].symbols)
                           /\ p = Plan[m].repeats
      OBVIOUS
    <2>2. len \in Nat /\ n \in Nat /\ p \in Nat /\ len = n + (IF p > 0 THEN 2 ELSE 1)
      BY <1>1, <1>2, <2>1, Zenon
    <2>3. (p > 0 /\ len = n + 2) \/ (p = 0 /\ len = n + 1)
      BY <2>2
    <2> QED
      BY <2>1, <2>3, Zenon
  <1> QED
    BY <1>1, <1>2, <1>3, <1>4, Zenon DEF CodeOf

(* The command of the interpreter and the place it is at agree. *)
LEMMA CurrentPosition ==
  ASSUME TxInv, RepeatInv, cur # Idle
  PROVE  /\ Position(cur) /\ cur.index \in 1 .. Len(Commands(cur.msg))
         /\ Command.action = "GEN_SYMBOL" =>
              /\ cur.index <= Len(Plan[cur.msg].symbols)
              /\ Command.value = Plan[cur.msg].symbols[cur.index]
         /\ Command.action \in {"REPEAT", "STOP"} =>
              cur.index > Len(Plan[cur.msg].symbols) /\ cur.remaining = 0
         /\ Command.action = "REPEAT" => Command.value = Plan[cur.msg].repeats
  <1>1. PICK m, i : m = cur.msg /\ i = cur.index /\ m \in Messages
    BY DEF TxInv, CodeInv
  <1>6. PICK C, n : CodeOf(m, C, n)
    BY <1>1, CodeShape
  <1>2. /\ C = Commands(m) /\ n = Len(Plan[m].symbols) /\ n \in Nat
        /\ Len(C) \in Nat /\ DOMAIN C = 1 .. Len(C) /\ Plan[m].repeats \in Nat
        /\ \/ Plan[m].repeats > 0 /\ Len(C) = n + 2
           \/ Plan[m].repeats = 0 /\ Len(C) = n + 1
    BY <1>6 DEF CodeOf
  <1>3. /\ cur \in [msg : Messages \cup {None}, index : Nat, remaining : Nat, repeat : Nat]
        /\ i \in 1 .. Len(C)
        /\ cur.remaining > 0 => C[i].action = "GEN_SYMBOL" /\ cur.remaining <= C[i].value
        /\ Command = C[i]
    BY <1>1, <1>2
    DEF TxInv, TransmissionTypes, CodeInv, InterpreterStaysInCode, Command
  <1>7. /\ n \in Nat /\ i \in Nat /\ i >= 1
        /\ i > n => i = Len(C) \/ (i = n + 1 /\ Plan[m].repeats > 0)
    <2>1. PICK len, p : len = Len(C) /\ p = Plan[m].repeats
      OBVIOUS
    <2>2. /\ len \in Nat /\ n \in Nat /\ p \in Nat /\ i \in 1 .. len
          /\ (p > 0 /\ len = n + 2) \/ (p = 0 /\ len = n + 1)
      BY <1>2, <1>3, <2>1, Zenon
    <2>3. /\ i \in Nat /\ i >= 1
          /\ i > n => i = len \/ (i = n + 1 /\ p > 0)
      BY <2>2
    <2> QED
      BY <2>1, <2>2, <2>3, Zenon
  <1>8. i <= n \/ i > n
    BY <1>7
  <1>4. CASE i <= n
    <2>1. i \in 1 .. n
      BY <1>4, <1>7
    <2>2. C[i].action = "GEN_SYMBOL" /\ C[i].value = Plan[m].symbols[i]
      BY <1>6, <2>1 DEF CodeOf
    <2>3. Position(cur)
      <3>1. cur \in [msg : Messages, index : Nat \ {0}, remaining : Nat, repeat : Nat]
        BY <1>1, <1>3, <2>1
      <3>2. cur.repeat <= Plan[m].repeats
        BY <1>1 DEF RepeatInv
      <3> QED
        BY <1>1, <1>2, <1>3, <1>4, <2>2, <3>1, <3>2 DEF Position
    <2> QED
      BY <1>1, <1>2, <1>3, <1>4, <2>2, <2>3
  <1>5. CASE i > n
    <2>1. C[i].action = "STOP" \/ (C[i].action = "REPEAT" /\ C[i].value = Plan[m].repeats)
      <3>1. CASE i = Len(C)
        <4>1. C[i].action = "STOP" <=> i = Len(C)
          BY <1>3, <1>6 DEF CodeOf
        <4> QED
          BY <3>1, <4>1
      <3>2. CASE i # Len(C)
        <4>1. i = n + 1 /\ Plan[m].repeats > 0
          BY <1>5, <1>7, <3>2
        <4> QED
          BY <1>3, <1>6, <4>1 DEF CodeOf
      <3> QED
        BY <3>1, <3>2
    <2>2. cur.remaining = 0
      BY <1>3, <2>1
    <2>3. Position(cur)
      <3>1. cur \in [msg : Messages, index : Nat \ {0}, remaining : Nat, repeat : Nat]
        BY <1>1, <1>2, <1>3
      <3>2. cur.repeat <= Plan[m].repeats
        BY <1>1 DEF RepeatInv
      <3> QED
        BY <1>1, <2>2, <3>1, <3>2 DEF Position
    <2> QED
      BY <1>1, <1>2, <1>3, <1>5, <2>1, <2>2, <2>3
  <1> QED
    BY <1>4, <1>5, <1>8, Zenon

(* The values the stream depends on.                                       *)
LEMMA StreamValues ==
  ASSUME TxInv, SentInv
  PROVE  /\ out \in Seq(Heard) /\ block \in Seq(Sample) /\ WithoutGaps(out) \in Seq(Sample)
         /\ accepted \in Seq(Messages) /\ heap \in Seq(Messages)
         /\ Taken \in 0 .. Len(accepted) /\ Len(heap) \in Nat /\ Len(accepted) \in Nat
         /\ Sent(accepted, Taken) \in Seq(Sample)
         /\ Position(cur) \/ cur = Idle
         /\ cur # Idle => /\ Taken - 1 \in 0 .. Len(accepted) /\ Taken - 1 \in Nat
                          /\ Sent(accepted, Taken - 1) \in Seq(Sample)
                          /\ Sent(accepted, Taken) = Sent(accepted, Taken - 1) \o Samples(cur.msg)
  <1>1. /\ out \in Seq(Heard) /\ block \in Seq(Sample)
        /\ accepted \in Seq(Messages) /\ heap \in Seq(Messages)
        /\ Len(heap) <= Len(accepted)
    BY DEF TxInv, TransmissionTypes, SentInv, StreamInv, HeapInv, Heard
  <1>2. Len(heap) \in Nat /\ Len(accepted) \in Nat
    BY <1>1, LenProperties
  <1>3. Taken \in 0 .. Len(accepted)
    BY <1>1, <1>2 DEF Taken
  <1>4. Sent(accepted, Taken) \in Seq(Sample)
    BY <1>1, <1>3, SentIs
  <1>5. ASSUME cur # Idle
        PROVE  /\ Taken - 1 \in 0 .. Len(accepted) /\ Taken - 1 \in Nat
               /\ Sent(accepted, Taken - 1) \in Seq(Sample)
               /\ Sent(accepted, Taken) = Sent(accepted, Taken - 1) \o Samples(cur.msg)
    <2>1. Taken >= 1 /\ accepted[Taken] = cur.msg
      BY <1>5 DEF SentInv, HeapInv
    <2>2. PICK k \in Nat : k + 1 = Taken /\ k = Taken - 1
      BY <1>3, <2>1
    <2>3. k + 1 <= Len(accepted) /\ k \in 0 .. Len(accepted)
      BY <1>2, <1>3, <2>2
    <2>4. Sent(accepted, k + 1) = Sent(accepted, k) \o Samples(accepted[k + 1])
      BY <1>1, <2>3, SentNext
    <2>5. Sent(accepted, k) \in Seq(Sample)
      BY <1>1, <2>3, SentIs
    <2> QED
      BY <2>1, <2>2, <2>3, <2>4, <2>5
  <1>6. Position(cur) \/ cur = Idle
    BY CurrentPosition DEF SentInv
  <1> QED
    BY <1>1, <1>2, <1>3, <1>4, <1>5, <1>6, GapsType

(* The interpreter goes on with its message.                               *)
LEMMA SentMove ==
  ASSUME TxInv, SentInv, filling,
         NEW X, X \in Seq(Sample), block' = block \o X,
         Position(cur'), cur'.msg = cur.msg, Made(cur') = Made(cur) \o X, RepeatInv',
         UNCHANGED <<heap, filling, data, out, stop, accepted>>
  PROVE  SentInv'
  <1>1. cur # Idle /\ ~ (data.exitIn >= 0)
    BY DEF TxInv, CodeInv, DrainInv, TransmissionTypes
  <1>2. cur' # Idle
    <2>1. cur'.index # 0
      BY DEF Position
    <2> QED
      BY <2>1 DEF Idle
  <1>3. HeapInv'
    BY <1>1, <1>2 DEF SentInv, HeapInv, Taken
  <1>4. DrainedIdle'
    BY <1>1 DEF DrainedIdle
  <1>5. StreamInv'
    <2>1. PICK W, S, M : /\ W = WithoutGaps(out) /\ W \in Seq(Sample)
                         /\ S = Sent(accepted, Taken - 1) /\ S \in Seq(Sample)
                         /\ M = Made(cur) /\ M \in Seq(Sample)
                         /\ W \o block = S \o M
      BY <1>1, StreamValues, MadeType DEF SentInv, StreamInv
    <2>2. (W \o block) \o X = W \o (block \o X)
      <3>1. W \in Seq(Sample) /\ block \in Seq(Sample) /\ X \in Seq(Sample)
        BY <2>1, StreamValues
      <3> QED
        BY <3>1, Regroup, SMTT(30)
    <2>3. (S \o M) \o X = S \o (M \o X)
      <3>1. S \in Seq(Sample) /\ M \in Seq(Sample) /\ X \in Seq(Sample)
        BY <2>1
      <3> QED
        BY <3>1, Regroup, SMTT(30)
    <2>4. W \o block' = S \o Made(cur')
      BY <2>1, <2>2, <2>3
    <2>5. Taken' = Taken
      BY DEF Taken
    <2>6. WithoutGaps(out)' = W /\ Sent(accepted, Taken - 1)' = S /\ Made(cur)' = Made(cur')
      BY <2>1, <2>5
    <2> QED
      BY <1>2, <2>4, <2>6 DEF SentInv, StreamInv
  <1>6. GapInv'
    BY DEF SentInv, GapInv, GapsAre
  <1> QED
    BY <1>3, <1>4, <1>5, <1>6 DEF SentInv

(* getNextSamples goes on in its loop. *)
LEMMA SentFill ==
  ASSUME TxInv, SentInv, FillBlock, UNCHANGED <<stop, accepted>>
  PROVE  SentInv'
  <1>1. /\ filling /\ Room > 0
        /\ UNCHANGED <<heap, filling, data, out, stop, accepted>>
    BY DEF FillBlock, Generate, GenSymbol, Repeat, Filling
  <1>2. cur # Idle /\ RepeatInv
    BY <1>1 DEF TxInv, CodeInv, SentInv
  <1>11. PICK m, i : m = cur.msg /\ i = cur.index /\ m \in Messages
    BY <1>2 DEF TxInv, CodeInv
  <1>12. PICK C, n : CodeOf(m, C, n)
    BY <1>11, CodeShape
  <1>13. C = Commands(m)
    BY <1>12 DEF CodeOf
  <1>3. /\ m = cur.msg /\ i = cur.index /\ m \in Messages
        /\ i \in 1 .. Len(C) /\ C = Commands(m)
        /\ n = Len(Plan[m].symbols) /\ n \in Nat /\ Len(C) \in Nat
        /\ Plan[m].repeats \in Nat
        /\ \/ Plan[m].repeats > 0 /\ Len(C) = n + 2
           \/ Plan[m].repeats = 0 /\ Len(C) = n + 1
    <2>1. i \in 1 .. Len(C)
      BY <1>2, <1>11, <1>13, CurrentPosition
    <2> QED
      BY <1>11, <1>12, <2>1 DEF CodeOf
  <1>4. /\ Position(cur) /\ Command = C[i]
        /\ Command.action = "GEN_SYMBOL" => i <= n /\ Command.value = Plan[m].symbols[i]
        /\ Command.action = "REPEAT" =>
             i > n /\ cur.remaining = 0 /\ Command.value = Plan[m].repeats
    BY <1>2, <1>3, CurrentPosition DEF Command
  <1>5. /\ cur.remaining \in Nat /\ cur.repeat \in Nat /\ cur.repeat <= Plan[m].repeats
        /\ block \in Seq(Sample)
    BY <1>3, <1>4, StreamValues DEF Position
  <1>6. block = block \o <<>> /\ <<>> \in Seq(Sample) /\ Made(cur) = Made(cur) \o <<>>
    BY <1>4, <1>5, EmptySeq, ConcatEmptySeq, MadeType
  <1>7. ASSUME i <= n, NEW next, next \in {i, i + 1}, Position(cur'), cur'.msg = m,
               cur'.index = next, cur'.repeat = cur.repeat
        PROVE  RepeatInv'
    <2>1. ASSUME C[next].action = "STOP" PROVE Plan[m].repeats = cur.repeat
      <3>1. next \in 1 .. Len(C)
        BY <1>3, <1>7
      <3>2. next = Len(C)
        BY <1>12, <2>1, <3>1 DEF CodeOf
      <3>3. ~ (Plan[m].repeats > 0)
        BY <1>3, <1>7, <3>2
      <3> QED
        BY <1>3, <1>5, <3>3
    <2>2. Command' = C[next]
      BY <1>3, <1>7 DEF Command
    <2> QED
      BY <1>7, <2>1, <2>2 DEF RepeatInv, Position
  <1>8. CASE Generate
    <2>1. PICK k : k = IF cur.remaining > Room THEN Room ELSE cur.remaining
      OBVIOUS
    <2>2. /\ cur.remaining > 0 /\ Command.action = "GEN_SYMBOL"
          /\ block' = block \o Modulated(cur, k)
          /\ cur' = [cur EXCEPT !.remaining = cur.remaining - k,
                                !.index = IF cur.remaining - k = 0 THEN @ + 1 ELSE @]
      BY <1>2, <1>8, <2>1
      DEF Generate, LeftAfter, TxInv, CodeInv, InterpreterStaysInCode
    <2>3. Room \in Int /\ k \in Nat \ {0} /\ cur.remaining - k \in Nat
      <3>1. Room \in Int
        BY <1>5, PlanAssumption, LenProperties DEF Room
      <3> QED
        BY <1>1, <1>5, <2>1, <2>2, <3>1
    <2>4. PICK left \in Nat : left = cur.remaining - k /\ cur.remaining = k + left
      BY <1>5, <2>3
    <2>5. PICK next : next = IF left > 0 THEN i ELSE i + 1
      OBVIOUS
    <2>6. cur' = [msg |-> m, index |-> next, remaining |-> left, repeat |-> cur.repeat]
      <3>1. cur \in [msg : Messages, index : Nat \ {0}, remaining : Nat, repeat : Nat]
        BY <1>4 DEF Position
      <3>2. next = IF left = 0 THEN i + 1 ELSE i
        <4>1. left > 0 <=> ~ (left = 0)
          BY <2>4
        <4> QED
          BY <2>5, <4>1, Zenon
      <3> QED
        BY <1>3, <2>2, <2>4, <3>1, <3>2
    <2>7. Generated(cur, k, left, next, cur')
      BY <1>3, <1>4, <2>2, <2>3, <2>4, <2>5, <2>6 DEF Generated
    <2>8. /\ Position(cur') /\ Modulated(cur, k) \in Seq(Sample)
          /\ Made(cur') = Made(cur) \o Modulated(cur, k)
      BY <1>4, <2>7, MadeGenerate
    <2>9. RepeatInv'
      <3>1. i <= n /\ next \in {i, i + 1}
        BY <1>4, <2>2, <2>5
      <3>2. cur'.msg = m /\ cur'.index = next /\ cur'.repeat = cur.repeat
        BY <2>6
      <3> QED
        BY <1>7, <2>8, <3>1, <3>2, Zenon
    <2> QED
      BY <1>1, <1>3, <2>2, <2>6, <2>8, <2>9, SentMove
  <1>9. CASE GenSymbol
    <2>1. /\ Command.action = "GEN_SYMBOL" /\ cur.remaining = 0 /\ block' = block
          /\ cur' = [cur EXCEPT !.remaining = Command.value,
                                !.index = IF Command.value = 0 THEN @ + 1 ELSE @]
      BY <1>9 DEF GenSymbol, Filling
    <2>2. PICK next : next = IF Plan[m].symbols[i] = 0 THEN i + 1 ELSE i
      OBVIOUS
    <2>3. cur' = [msg |-> m, index |-> next, remaining |-> Plan[m].symbols[i],
                  repeat |-> cur.repeat]
      <3>1. cur \in [msg : Messages, index : Nat \ {0}, remaining : Nat, repeat : Nat]
        BY <1>4 DEF Position
      <3> QED
        BY <1>3, <1>4, <2>1, <2>2, <3>1
    <2>4. Position(cur') /\ Made(cur') = Made(cur)
      BY <1>3, <1>4, <2>1, <2>2, <2>3, MadeSymbol
    <2>5. RepeatInv'
      <3>1. i <= n /\ next \in {i, i + 1}
        BY <1>4, <2>1, <2>2
      <3>2. cur'.msg = m /\ cur'.index = next /\ cur'.repeat = cur.repeat
        BY <2>3
      <3> QED
        BY <1>7, <2>4, <3>1, <3>2, Zenon
    <2>6. block' = block \o <<>> /\ Made(cur') = Made(cur) \o <<>>
      BY <1>6, <2>1, <2>4
    <2> QED
      BY <1>1, <1>3, <1>6, <2>3, <2>4, <2>5, <2>6, SentMove
  <1>10. CASE Repeat
    <2>1. /\ Command.action = "REPEAT" /\ block' = block
          /\ cur' = IF cur.repeat < Plan[m].repeats
                      THEN [cur EXCEPT !.index = 1, !.repeat = @ + 1]
                      ELSE [cur EXCEPT !.index = @ + 1]
      BY <1>4, <1>10 DEF Repeat, Filling
    <2>2. /\ cur \in [msg : Messages, index : Nat \ {0}, remaining : Nat, repeat : Nat]
          /\ cur.remaining = 0 /\ i > n
      BY <1>4, <2>1 DEF Position
    <2>3. \/ /\ cur.repeat < Plan[m].repeats
             /\ cur' = [msg |-> m, index |-> 1, remaining |-> 0, repeat |-> cur.repeat + 1]
          \/ /\ ~ (cur.repeat < Plan[m].repeats)
             /\ cur' = [msg |-> m, index |-> i + 1, remaining |-> 0, repeat |-> cur.repeat]
      BY <1>3, <2>1, <2>2
    <2>4. Position(cur') /\ Made(cur') = Made(cur) /\ cur'.msg = m
      BY <1>3, <1>4, <2>2, <2>3, MadeRepeat
    <2>5. RepeatInv'
      <3>1. CASE /\ cur.repeat < Plan[m].repeats
                 /\ cur' = [msg |-> m, index |-> 1, remaining |-> 0, repeat |-> cur.repeat + 1]
        <4>1. Command' = C[1]
          BY <1>3, <3>1 DEF Command
        <4>2. 1 \in 1 .. Len(C) /\ 1 # Len(C)
          <5>1. PICK len, p, r : len = Len(C) /\ p = Plan[m].repeats /\ r = cur.repeat
            OBVIOUS
          <5>2. /\ n \in Nat /\ len \in Nat /\ p \in Nat /\ r \in Nat /\ r < p
                /\ (p > 0 /\ len = n + 2) \/ (p = 0 /\ len = n + 1)
            BY <1>3, <1>5, <3>1, <5>1, Zenon
          <5>3. len = n + 2
            BY <5>2
          <5> QED
            BY <5>1, <5>2, <5>3
        <4>3. C[1].action # "STOP"
          BY <1>12, <4>2 DEF CodeOf
        <4> QED
          BY <2>4, <4>1, <4>3 DEF RepeatInv, Position
      <3>2. CASE /\ ~ (cur.repeat < Plan[m].repeats)
                 /\ cur' = [msg |-> m, index |-> i + 1, remaining |-> 0, repeat |-> cur.repeat]
        <4>1. cur.repeat = Plan[m].repeats
          BY <1>3, <1>5, <3>2
        <4> QED
          BY <2>4, <3>2, <4>1 DEF RepeatInv, Position
      <3> QED
        BY <2>3, <3>1, <3>2
    <2>6. block' = block \o <<>> /\ Made(cur') = Made(cur) \o <<>>
      BY <1>6, <2>1, <2>4
    <2> QED
      BY <1>1, <1>3, <1>6, <2>4, <2>5, <2>6, SentMove
  <1> QED
    BY <1>8, <1>9, <1>10 DEF FillBlock

--------------------------------------------------------------------------------
(* The silences.                                                           *)

(* A silence may be added at the end of a message, or for ever. *)
LEMMA GapAdded ==
  ASSUME NEW s \in Seq(Heard), NEW open \in BOOLEAN, GapsAre(s, open),
         ~open => WithoutGaps(s) = <<>> \/ Closed(Last(WithoutGaps(s)))
  PROVE  GapsAre(WithGap(s), open)
  <1>1. CASE s # <<>> /\ Last(s) = Gap
    BY <1>1 DEF WithGap
  <1>2. CASE ~ (s # <<>> /\ Last(s) = Gap)
    <2>1. PICK n \in Nat : n = Len(s)
      BY LenProperties
    <2>2. PICK t : /\ t = Append(s, Gap) /\ t = WithGap(s) /\ Len(t) = n + 1
                   /\ \A i \in 1 .. n : t[i] = s[i]
                   /\ t[n + 1] = Gap
      <3>1. WithGap(s) = Append(s, Gap)
        BY <1>2 DEF WithGap
      <3>2. Gap \in Heard
        BY DEF Heard
      <3> QED
        BY <2>1, <3>1, <3>2, AppendProperties
    <2>3. ASSUME NEW i \in 2 .. n + 1, t[i] = Gap
          PROVE  Closed(t[i - 1]) \/ (i = n + 1 /\ open)
      <3>1. CASE i # n + 1
        <4>1. i \in 2 .. n /\ i \in 1 .. n /\ i - 1 \in 1 .. n
          BY <2>1, <3>1
        <4>2. t[i] = s[i] /\ t[i - 1] = s[i - 1]
          BY <2>2, <4>1
        <4>3. Closed(s[i - 1]) \/ i = n
          BY <2>1, <2>3, <4>1, <4>2 DEF GapsAre
        <4>4. i # n
          <5>1. ASSUME i = n PROVE FALSE
            <6>1. s # <<>> /\ Last(s) = s[n]
              BY <2>1, <4>1, EmptySeq DEF Last
            <6> QED
              BY <1>2, <2>3, <4>2, <5>1, <6>1
          <5> QED
            BY <5>1
        <4> QED
          BY <4>2, <4>3, <4>4
      <3>2. CASE i = n + 1 /\ ~open
        <4>1. s # <<>> /\ Last(s) = s[n] /\ n \in 1 .. n /\ i - 1 = n
          BY <2>1, <3>2, EmptySeq DEF Last
        <4>2. WithoutGaps(s) # <<>> /\ Last(WithoutGaps(s)) = Last(s)
          BY <1>2, <4>1, LastHeard
        <4>3. Closed(s[n]) /\ t[n] = s[n]
          BY <2>2, <3>2, <4>1, <4>2
        <4> QED
          BY <4>1, <4>3
      <3> QED
        BY <3>1, <3>2
    <2> QED
      BY <2>2, <2>3 DEF GapsAre
  <1> QED
    BY <1>1, <1>2

(* A block of samples adds no silence. *)
LEMMA GapsKept ==
  ASSUME NEW s \in Seq(Heard), NEW b \in Seq(Sample), GapsAre(s, FALSE)
  PROVE  GapsAre(s \o b, FALSE)
  <1>1. PICK n, l : n = Len(s) /\ l = Len(b) /\ n \in Nat /\ l \in Nat
    BY LenProperties
  <1>2. b \in Seq(Heard)
    BY SeqMonotonic DEF Heard
  <1>3. PICK t : /\ t = s \o b /\ Len(t) = n + l
                 /\ \A i \in 1 .. n + l : t[i] = IF i <= n THEN s[i] ELSE b[i - n]
    <2>1. /\ Len(s \o b) = Len(s) + Len(b)
          /\ \A i \in 1 .. Len(s) + Len(b) :
               (s \o b)[i] = IF i <= Len(s) THEN s[i] ELSE b[i - Len(s)]
      BY <1>2, ConcatProperties, Zenon
    <2> QED
      BY <1>1, <2>1, Zenon
  <1>4. ASSUME NEW i \in 2 .. n + l, t[i] = Gap PROVE Closed(t[i - 1])
    <2>1. i \in 1 .. n + l /\ i - 1 \in 1 .. n + l
      BY <1>1
    <2>2. CASE i <= n
      <3>1. i \in 2 .. n /\ i - 1 <= n
        BY <1>1, <2>2
      <3>2. t[i] = s[i] /\ t[i - 1] = s[i - 1]
        BY <1>3, <2>1, <2>2, <3>1
      <3> QED
        BY <1>1, <1>4, <3>1, <3>2 DEF GapsAre
    <2>3. CASE ~ (i <= n)
      <3>1. t[i] = b[i - n] /\ i - n \in 1 .. l
        BY <1>1, <1>3, <2>1, <2>3
      <3>2. b[i - n] \in Sample
        BY <1>1, <3>1, ElementOfSeq
      <3> QED
        BY <1>4, <3>1, <3>2, PieceType
    <2> QED
      BY <2>2, <2>3
  <1> QED
    BY <1>3, <1>4 DEF GapsAre

(* A silent block: no message is being sent, or the signal came.           *)
LEMMA SentSilence ==
  ASSUME TxInv, SentInv, ~filling, cur = Idle \/ stop,
         NEW exitIn, NEW newPhy, Give(Silence, exitIn, newPhy),
         UNCHANGED <<heap, cur, filling, block, stop, accepted>>
  PROVE  SentInv'
  <1>1. /\ out \in Seq(Heard) /\ block = <<>> /\ WithoutGaps(out) \in Seq(Sample)
        /\ accepted \in Seq(Messages) /\ Taken \in 0 .. Len(accepted)
    BY StreamValues DEF SentInv, StreamInv
  <1>2. out' = WithGap(out)
    <2>1. out \o Silence = out /\ Len(Silence) < BlockSize
      BY <1>1, ConcatEmptySeq, EmptySeq, PlanAssumption DEF Silence
    <2> QED
      BY <2>1 DEF Give
  <1>3. out' \in Seq(Heard) /\ WithoutGaps(out') = WithoutGaps(out)
    BY <1>1, <1>2, GapNotHeard
  <1>4. HeapInv' /\ RepeatInv'
    BY DEF SentInv, HeapInv, RepeatInv, Taken, Command
  <1>5. DrainedIdle'
    BY DEF DrainedIdle
  <1>6. StreamInv'
    <2>1. WithoutGaps(out)' = WithoutGaps(out) /\ Taken' = Taken /\ Made(cur)' = Made(cur)
      BY <1>3 DEF Taken
    <2>2. out' \in Seq(Sample \cup {Gap})
      BY <1>3 DEF Heard
    <2> QED
      BY <2>1, <2>2 DEF SentInv, StreamInv
  <1>7. GapInv'
    <2>2. ~stop => WithoutGaps(out) = <<>> \/ Closed(Last(WithoutGaps(out)))
      <3> SUFFICES ASSUME ~stop, WithoutGaps(out) # <<>>
                   PROVE  Closed(Last(WithoutGaps(out)))
        OBVIOUS
      <3>1. WithoutGaps(out) \o <<>> = Sent(accepted, Taken)
        BY <1>1 DEF SentInv, StreamInv
      <3>2. WithoutGaps(out) = Sent(accepted, Taken)
        BY <1>1, <3>1, ConcatEmptySeq
      <3> QED
        BY <1>1, <3>2, SentClosed
    <2>3. PICK open \in BOOLEAN : open <=> stop
      OBVIOUS
    <2>4. GapsAre(out, open)
      BY <2>3 DEF SentInv, GapInv, GapsAre
    <2>5. GapsAre(out', open)
      BY <1>1, <1>2, <2>2, <2>3, <2>4, GapAdded
    <2> QED
      BY <2>3, <2>5 DEF GapInv, GapsAre
  <1> QED
    BY <1>4, <1>5, <1>6, <1>7 DEF SentInv

(* A block of a message, the last one if it is not full.                   *)
LEMMA SentEnd ==
  ASSUME TxInv, SentInv, EndBlock, UNCHANGED <<stop, accepted>>
  PROVE  SentInv'
  <1>1. /\ filling /\ filling' = FALSE /\ block' = <<>> /\ heap' = heap
        /\ data'.exitIn = data.exitIn
        /\ Room > 0 => cur.remaining = 0 /\ Command.action = "STOP"
        /\ cur' = IF Room > 0 THEN Idle ELSE cur
        /\ out' = IF Room > 0 THEN WithGap(out \o block) ELSE out \o block
    <2>1. Len(block) < BlockSize <=> Room > 0
      <3>1. Len(block) \in Nat /\ BlockSize \in Nat
        BY LenProperties, PlanAssumption DEF TxInv, TransmissionTypes
      <3> QED
        BY <3>1 DEF Room
    <2> QED
      BY <2>1 DEF EndBlock, IsOver, Give
  <1>2. /\ out \in Seq(Heard) /\ block \in Seq(Sample) /\ WithoutGaps(out) \in Seq(Sample)
        /\ accepted \in Seq(Messages) /\ Taken \in 0 .. Len(accepted)
    BY StreamValues
  <1>3. cur # Idle /\ RepeatInv
    BY <1>1 DEF TxInv, CodeInv, SentInv
  <1>4. PICK s : /\ s = out \o block /\ s \in Seq(Heard)
                 /\ WithoutGaps(s) = WithoutGaps(out) \o block
    BY <1>2, GapsConcat
  <1>5. WithoutGaps(s) = Sent(accepted, Taken - 1) \o Made(cur)
    BY <1>3, <1>4 DEF SentInv, StreamInv
  <1>6. GapsAre(s, FALSE)
    <2>1. GapsAre(out, FALSE)
      BY <1>1 DEF SentInv, GapInv, GapsAre
    <2> QED
      BY <1>2, <1>4, <2>1, GapsKept
  <1>7. DrainedIdle'
    <2>1. data.exitIn < 0 /\ data.exitIn \in Int
      BY <1>1 DEF TxInv, DrainInv, TransmissionTypes
    <2> QED
      BY <1>1, <2>1 DEF DrainedIdle
  <1>8. Taken' = Taken
    BY <1>1 DEF Taken
  <1>9. CASE Room > 0
    <2>1. WithoutGaps(s) = Sent(accepted, Taken)
      <3>1. Position(cur) /\ cur.remaining = 0 /\ cur.index > Len(Plan[cur.msg].symbols)
        BY <1>1, <1>3, <1>9, CurrentPosition
      <3>2. cur.repeat = Plan[cur.msg].repeats
        BY <1>1, <1>3, <1>9 DEF RepeatInv
      <3>3. Made(cur) = Samples(cur.msg)
        BY <3>1, <3>2, AllMade
      <3> QED
        BY <1>3, <1>5, <3>3, StreamValues
    <2>2. out' = WithGap(s) /\ cur' = Idle
      BY <1>1, <1>4, <1>9
    <2>3. out' \in Seq(Heard) /\ WithoutGaps(out') = Sent(accepted, Taken)
      BY <1>4, <2>1, <2>2, GapNotHeard
    <2>4. HeapInv' /\ RepeatInv'
      BY <1>1, <1>8, <2>2 DEF SentInv, HeapInv, RepeatInv
    <2>5. StreamInv'
      <3>1. Sent(accepted, Taken) \in Seq(Sample)
        BY StreamValues
      <3>2. WithoutGaps(out') \o block' = Sent(accepted, Taken)
        BY <1>1, <2>3, <3>1, ConcatEmptySeq
      <3>3. /\ WithoutGaps(out)' = WithoutGaps(out')
            /\ Sent(accepted, Taken)' = Sent(accepted, Taken)
        BY <1>8
      <3>4. out' \in Seq(Sample \cup {Gap})
        BY <2>3 DEF Heard
      <3> QED
        BY <1>1, <2>2, <3>2, <3>3, <3>4 DEF StreamInv
    <2>6. GapInv'
      <3>1. WithoutGaps(s) = <<>> \/ Closed(Last(WithoutGaps(s)))
        BY <1>2, <2>1, SentClosed
      <3>2. GapsAre(out', FALSE)
        BY <1>4, <1>6, <2>2, <3>1, GapAdded
      <3> QED
        BY <3>2 DEF GapInv, GapsAre
    <2> QED
      BY <1>7, <2>4, <2>5, <2>6 DEF SentInv
  <1>10. CASE ~ (Room > 0)
    <2>1. out' = s /\ cur' = cur
      BY <1>1, <1>4, <1>10
    <2>2. HeapInv' /\ RepeatInv'
      BY <1>1, <1>8, <2>1 DEF SentInv, HeapInv, RepeatInv, Command
    <2>3. StreamInv'
      <3>1. WithoutGaps(out') \in Seq(Sample)
        BY <1>4, <2>1, GapsType
      <3>2. WithoutGaps(out') \o block' = Sent(accepted, Taken - 1) \o Made(cur)
        BY <1>1, <1>5, <2>1, <3>1, ConcatEmptySeq
      <3>3. /\ WithoutGaps(out)' = WithoutGaps(out') /\ Made(cur)' = Made(cur)
            /\ Sent(accepted, Taken - 1)' = Sent(accepted, Taken - 1)
        BY <1>8, <2>1
      <3>4. out' \in Seq(Sample \cup {Gap})
        BY <1>4, <2>1 DEF Heard
      <3> QED
        BY <1>1, <1>3, <2>1, <3>2, <3>3, <3>4 DEF StreamInv
    <2>4. GapInv'
      BY <1>6, <2>1 DEF GapInv, GapsAre
    <2> QED
      BY <1>7, <2>2, <2>3, <2>4 DEF SentInv
  <1> QED
    BY <1>9, <1>10

(* A block is begun, of the message that is being sent or of a new one.    *)
LEMMA SentBegin ==
  ASSUME TxInv, SentInv, BeginBlock, UNCHANGED <<stop, accepted>>
  PROVE  SentInv'
  <1>1. /\ ~filling /\ ~stop /\ data.exitIn < 0 /\ filling' = TRUE /\ block' = <<>>
        /\ UNCHANGED <<data, out>>
        /\ \/ cur # Idle /\ UNCHANGED <<heap, cur>>
           \/ /\ cur = Idle /\ heap # <<>>
              /\ cur' = PrepareMessage(Head(heap)) /\ heap' = Tail(heap)
    BY DEF BeginBlock, Consult, Asked
  <1>2. GapInv'
    BY <1>1 DEF SentInv, GapInv, GapsAre
  <1>3. DrainedIdle'
    <2>1. data.exitIn \in Int
      BY DEF TxInv, TransmissionTypes
    <2> QED
      BY <1>1, <2>1 DEF DrainedIdle
  <1>4. block = <<>>
    BY <1>1 DEF SentInv, StreamInv
  <1>5. CASE cur # Idle /\ UNCHANGED <<heap, cur>>
    <2>1. HeapInv' /\ RepeatInv'
      BY <1>5 DEF SentInv, HeapInv, RepeatInv, Taken, Command
    <2>2. StreamInv'
      BY <1>1, <1>4, <1>5 DEF SentInv, StreamInv, Taken
    <2> QED
      BY <1>2, <1>3, <2>1, <2>2 DEF SentInv
  <1>6. CASE /\ cur = Idle /\ heap # <<>>
             /\ cur' = PrepareMessage(Head(heap)) /\ heap' = Tail(heap)
    <2>1. /\ accepted \in Seq(Messages) /\ heap \in Seq(Messages)
          /\ Len(heap) \in Nat /\ Len(accepted) \in Nat /\ Len(heap) <= Len(accepted)
          /\ \A i \in 1 .. Len(heap) : heap[i] = accepted[Taken + i]
      BY StreamValues DEF SentInv, HeapInv
    <2>2. /\ Head(heap) \in Messages /\ Head(heap) = heap[1] /\ Tail(heap) \in Seq(Messages)
          /\ Len(Tail(heap)) = Len(heap) - 1
          /\ \A i \in 1 .. Len(Tail(heap)) : Tail(heap)[i] = heap[i + 1]
          /\ 1 \in 1 .. Len(heap)
      BY <1>6, <2>1, HeadTailProperties, EmptySeq
    <2>3. PICK k, m : k = Taken /\ m = Head(heap) /\ m \in Messages
      BY <2>2
    <2>4. k \in 0 .. Len(accepted) /\ k \in Nat /\ k + 1 <= Len(accepted) /\ Taken' = k + 1
      BY <1>6, <2>1, <2>2, <2>3 DEF Taken
    <2>5. accepted[k + 1] = m
      BY <2>1, <2>2, <2>3
    <2>6. /\ cur' = PrepareMessage(m) /\ cur'.msg = m /\ cur'.index = 1 /\ cur'.repeat = 0
          /\ cur' # Idle
      BY <1>6, <2>3 DEF PrepareMessage, Idle
    <2>7. HeapInv'
      <3>1. Len(heap') <= Len(accepted)
        BY <1>6, <2>1, <2>2
      <3>2. ASSUME NEW i \in 1 .. Len(heap') PROVE heap'[i] = accepted[(k + 1) + i]
        <4>1. i + 1 \in 1 .. Len(heap)
          BY <1>6, <2>1, <2>2
        <4>2. heap'[i] = accepted[k + (i + 1)]
          BY <1>6, <2>1, <2>2, <2>3, <4>1
        <4>3. k + (i + 1) = (k + 1) + i
          BY <2>4
        <4> QED
          BY <4>2, <4>3
      <3>3. k + 1 >= 1
        BY <2>4
      <3> QED
        BY <2>1, <2>4, <2>5, <2>6, <3>1, <3>2, <3>3 DEF HeapInv
    <2>8. RepeatInv'
      <3>1. PICK C, n : CodeOf(m, C, n)
        BY <2>3, CodeShape
      <3>2. PICK len, p : len = Len(C) /\ p = Plan[m].repeats
        OBVIOUS
      <3>3. /\ n \in Nat /\ len \in Nat /\ p \in Nat /\ C = Commands(m)
            /\ (p > 0 /\ len = n + 2) \/ (p = 0 /\ len = n + 1)
        BY <3>1, <3>2, Zenon DEF CodeOf
      <3>4. 0 <= p /\ 1 \in 1 .. len /\ (1 = len => p = 0)
        BY <3>3
      <3>5. Command' = C[1]
        BY <2>6, <3>3 DEF Command
      <3>6. C[1].action = "STOP" => p = 0
        BY <3>1, <3>2, <3>4 DEF CodeOf
      <3> QED
        BY <2>6, <3>2, <3>4, <3>5, <3>6 DEF RepeatInv
    <2>9. StreamInv'
      <3>1. Made(cur') = <<>>
        BY <2>3, <2>6, NothingMade
      <3>2. Sent(accepted, k) \in Seq(Sample)
        BY <2>3, StreamValues
      <3>3. WithoutGaps(out) \o block' = Sent(accepted, k) \o Made(cur')
        BY <1>1, <1>4, <1>6, <2>3, <3>1, <3>2, ConcatEmptySeq DEF SentInv, StreamInv
      <3>4. Taken' - 1 = k
        BY <2>4
      <3>5. /\ WithoutGaps(out)' = WithoutGaps(out) /\ Made(cur)' = Made(cur')
            /\ Sent(accepted, Taken - 1)' = Sent(accepted, k)
        BY <1>1, <3>4
      <3>6. out' \in Seq(Sample \cup {Gap})
        BY <1>1 DEF SentInv, StreamInv
      <3> QED
        BY <1>1, <2>6, <3>3, <3>5, <3>6 DEF StreamInv
    <2> QED
      BY <1>2, <1>3, <2>7, <2>8, <2>9 DEF SentInv
  <1> QED
    BY <1>1, <1>5, <1>6

(* The callback of the stream. *)
LEMMA SentCallback ==
  ASSUME TxInv, SentInv, Callback
  PROVE  SentInv'
  <1>1. UNCHANGED <<stop, accepted>>
    BY DEF Callback
  <1>2. CASE HeapRace \/ EndStream
    <2>1. UNCHANGED <<heap, cur, filling, block, data, out>>
      BY <1>2 DEF HeapRace, EndStream
    <2> QED
      BY <1>1, <2>1
      DEF SentInv, HeapInv, RepeatInv, DrainedIdle, StreamInv, GapInv, GapsAre, Taken, Command
  <1>3. CASE NoBlock \/ ChangePhy \/ RefusedBlock \/ DrainingBlock
    <2>1. /\ ~filling /\ UNCHANGED <<heap, cur, filling, block>>
          /\ \E exitIn, newPhy : Give(Silence, exitIn, newPhy)
      BY <1>3 DEF NoBlock, ChangePhy, RefusedBlock, DrainingBlock, Consult, Asked
    <2>2. cur = Idle \/ stop
      <3>1. CASE NoBlock \/ ChangePhy \/ RefusedBlock
        BY <3>1 DEF NoBlock, ChangePhy, RefusedBlock
      <3>2. CASE DrainingBlock
        <4>1. data.exitIn > 0 /\ data.exitIn \in Int
          BY <3>2 DEF DrainingBlock, TxInv, TransmissionTypes
        <4>2. data.exitIn >= 0
          BY <4>1
        <4> QED
          BY <4>2 DEF SentInv, DrainedIdle
      <3> QED
        BY <1>3, <3>1, <3>2
    <2> QED
      BY <1>1, <2>1, <2>2, SentSilence
  <1> QED
    BY <1>1, <1>2, <1>3, SentBegin, SentFill, SentEnd DEF Callback

(* A message is accepted behind those that were. *)
LEMMA SentAdd ==
  ASSUME TxInv, SentInv, EndAddMessage
  PROVE  SentInv'
  <1>1. /\ adding \in Messages
        /\ heap' = Append(heap, adding) /\ accepted' = Append(accepted, adding)
        /\ UNCHANGED <<cur, filling, block, data, out, stop>>
    BY DEF EndAddMessage, TxInv, TransmissionTypes
  <1>2. /\ accepted \in Seq(Messages) /\ heap \in Seq(Messages)
        /\ Len(heap) \in Nat /\ Len(accepted) \in Nat /\ Len(heap) <= Len(accepted)
        /\ \A i \in 1 .. Len(heap) : heap[i] = accepted[Taken + i]
        /\ Taken \in 0 .. Len(accepted)
    BY StreamValues DEF SentInv, HeapInv
  <1>3. /\ heap' \in Seq(Messages) /\ Len(heap') = Len(heap) + 1
        /\ \A i \in 1 .. Len(heap) : heap'[i] = heap[i]
        /\ heap'[Len(heap) + 1] = adding
    BY <1>1, <1>2, AppendProperties
  <1>4. /\ accepted' \in Seq(Messages) /\ Len(accepted') = Len(accepted) + 1
        /\ \A i \in 1 .. Len(accepted) : accepted'[i] = accepted[i]
        /\ accepted'[Len(accepted) + 1] = adding
    BY <1>1, <1>2, AppendProperties
  <1>5. PICK k : k = Taken /\ Taken' = k /\ k \in 0 .. Len(accepted)
                 /\ k + Len(heap) = Len(accepted)
    BY <1>2, <1>3, <1>4 DEF Taken
  <1>6. HeapInv'
    <2>1. ASSUME NEW i \in 1 .. Len(heap') PROVE heap'[i] = accepted'[k + i]
      <3>1. CASE i \in 1 .. Len(heap)
        <4>1. k + i \in 1 .. Len(accepted)
          <5>1. PICK h, a : h = Len(heap) /\ a = Len(accepted)
            OBVIOUS
          <5>2. h \in Nat /\ k \in Nat /\ k + h = a /\ i \in 1 .. h
            BY <1>2, <1>5, <3>1, <5>1
          <5>3. k + i \in 1 .. a
            BY <5>2
          <5> QED
            BY <5>1, <5>3, Zenon
        <4> QED
          BY <1>2, <1>3, <1>4, <1>5, <3>1, <4>1
      <3>2. CASE i = Len(heap) + 1
        <4>1. k + i = Len(accepted) + 1
          <5>1. PICK h, a : h = Len(heap) /\ a = Len(accepted)
            OBVIOUS
          <5>2. h \in Nat /\ k \in Nat /\ k + h = a /\ i = h + 1
            BY <1>2, <1>5, <3>2, <5>1
          <5>3. k + i = a + 1
            BY <5>2
          <5> QED
            BY <5>1, <5>3, Zenon
        <4> QED
          BY <1>3, <1>4, <3>2, <4>1
      <3> QED
        BY <1>2, <1>3, <3>1, <3>2
    <2>2. Len(heap') <= Len(accepted')
      BY <1>2, <1>3, <1>4
    <2>3. ASSUME cur # Idle PROVE k >= 1 /\ accepted'[k] = cur.msg
      <3>1. k >= 1 /\ accepted[k] = cur.msg
        BY <1>5, <2>3 DEF SentInv, HeapInv
      <3>2. k \in 1 .. Len(accepted)
        BY <1>5, <3>1
      <3> QED
        BY <1>4, <3>1, <3>2
    <2> QED
      BY <1>1, <1>4, <1>5, <2>1, <2>2, <2>3 DEF HeapInv
  <1>7. RepeatInv' /\ DrainedIdle' /\ GapInv'
    BY <1>1 DEF SentInv, RepeatInv, DrainedIdle, GapInv, GapsAre, Command
  <1>8. StreamInv'
    <2>1. Sent(accepted', k) = Sent(accepted, k)
      BY <1>1, <1>2, <1>5, SentKept
    <2>2. cur # Idle => Sent(accepted', k - 1) = Sent(accepted, k - 1)
      <3>1. cur # Idle => k - 1 \in 0 .. Len(accepted)
        BY <1>5, StreamValues
      <3> QED
        BY <1>1, <1>2, <3>1, SentKept
    <2>3. /\ WithoutGaps(out)' = WithoutGaps(out) /\ Made(cur)' = Made(cur)
          /\ Sent(accepted, Taken)' = Sent(accepted', k)
          /\ Sent(accepted, Taken - 1)' = Sent(accepted', k - 1)
      BY <1>1, <1>5
    <2> QED
      BY <1>1, <1>5, <2>1, <2>2, <2>3 DEF SentInv, StreamInv
  <1> QED
    BY <1>6, <1>7, <1>8 DEF SentInv

(* The radio, the thread of the stream and main. *)
LEMMA SentThreads ==
  ASSUME TxInv, SentInv,
         \/ Transmit \/ StreamError \/ RestartStream \/ SetPhyFails \/ EndAddMessage
         \/ Signal \/ \E m \in Messages : BeginAddMessage(m)
  PROVE  SentInv'
  <1>1. CASE Transmit \/ StreamError \/ SetPhyFails \/ \E m \in Messages : BeginAddMessage(m)
    <2>1. UNCHANGED <<heap, cur, filling, block, data, out, stop, accepted>>
      BY <1>1 DEF Transmit, StreamError, SetPhyFails, BeginAddMessage
    <2> QED
      BY <2>1
      DEF SentInv, HeapInv, RepeatInv, DrainedIdle, StreamInv, GapInv, GapsAre, Taken, Command
  <1>2. CASE RestartStream
    <2>1. /\ UNCHANGED <<heap, cur, filling, block, out, stop, accepted>>
          /\ ~ (data'.exitIn >= 0)
      BY <1>2 DEF RestartStream
    <2> QED
      BY <2>1
      DEF SentInv, HeapInv, RepeatInv, DrainedIdle, StreamInv, GapInv, GapsAre, Taken, Command
  <1>3. CASE Signal
    <2>1. UNCHANGED <<heap, cur, filling, block, data, out, accepted>> /\ stop'
      BY <1>3 DEF Signal
    <2> QED
      BY <2>1
      DEF SentInv, HeapInv, RepeatInv, DrainedIdle, StreamInv, GapInv, GapsAre, Taken, Command
  <1> QED
    BY <1>1, <1>2, <1>3, SentAdd

(* Nothing was accepted and nothing was given. *)
LEMMA SentInit == Init => SentInv
  <1> SUFFICES ASSUME Init PROVE SentInv
    OBVIOUS
  <1>1. /\ heap = <<>> /\ cur = Idle /\ filling = FALSE /\ block = <<>> /\ data.exitIn = -1
        /\ accepted = <<>> /\ out = <<>>
    BY DEF Init
  <1>2. Len(heap) = 0 /\ Len(accepted) = 0 /\ Taken = 0 /\ Len(out) = 0
    BY <1>1 DEF Taken
  <1>3. accepted \in Seq(Messages) /\ out \in Seq(Sample \cup {Gap})
    BY <1>1, EmptySeq
  <1>4. HeapInv
    BY <1>1, <1>2, <1>3 DEF HeapInv
  <1>5. RepeatInv /\ DrainedIdle /\ GapInv
    BY <1>1, <1>2 DEF RepeatInv, DrainedIdle, GapInv, GapsAre
  <1>6. StreamInv
    <2>1. WithoutGaps(out) \o block = <<>>
      <3>1. <<>> \o <<>> = <<>>
        BY EmptySeq, ConcatEmptySeq
      <3> QED
        BY <1>1, <3>1, GapsEmpty
    <2>2. Sent(accepted, Taken) = <<>>
      BY <1>2, <1>3, SentIs
    <2> QED
      BY <1>1, <1>3, <2>1, <2>2 DEF StreamInv
  <1> QED
    BY <1>4, <1>5, <1>6 DEF SentInv

(* The invariant of the messages holds, whatever the plan and the blocks.  *)
THEOREM SentInvariance == Spec => []SentInv
  <1>1. TxInv /\ SentInv /\ [Next]_txVars => SentInv'
    <2> SUFFICES ASSUME TxInv, SentInv, [Next]_txVars PROVE SentInv'
      OBVIOUS
    <2>1. CASE Next
      BY <2>1, SentCallback, SentThreads DEF Next
    <2>2. CASE UNCHANGED txVars
      BY <2>2
      DEF txVars, SentInv, HeapInv, RepeatInv, DrainedIdle, StreamInv, GapInv, GapsAre,
          Taken, Command
    <2> QED
      BY <2>1, <2>2
  <1> QED
    BY SentInit, TransmissionInvariance, <1>1, PTL DEF Spec

(* The callback gives the messages in the order in which they were         *)
(* accepted, each whole, wherever blocks and streams end.                  *)
THEOREM MessagesAreWhole == Spec => []MessagesAreSentWhole
  <1>1. ASSUME TxInv, SentInv PROVE MessagesAreSentWhole
    <2> DEFINE all == FlattenSeq([i \in DOMAIN accepted |-> Samples(accepted[i])])
    <2>1. /\ out \in Seq(Heard) /\ block \in Seq(Sample) /\ WithoutGaps(out) \in Seq(Sample)
          /\ accepted \in Seq(Messages) /\ Taken \in 0 .. Len(accepted)
          /\ Sent(accepted, Taken) \in Seq(Sample)
      BY <1>1, StreamValues
    <2>2. PICK v : v \in Seq(Sample) /\ Sent(accepted, Taken) = (WithoutGaps(out) \o block) \o v
      <3>1. CASE cur = Idle
        <4>1. <<>> \in Seq(Sample) /\ Sent(accepted, Taken) = Sent(accepted, Taken) \o <<>>
          BY <2>1, EmptySeq, ConcatEmptySeq
        <4>2. WithoutGaps(out) \o block = Sent(accepted, Taken)
          BY <1>1, <3>1 DEF SentInv, StreamInv
        <4> QED
          BY <4>1, <4>2
      <3>2. CASE cur # Idle
        <4>1. PICK S, M : /\ S = Sent(accepted, Taken - 1) /\ S \in Seq(Sample)
                          /\ M = Made(cur) /\ M \in Seq(Sample) /\ Position(cur)
                          /\ Sent(accepted, Taken) = S \o Samples(cur.msg)
                          /\ WithoutGaps(out) \o block = S \o M
          BY <1>1, <3>2, StreamValues, MadeType DEF SentInv, StreamInv
        <4>2. PICK u : u \in Seq(Sample) /\ Samples(cur.msg) = M \o u
          BY <4>1, MadeBegins
        <4>3. (S \o M) \o u = S \o (M \o u)
          <5>1. S \in Seq(Sample) /\ M \in Seq(Sample) /\ u \in Seq(Sample)
            BY <4>1, <4>2
          <5> QED
            BY <5>1, Regroup, SMTT(30)
        <4> QED
          BY <4>1, <4>2, <4>3
      <3> QED
        BY <3>1, <3>2
    <2>3. PICK w : w \in Seq(Sample) /\ all = Sent(accepted, Taken) \o w
      BY <2>1, SentBegins
    <2> HIDE DEF all
    <2>4. all = WithoutGaps(out) \o (block \o (v \o w)) /\ block \o (v \o w) \in Seq(Sample)
      <3>1. PICK W : W = WithoutGaps(out) /\ W \in Seq(Sample)
        BY <2>1
      <3>2. PICK x : x \in Seq(Sample) /\ x = v \o w
        BY <2>2, <2>3, ConcatProperties
      <3>3. W \o block \in Seq(Sample) /\ block \o x \in Seq(Sample)
        BY <2>1, <3>1, <3>2, ConcatProperties
      <3>4. ((W \o block) \o v) \o w = (W \o block) \o x
        <4>1. PICK B : B = W \o block /\ B \in Seq(Sample)
          BY <3>3
        <4>2. B \in Seq(Sample) /\ v \in Seq(Sample) /\ w \in Seq(Sample)
          BY <2>2, <2>3, <4>1
        <4>3. (B \o v) \o w = B \o (v \o w)
          BY <4>2, Regroup, SMTT(30)
        <4> QED
          BY <3>2, <4>1, <4>3
      <3>5. (W \o block) \o x = W \o (block \o x)
        <4>1. W \in Seq(Sample) /\ block \in Seq(Sample) /\ x \in Seq(Sample)
          BY <2>1, <3>1, <3>2
        <4> QED
          BY <4>1, Regroup, SMTT(30)
      <3> QED
        BY <2>2, <2>3, <3>1, <3>2, <3>3, <3>4, <3>5
    <2>5. IsPrefix(WithoutGaps(out), all)
      BY <2>1, <2>4, PrefixOfConcat
    <2>6. \A i \in 2 .. (Len(out) - 1) : out[i] = Gap => out[i - 1] = Last(Samples(out[i - 1][1]))
      <3> TAKE i \in 2 .. (Len(out) - 1)
      <3>1. i \in 2 .. Len(out) /\ i # Len(out)
        BY <2>1, LenProperties
      <3> QED
        BY <1>1, <3>1 DEF SentInv, GapInv, GapsAre, Closed
    <2> QED
      BY <2>5, <2>6 DEF MessagesAreSentWhole, all
  <1> QED
    BY TransmissionInvariance, SentInvariance, <1>1, PTL

================================================================================
