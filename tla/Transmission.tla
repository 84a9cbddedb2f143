----------------------------- MODULE Transmission ------------------------------
(***************************************************************************)
(* The transmitter of hachoir_uhd: main adds messages to a heap, the       *)
(* stream of the BladeRF asks for blocks of samples (bladerf_TX_cb,        *)
(* EmissionRunTime::next_block, Modulation::getNextSamples), and thread_tx *)
(* starts the stream again when it ends.                                   *)
(*                                                                         *)
(* A sample is named by its message, repetition, symbol and place in it;   *)
(* its value, and the commands that only change that, are left out.        *)
(*                                                                         *)
(* next_block ignores what prepareMessage returns.  When it is false, the  *)
(* message is sent as what was pushed before: nothing (ModulationFSK and   *)
(* ModulationLiquidDSP) or a start bit (ModulationPSK), never repeated.    *)
(* Plan gives such a message these symbols and no repeats; that it is then *)
(* ended by the test of _cur_index and not by a STOP is left out.          *)
(***************************************************************************)
EXTENDS Integers, SequencesExt

CONSTANTS
  Messages,       \* the messages main adds, each at most once (bound)
  Plan,           \* per message: its frequency, samples per symbol, repeats
  BlockSize,      \* samples of a block
  Transfers,      \* num_transfers
  HeapLimit,      \* _sizeLimit of the heap
  Frequencies,    \* the frequencies the radio may be tuned to at first
  MaxErrors       \* bound: how often streaming, or brf_set_phy, fails

ASSUME PlanAssumption ==
  /\ \A m \in Messages : /\ Plan[m].symbols \in Seq(Nat)
                         /\ Plan[m].repeats \in Nat
  /\ BlockSize \in Nat \ {0} /\ Transfers \in Nat \ {0}

VARIABLES
  heap,           \* _msgs
  adding,         \* the message being linked into the heap, under its mutex
  cur,            \* cur_mod: the state of its interpreter
  phy, radio,     \* thread_tx's parameters, and what the radio is tuned to
  stream,         \* "stopped", "running", "error" when streaming failed, or
                  \* "ended": thread_tx has returned
  data,           \* stream_data: phy, exit_in
  filling, block, \* the block that is being made
  inFlight,       \* blocks given to the radio and not yet transmitted
  stop,           \* stop_signal_called
  raced,          \* the heap was accessed while a message was being linked
  errors, accepted, out  \* out: what the callback gave, silences as one Gap

txVars == <<heap, adding, cur, phy, radio, stream, data, filling, block, inFlight, stop, raced, errors, accepted, out>>

None == "none"
Idle == [msg |-> None, index |-> 0, remaining |-> 0, repeat |-> 0]   \* no cur_mod
Gap == <<None, 0, 0, 0>>
Silence == <<>>
buffersCount == 2 * Transfers

--------------------------------------------------------------------------------
(* Modulation: a message as commands, interpreted block by block *)

\* mutant: a message that is repeated is not ended
CommandsEndedOnce(m) ==
  [i \in DOMAIN Plan[m].symbols |-> [action |-> "GEN_SYMBOL", value |-> Plan[m].symbols[i]]]
    \o (IF Plan[m].repeats > 0 THEN << [action |-> "REPEAT", value |-> Plan[m].repeats] >>
        ELSE << [action |-> "STOP", value |-> 0] >>)

Commands(m) ==
  [i \in DOMAIN Plan[m].symbols |-> [action |-> "GEN_SYMBOL", value |-> Plan[m].symbols[i]]]
    \o (IF Plan[m].repeats > 0 THEN << [action |-> "REPEAT", value |-> Plan[m].repeats] >> ELSE <<>>)
    \o << [action |-> "STOP", value |-> 0] >>

\* resetState, at the end of which the commands are there
PrepareMessage(m) == [msg |-> m, index |-> 1, remaining |-> 0, repeat |-> 0]

\* n samples of the current symbol, starting from where the last block left.
Modulated(c, n) ==
  LET at == Commands(c.msg)[c.index].value - c.remaining
  IN  [k \in 1..n |-> <<c.msg, c.repeat, c.index, at + k>>]

\* mutant: what is left of a symbol at the end of a block is forgotten
LeftAfterNone(c, n) == 0

LeftAfter(c, n) == c.remaining - n

Room == BlockSize - Len(block)
Command == Commands(cur.msg)[cur.index]

\* The rounds of getNextSamples' loop.
Filling(action) == filling /\ Room > 0 /\ cur.remaining = 0 /\ Command.action = action

Generate ==
  /\ filling /\ Room > 0 /\ cur.remaining > 0
  /\ LET n == IF cur.remaining > Room THEN Room ELSE cur.remaining
         left == LeftAfter(cur, n)
     IN  /\ block' = block \o Modulated(cur, n)
         /\ cur' = [cur EXCEPT !.remaining = left, !.index = IF left = 0 THEN @ + 1 ELSE @]

GenSymbol ==
  /\ Filling("GEN_SYMBOL")
  /\ cur' = [cur EXCEPT !.remaining = Command.value, !.index = IF Command.value = 0 THEN @ + 1 ELSE @]
  /\ UNCHANGED block

Repeat ==
  /\ Filling("REPEAT")
  /\ cur' = IF cur.repeat < Command.value THEN [cur EXCEPT !.index = 1, !.repeat = @ + 1]
            ELSE [cur EXCEPT !.index = @ + 1]
  /\ UNCHANGED block

--------------------------------------------------------------------------------
(* EmissionRunTime::next_block, called by bladerf_TX_cb *)

\* mutant: as many empty blocks as there are transfers
ExitAfterTransfers == Transfers

\* The blocks to give before the stream may end.
ExitAfter == buffersCount + 1

WithGap(s) == IF s # <<>> /\ Last(s) = Gap THEN s ELSE Append(s, Gap)

Give(b, exitIn, newPhy) ==
  /\ inFlight' = Append(inFlight, b)
  /\ data' = [phy |-> newPhy, exitIn |-> exitIn]
  /\ out' = IF Len(b) < BlockSize THEN WithGap(out \o b) ELSE out \o b

\* The library asks for a block whenever one of its buffers is free.
Asked == stream = "running" /\ Len(inFlight) < buffersCount /\ ~filling

Consult == Asked /\ data.exitIn < 0 /\ ~stop /\ (cur = Idle => adding = None)

\* The user callback looks at the heap without its mutex: what it then finds is
\* undefined, and so is all that follows.
HeapRace ==
  /\ Asked /\ data.exitIn < 0 /\ ~stop /\ cur = Idle /\ adding # None
  /\ raced' = TRUE
  /\ UNCHANGED <<heap, cur, filling, block, inFlight, data, out, stream>>

NoBlock ==
  /\ Consult /\ cur = Idle /\ heap = <<>>
  /\ Give(Silence, data.exitIn, data.phy)
  /\ UNCHANGED <<heap, cur, filling, block, stream, raced>>

ChangePhy ==
  /\ Consult /\ cur = Idle /\ heap # <<>>
  /\ Plan[Head(heap)].frequency # data.phy
  /\ Give(Silence, ExitAfter - 1, Plan[Head(heap)].frequency)
  /\ UNCHANGED <<heap, cur, filling, block, stream, raced>>

BeginBlock ==
  /\ Consult
  /\ \/ cur # Idle /\ UNCHANGED <<heap, cur>>
     \/ /\ cur = Idle /\ heap # <<>> /\ Plan[Head(heap)].frequency = data.phy
        /\ cur' = PrepareMessage(Head(heap)) /\ heap' = Tail(heap)
  /\ filling' = TRUE /\ block' = <<>>
  /\ UNCHANGED <<inFlight, data, out, stream, raced>>

FillBlock ==
  /\ Generate \/ GenSymbol \/ Repeat
  /\ UNCHANGED <<heap, filling, inFlight, data, out, stream, raced>>

\* mutant: the comparison of the lengths is the wrong way round
IsOverWhenFull == Room = 0

\* Fewer samples than asked for: the message is over.  One that ends with its block
\* is found out by an empty block.
IsOver == Room > 0

EndBlock ==
  /\ filling /\ (Room > 0 => cur.remaining = 0 /\ Command.action = "STOP")
  /\ Give(block, data.exitIn, data.phy)
  /\ cur' = IF IsOver THEN Idle ELSE cur
  /\ filling' = FALSE /\ block' = <<>>
  /\ UNCHANGED <<heap, stream, raced>>

\* brf_TX_stream_cb refuses once the signal came.
RefusedBlock ==
  /\ Asked /\ data.exitIn < 0 /\ stop
  /\ Give(Silence, ExitAfter - 1, data.phy)
  /\ UNCHANGED <<heap, cur, filling, block, stream, raced>>

DrainingBlock ==
  /\ Asked /\ data.exitIn > 0
  /\ Give(Silence, data.exitIn - 1, data.phy)
  /\ UNCHANGED <<heap, cur, filling, block, stream, raced>>

\* NULL: the library stops at once, whatever it was given.
EndStream ==
  /\ Asked /\ data.exitIn = 0
  /\ stream' = "stopped" /\ inFlight' = <<>>
  /\ UNCHANGED <<heap, cur, filling, block, data, out, raced>>

Callback ==
  /\ \/ HeapRace \/ NoBlock \/ ChangePhy \/ BeginBlock \/ FillBlock \/ EndBlock
     \/ RefusedBlock \/ DrainingBlock \/ EndStream
  /\ UNCHANGED <<adding, phy, radio, stop, errors, accepted>>

--------------------------------------------------------------------------------
(* The library, thread_tx and main *)

Transmit ==
  /\ stream = "running" /\ Len(inFlight) = buffersCount
  /\ inFlight' = Tail(inFlight)
  /\ UNCHANGED <<heap, adding, cur, phy, radio, stream, data, filling, block, stop, raced, errors, accepted, out>>

StreamError ==
  /\ stream = "running" /\ ~filling /\ errors < MaxErrors
  /\ stream' = "error" /\ inFlight' = <<>> /\ errors' = errors + 1
  /\ UNCHANGED <<heap, adding, cur, phy, radio, data, filling, block, stop, raced, accepted, out>>

\* brf_set_phy, unless streaming failed, and brf_start_stream with its own copy of
\* the parameters.
RestartStream ==
  /\ stream \in {"stopped", "error"} /\ ~stop
  /\ radio' = IF stream = "stopped" THEN phy ELSE radio
  /\ stream' = "running"
  /\ data' = [phy |-> phy, exitIn |-> -1]
  /\ UNCHANGED <<heap, adding, cur, phy, filling, block, inFlight, stop, raced, errors, accepted, out>>

\* brf_set_phy fails, before or after it tuned the radio, and phy_ok ends the loop.
SetPhyFails ==
  /\ stream = "stopped" /\ ~stop /\ errors < MaxErrors
  /\ stream' = "ended" /\ radio' \in {radio, phy} /\ errors' = errors + 1
  /\ UNCHANGED <<heap, adding, cur, phy, data, filling, block, inFlight, stop, raced, accepted, out>>

\* addMessage, under the mutex of the heap: the test, and the links of the list.
BeginAddMessage(m) ==
  /\ adding = None /\ ~stop
  /\ m \notin Range(accepted)
  /\ Len(heap) + 1 < HeapLimit
  /\ adding' = m
  /\ UNCHANGED <<heap, cur, phy, radio, stream, data, filling, block, inFlight, stop, raced, errors, accepted, out>>

EndAddMessage ==
  /\ adding # None
  /\ heap' = Append(heap, adding) /\ accepted' = Append(accepted, adding)
  /\ adding' = None
  /\ UNCHANGED <<cur, phy, radio, stream, data, filling, block, inFlight, stop, raced, errors, out>>

Signal ==
  /\ ~stop /\ stop' = TRUE
  /\ UNCHANGED <<heap, adding, cur, phy, radio, stream, data, filling, block, inFlight, raced, errors, accepted, out>>

Init ==
  /\ heap = <<>> /\ adding = None /\ cur = Idle
  /\ phy \in Frequencies /\ radio = phy
  /\ stream = "running" /\ data = [phy |-> phy, exitIn |-> -1]
  /\ filling = FALSE /\ block = <<>>
  /\ inFlight = <<>> /\ stop = FALSE /\ raced = FALSE /\ errors = 0
  /\ accepted = <<>> /\ out = <<>>

Next ==
  /\ ~raced
  /\ \/ Callback
     \/ Transmit \/ StreamError \/ RestartStream \/ SetPhyFails
     \/ \E m \in Messages : BeginAddMessage(m)
     \/ EndAddMessage
     \/ Signal

\* The radio consumes what it is given, thread_tx loops, and main leaves addMessage.
Fairness ==
  /\ WF_txVars(~raced /\ Callback) /\ WF_txVars(~raced /\ Transmit)
  /\ WF_txVars(~raced /\ RestartStream) /\ WF_txVars(~raced /\ EndAddMessage)

Spec == Init /\ [][Next]_txVars /\ Fairness

--------------------------------------------------------------------------------
(* Properties *)

\* The samples that message m stands for, whatever the size of blocks.
Symbol(m, r, i) == [k \in 1..Plan[m].symbols[i] |-> <<m, r, i, k>>]
Once(m, r) == FlattenSeq([i \in DOMAIN Plan[m].symbols |-> Symbol(m, r, i)])
Samples(m) == FlattenSeq([r \in 1..(Plan[m].repeats + 1) |-> Once(m, r - 1)])

WithoutGaps(s) == FlattenSeq([i \in DOMAIN s |-> IF s[i] = Gap THEN <<>> ELSE << s[i] >>])

\* What the callback gives is the messages in the order in which they were accepted,
\* each with all its repetitions and without a silence inside, wherever blocks end,
\* and although streams end, fail and start again in between.
MessagesAreSentWhole ==
  /\ IsPrefix(WithoutGaps(out), FlattenSeq([i \in DOMAIN accepted |-> Samples(accepted[i])]))
  /\ \A i \in 2..(Len(out) - 1) :
       out[i] = Gap => out[i - 1] = Last(Samples(out[i - 1][1]))

\* The interpreter never leaves the commands of its message, so that getNextSamples'
\* test of _cur_index, after which the message would be taken for an empty one, never
\* holds; and what is left of a symbol is left of the one it is at.
InterpreterStaysInCode ==
  cur # Idle =>
    /\ cur.index \in DOMAIN Commands(cur.msg)
    /\ cur.remaining > 0 => Command.action = "GEN_SYMBOL" /\ cur.remaining <= Command.value

\* "send enough samples for the radio to get all the good samples before stopping the
\* stream": when the callback ends the stream, no sample of a message is still on its
\* way to the radio.
DrainedBeforeStop ==
  [][stream = "running" /\ stream' = "stopped" => \A i \in DOMAIN inFlight : inFlight[i] = Silence]_txVars

\* Nothing is to be given of a message whose prepareMessage failed.
Given(m) == Samples(m) = <<>> \/ Last(Samples(m)) \in Range(out)
Ahead(m) == {accepted[i] : i \in 1..(CHOOSE i \in DOMAIN accepted : accepted[i] = m)}

\* A message accepted is sent in the end if the radio was tuned to its frequency, and
\* to those of all accepted before it, from the start; the signal, the race on the
\* heap and a radio that cannot be tuned aside.
InBandMessagesAreSent ==
  \A m \in Messages :
    (m \in Range(accepted) /\ \A a \in Ahead(m) : Plan[a].frequency = phy)
      ~> (Given(m) \/ stop \/ raced \/ stream = "ended")

\* "we need to change frequency": a message accepted is sent in the end, the signal,
\* the race on the heap and a radio that cannot be tuned aside.
AcceptedMessagesAreSent ==
  \A m \in Messages :
    m \in Range(accepted) ~> (Given(m) \/ stop \/ raced \/ stream = "ended")

================================================================================
