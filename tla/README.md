# A verification project for hachoir

hachoir is a set of tools towards a cognitive radio network: a GNU Radio block
that senses the spectrum and keeps a table of the transmissions it finds
(`gr-gtsrc`, with shared code in `common`), a viewer for what it senses
(`spectrum-viz`), a time-domain receiver and transmitter for several radios
(`hachoir_uhd`), and a simulation of the rendezvous of two radios
(`simulations`). Beside these C++ programs it carries the Python tools that
build the GNU Radio module: the editor of its files (`gr_modtool.py`) and the
generator of its docstrings from doxygen's XML (`gr-gtsrc/docs/doxygen`).

This directory holds TLA+ modules translated from that source, configurations
that check them with TLC on small instances, and theorems with proofs checked by
TLAPS for every value of the constants.

All paths below are relative to `src/`.

## 1. Inventory

### 1.1 The sensing pipeline

```
 radio thread                 detection thread                    I/O thread
 general_work ──> ring ──> calc_fft: FftFromRing ──> table ──> SensingServer ──> viewer
                 (lock-free)          detection     of events   (list of clients)
```

| component | state it keeps | operations | interactions | hard behaviour | what makes it correct |
|---|---|---|---|---|---|
| **Ring buffer** `common/ringbuffer.h` | three atomic cursors `_tail <= _head <= _newHead`, the cells, an ordered list of markers under a mutex | `requestWrite`, `validateWrite`, `addSamples`, `addMarker`, `requestRead`, `requestReadLastN`, `isPositionValid`, `findMarker`, `size`, `hasNAvailableFrom` | one writer, any number of readers, no lock on samples | every load and store interleaves; data read before it is validated; a batch longer than the ring; the wrap-around; markers erased without the mutex | what a reader validates after its copy is what it asked for and is committed; cursors never cross or go back; a marker dates its own sample |
| **Sample clock** `gr-gtsrc/lib/samplesringbuffer.h` | none of its own | `timeAt`, `timeAtWithMarker` | reads markers | the sample or marker may go between the check and the search | a time found comes from the marker of the sample's own batch |
| **Radio thread** `hachoir_c_impl::general_work` | the batch | one batch, its marker, its commit | writes the ring | overruns readers at any time | see the ring |
| **Detection thread** `hachoir_c_impl::calc_fft`, `gr-gtsrc/lib/fft.cpp` | position of the next FFT, the FFT's input buffer | wait, request, date, copy, request the rest, validate, detect | reads the ring, fills the table, sends | samples lost in the middle; a span that wraps; early returns; a loop that depends on a grant | a valid FFT is its samples, is dated right, never counts a sample twice, and is completed |
| **Radio event table** `common/radioeventtable.cpp`, `ret_entry.cpp` | the list of active transmissions, the ring of finished ones, the time of the current FFT | `startAddingCommunications`, `addCommunication`, `stopAddingCommunications`, `toString`, `updateFromString` | filled by the detection, sent to viewers, rebuilt by them | erasing while iterating; unsigned differences of dates that may go back; FFTs without a date; a report must be sent once and only once | one entry per transmission; ended ones leave, those just heard stay; finished ones are immutable and reported once |
| **Absolute ring buffer** `common/absoluteringbuffer.h` | the last n elements by absolute position | `push_back`, `at`, `getRange` | used by the table and by the viewer | positions that expire while a window onto them is held | kept positions keep their element |
| **Detection and calibration** `comsdetect`, `calibrationpoint` | per-bin noise models and activity automata | `addFFT`, `addData` | detection thread | counters at their bounds | an activity is over only after its whole silence |
| **FFT averages** `fftaverage` | a window of the last FFTs | `addNewFFT`, `averageOverTime` | unused by the block today | unsigned time differences | the window holds the last n |
| **Sensing server and clients** `sensingserver`, `sensingclient` | the list of clients under a mutex, their requests | `startListening`, `incomingConnection`, `socketIsConnected`, `sendToAll`, `matchActiveCommunications` | I/O thread and detection thread share the list | header and payload are separate sends; erase-and-increment; a blocking read of a new client | a client gets every piece sent after it joined, in order and once; who asks is served |
| **Viewer** `spectrum-viz/sensingnode.cpp`, `sensingserver.cpp` | the messages being read, a table of its own, the pause flag, the entries shown | `dataReady`, `readExactlyNBytes`, `pauseUpdates`, `clientDisconnected` | event loop; re-entrancy through `processEvents` | a handler re-entered in the middle of a message; messages dropped while paused | the viewer's table follows the server's |

### 1.2 The time-domain radios

| component | state it keeps | hard behaviour | what makes it correct |
|---|---|---|---|
| **Transmission runtime** `emissionruntime.cpp`, `messageheap.cpp` | a heap of messages, the message being sent | the stream callback and the callers share the heap; a change of radio parameters restarts the stream | a message added is sent whole, once, with its parameters |
| **BladeRF driver** `drivers/bladerf/common.cpp` and its two programs | the stream, the parameters asked for | callbacks that end a stream so that it restarts; a result used unassigned | a restart uses the new parameters |
| **Modulations** `modulation.cpp` | the index of the command being interpreted, the repeat count, across blocks | a message that ends with a block; a repeat across blocks | the samples of a message do not depend on the size of the blocks |
| **Burst receiver** `rxtimedomain.cpp`, `burst.cpp` | an automaton in static variables, a burst of sub-bursts | states that span blocks; cancelled sub-bursts | a burst is the samples received, whatever the block size |
| **Demodulation and messages** `message.cpp`, `manchester.cpp`, `demodulations/` | a buffer of bits | bit and byte boundaries | decoding undoes encoding |
| **Regulation, tap interface, other drivers** | tables; none | device and file I/O | - |
| **Rendezvous simulation** `simulations/` | two nodes that hop over bands, integer time | order of events at equal times | a node is on one band at a time |

### 1.3 The Python tools

```
 doxygen's XML ──> generated classes ──> lazy objects ──> docstring generator ──> swig_doc.i
                   (compoundsuper, ...)  (base, doxyindex)  (swig_doc)

 user ──> gr_modtool: add, remove, disable, makexml ──> lib/ include/ swig/ python/ grc/
```

| component | state it keeps | operations | interactions | hard behaviour | what makes it correct |
|---|---|---|---|---|---|
| **Generated XML parser** `doxyxml/generated/`, `doxyxml/text.py` | one object per element, with members, lists, `content_` or `valueOf_` | `build`, `buildAttributes`, `buildChildren`, `export`, `description` | builds what the lazy objects read | children in any order, mixed with text; two copies of a paragraph's contents; escaping | nothing declared is lost or replaced; what is regular is written back as it was; a description is its text |
| **Lazy objects** `doxyxml/base.py`, `doxyindex.py` | parsed or not, members, cached categories, the table of references | `members`, `in_category`, `get_member`, `has_member`, `name`, `error` | parse files when asked, share objects by refid | order of questions; exceptions half-way through a parse; duplicates | an answer does not depend on what was asked before |
| **Docstring generator** `swig_doc.py` | the entries made, the blocks and make functions met | `make_swig_interface_file` | one pass over the index | three passes that share the work; what is caught | what is due is documented once |
| **gr_modtool** `gr_modtool.py` | none of its own: the files of the module and what a dozen of them say of the others | `add`, `remove`, `disable`, `makexml` | the user answers prompts, and may interrupt | edits by pattern of text that earlier commands left; files deleted before the lists are written | the lists say what the directories hold |

Build files, GNU Radio bindings, QML and vendored scripts keep
no state of the program. PROJECT.json lists every component with its status and
every hazard with its line.

## 2. The modules

### RingBuffer, RingBufferReaders

One action is one access to an atomic, one cell of a memcpy or one critical
section. The atomics have the default order of `std::atomic`, so TLA+'s
interleaving of single accesses is the code's own semantics. The producer alone
writes the three cursors: its loads of them belong to the action that uses them.
A sample is its index in the stream, so "cell `p % RingLength` holds `p`" says
that a cell is intact. Clock readings are not numbers: general_work calls
gettimeofday once a batch, and nothing orders or spaces what it returns. A reading
is known by the index of its batch's first sample, and the time
timeAtWithMarker extrapolates is that reading with the number of sample periods
added, `[clock |-> ..., samples |-> ...]`. Times computed from two different
markers are therefore different times. `batches` observes which batches
were delivered; the properties of times are stated with it.

| model | code |
|---|---|
| `newHead`, `head`, `tail`, `ring`, `markers`, `mutex` | `_newHead`, `_head`, `_tail`, `_ring`, `_markers`, `_markersMutex` |
| `wpc` and `BeginBatch` ... `ValidateWrite` | general_work with addSamples, requestWrite, addMarker, validateWrite inlined |
| `RaiseHead`, `RaiseTail`, `EraseMarker`, `EraseDone`, `StagePacket` | the stores of requestWrite and its cleaning loop, in the order of the code |
| `CopyCell` | one cell of addSamples' memcpy; the loop on packets is its next-pc |
| `rpc` and `BeginRead` ... `CheckHead` | the reader's loop the class documents: requestRead (with its two loads of `_head`), the copy, isPositionValid |
| `BeginReadLast`, `SizeLoadHead`, `SizeLoadTail` | requestReadLastN; `size()` loads `_head` then `_tail` |
| `BeginTimeAt` ... `FindTake` | timeAt through findMarker, one list node per step, under the mutex |

Undefined behaviour appears once: findMarker's reverse iterator may stand on a node
that requestWrite erased without the mutex. `FindScan` and `FindTake` know how many
nodes it has passed (`NodeAfter`); where there is no node left, what they read is `Garbage`.

Readers may ask for any span and any position up to the bound: the program's one
reader, and the documentation's loop, are cases of that.

Left out: `clear` (its one caller is compiled out, hachoir_c_impl.cc:412-470),
`getMarker` and `timeAtMarker` (never called). addMarker's handling of an existing marker at the same position
is in `InsertMarker`; general_work never gives it one.

### SampleStream

The promise of the ring's class comment without cells, copies or staging:
batches are committed whole, the oldest samples are forgotten, a consumer is
handed runs of consecutive committed samples that were kept at that moment.
`RingBufferReaders!ImplementsStream` states that the ring refines it:
`committed` is what general_work made public, `oldest` is `_tail`, and a reader
holds its copy from the load of `_tail` in its final isPositionValid on.

### FftFromRing

The detection thread: calc_fft's loop with `Fft::FftFromRing` inlined, on the
same `RingBuffer`. The variables are the locals of the two functions.
`restartPos` is not initialised in the source before it is advanced: its value
is taken from `StackWords`. A `samples` pointer near the end of the ring can run
past the last cell; the constructor allocates `sizeof(Sample)` times more cells
than the ring uses, so such a read finds memory that was never written
(`MemoryAt`). The first FFT's `fromPos == -1` case cannot be reached from calc_fft.
findMarker is searched as in RingBufferReaders: the mutex, one node per step, the
node it takes, while the radio thread erases. The transform, its window and the
statistics are numerical and left out.

### AbsoluteRingBuffer, RadioEventTable

The table between the detection and its clients. One action is one call,
because only the detection thread touches it, except that each round of
stopAddingCommunications' loop is a step: it erases from the list it walks.
`AfterErase` says where the loop's `++it` leads after `erase`; for an erased last
element this is libstdc++'s circular list (the standard leaves it undefined).
Time differences are taken modulo `WordSize`, as the code's are unsigned. The dates
of FFTs come in any order: they are clock readings of batches plus nominal sample periods
(hachoir_c_impl.cc:98,115,137-143, samplesringbuffer.h:57-61), so that a clock that is
set, or a batch read late, makes a later FFT the earlier one. Bands may be narrow.

The bands of a cycle are added in the order of the spectrum (`scanned`), as the
scan in calc_fft (lines 239-299) does. That scan is itself under `#if 0`
at this commit: the table is modelled for the caller the source contains.
`timeAt` returns 0 when it finds no marker, so any FFT may have date 0.
The fields of an entry that no decision depends on (power, address,
modulation), toString's buffer with the early returns for when even its doubled size is too small
(radioeventtable.cpp:193-213), and the order in which it writes entries are left out.

`update` is what the last toString wrote and `reported` everything written as
finished so far; `reported`, the ring's `batches` and FftFromRing's `rounds` observe the code, they do
not influence it.

### BufferLemmas and the modules of proofs

The theorems, see section 5.

### SensingServer

The I/O thread and the detection thread around the list of clients. The mutex is a variable
and each client of sendToAll's walk is a step, so that clients leave
and connect between any two of them. What the detection sends is numbered:
one number is one call of sendToAll.

| model | code |
|---|---|
| `Accept`, `AcceptFails` | incomingConnection, which begins with startListening |
| `ReadRequests`, `AddClient` | socketIsConnected, then the insertion under the mutex |
| `BeginSend`, `SkipClient`, `SendTo`, `SendFails`, `EndSend` | sendToAll: the lock, the tests, a send that works, one that fails with the erasure, the unlock |
| `AfterErase` | where the loop's `++it` leads after `erase`; for the last element this is libstdc++'s circular list |
| `Connect`, `Leave` | the programs at the other end (external) |

`_fullSensing` is not initialised by the constructor, so a client that does not
ask may get everything. A send to a connection that is already closed may still
work. A client that joins between a header and its payload gets the
payload alone; the property counts from the piece after which it joined.

### SensingNode

Extends SensingServer with the viewer, which is one of its clients. Messages are
those of sendFFT and sendRetUpdate: every third piece is a whole FFT, the other two are the header
and the payload of an update, which may be empty. They arrive in parts: a header, the first
byte of a payload, the rest.

| model | code |
|---|---|
| `Arrive` | the event loop fills the socket's buffer; `readyRead` calls dataReady unless it runs |
| `ReadHeader`, `LeaveDataReady` | the loop's `bytesAvailable() > 5` and the header |
| `ProcessEvents` | readExactlyNBytes, which runs the event loop until the payload is there |
| `ReadMessage` | the payload, then the pause: drop and return, or display and go on |
| `TakeOtherBytes`, `handler = "lost"` | the bytes are not those the header announced |
| `PauseUpdates`, `ClientDisconnected` | the slots, whenever the event loop runs |
| `Server` | a step of SensingServer, where the viewer asks for everything at once |

dataReady runs to its end, or until it waits, without a step of the server: it only
sees what the event loop put into the buffer. When the connection is lost while it waits,
destroyClient deletes the node and the handler goes on waiting in it (`"dangling"`): nothing
happens after that. What is displayed is an order of messages; their contents are not followed.

### Transmission

The transmitter from main's addMessage to the radio. The library calls the
callback in its own thread: `Asked` is when it may, `inFlight` what it has not
yet transmitted. A sample is named by message, repetition, symbol and place.

| model | code |
|---|---|
| `BeginAddMessage`, `EndAddMessage` | EmissionRunTime::addMessage and MessageHeap::addMessage, under its mutex |
| `NoBlock`, `ChangePhy`, `BeginBlock`, `EndBlock` | the ends of next_block, reached through brf_TX_stream_cb and bladerf_TX_cb |
| `Generate`, `GenSymbol`, `Repeat` | the rounds of getNextSamples |
| `RefusedBlock`, `DrainingBlock`, `EndStream` | the callback after it refused: silences, then NULL |
| `RestartStream` | a round of thread_tx: brf_set_phy when the stream ended well, and brf_start_stream, which copies the parameters |
| `SetPhyFails` | brf_set_phy fails, perhaps after it tuned the radio: `phy_ok` is false and thread_tx returns (`stream = "ended"`) |
| `HeapRace` | the callback looks at the heap while a message is being linked into it |
| `Transmit`, `StreamError` | the library and the radio (external) |

The callback takes the heap's first message without the mutex. If main is
inside addMessage, what follows is undefined: `HeapRace` sets `raced` and the
behaviour ends there. Parameters are reduced to the frequency (the change of
sample rate follows the same path). Commands that only change the phase,
amplitude or frequency of the next symbols are left out. next_block ignores what
prepareMessage returns. When it is false (ModulationFSK, ModulationPSK, ModulationLiquidDSP), the message is
sent as what was pushed before: nothing, or PSK's start bit, and not repeated. `Plan` gives such a message these
symbols; that it ends by the test of `_cur_index`, as no STOP was pushed, is left out. ModulationLiquidDSP
overrides getNextSamples: it buffers symbols and samples itself and does not look at
the repeats. It is not modelled: `Plan` is of the modulations that use the
interpreter of modulation.cpp.

### DoxygenSchema, DoxygenParser, DoxygenDocument

The generated files hold a class per element type, whose methods repeat
a few forms. `DoxygenSchema` says for each of the classes what tells it from the
others: its attributes, which of them are converted with `int()`, and how
its `buildChildren` keeps each child, in the order in which `exportChildren` writes
them. The subclasses of `compound.py` and `index.py` are in it where they add a
child or an attribute.

`DoxygenParser` gives the methods their meaning once. Reading is a recursion
over the document. The document is chosen while it is read, one node per step,
with the elements whose `build` has not returned on a stack.
Elements that a class does not know are met and not entered. A
bad integer and an element inside a simple one are errors, as they raise.

`DoxygenDocument` is what becomes of the objects: `Export` (export and
exportChildren, which fail to write what `Regular` excludes), and
`DescriptionBit` (text.py). `hasContent_` and `exportLiteral` are left out:
nothing calls them.

### DoxyXml, SwigDoc

The objects of doxyxml are elements of a sequence. A call is an operator that takes
the heap and returns the heap, and the value or the exception. So
one step of `DoxyXml` is one question of a client, with all the parsing
it causes and what an exception leaves behind. `AskedBefore` lets any questions
come before the pass of `SwigDoc`, whose steps are the entries of
make_swig_interface_file. Entries are known by the object they
are for and the objects whose descriptions they have. make_entry has none for a name with `operator ` in it:
`Operators` are such names, of functions and friends.

| model | code |
|---|---|
| `FromRefid`, `FromParseData`, `ConvertMem` | Base.from_refid, from_parse_data, convert_mem |
| `ParseIndex`, `ParseClass`, `ParseFile`, `ParseGroup` | the `_parse` methods of doxyindex.py |
| `ProcessMemberdefs`, `FirstOfItsName` | process_memberdefs; its pair holds the class of the memberdef, which is always the same, so the name alone decides |
| `CheckParsed`, `ConfirmNoError`, `InClass`, `Blocks`, `Find` | the questions of base.py; Block.includes |
| `CollectBlocks` ... `Write` | make_swig_interface_file |

### ModTool

A module is the files of its five directories and the lists that name them:
those of each CMakeLists, and the lines of the swig file, of `__init__.py` and of
the module's C++ test. Names are sequences of tokens because the tool looks for
patterns and for values inside names: a block's name may begin, end or contain another's. add and makexml are sequences of edits; remove and
disable walk the directories, ask for each file, and hold the CMakeLists in
memory until they leave the directory. `Interrupt` (Ctrl-C, the end of input) may
come before any edit, and a missing file ends a command as its IOError does. The answer `all`
holds for one directory (`option` is the `-y` of the command line, `yes` the answer).

A list has an end, what closes it in its CMakeLists: `Intact`, or with the piece of a name or the comment
sign that an edit has left there, on which append_value and remove_value go on. The entry of a test that finds no
other test to stand behind is written out of any list (`stray`). A module begins as newmod unpacks it,
with `test_<mod>.cc`, `qa_<mod>.cc` and `qa_<mod>.h`, its swig file, `api.h` and `__init__.py`.
Without the main swig file (`HasSwig`), a C++ block gets neither bindings nor GRC files.

| model | code |
|---|---|
| `AppendValue`, `RemoveValue`, `DeleteTest` | CMakeFileEditor.append_value, remove_value, delete_entry: the first place that matches, at the end of a longer name too, and what then sticks together |
| `DisableFileEntry`, `CutPath` | CMakeFileEditor.disable_file, which cuts `test_<mod>.cc` from its path |
| `AppendLine`, `AppendTest`, `RemoveLines` | append_re_line_sequence, the insertion of the test, remove_pattern_from_file |
| `AddSteps`, `Edited`, `DoStep` | ModToolAdd.run and its helpers |
| `EnterDir`, `RemoveFile`, `Decline`, `LeaveRemoved` | ModToolRemove: _run_subdir and what run does after each; `Cleaned` removes from `__init__.py` by prefix |
| `Listed`, `DisableFile`, `Treated`, `HeaderOff` | ModToolDisable: the names of the CMakeLists, and the handlers |
| `MakeXml`, `ParseBlock` | ModToolMakeXML.run |

### The MC modules

Definitions for the configurations. Operators marked `\* mutant` in the modules
are deliberately wrong versions of the operator defined next to them. Nothing
uses them; putting one in the place of the right one must break a property.
They show that each property can see a plausible mistake.

## 3. The runs

| run | what it asks | result |
|---|---|---|
| `ring_fit` | one reader against the radio thread, batches 1 to 3 in a ring of 3: cursors, cells, staging, validated reads, and the refinement of SampleStream | holds |
| `ring_oversize` | two interchangeable readers, batches of 1 to 3 in a ring of 2, where requestWrite raises `_head` itself: markers, and from which of them a time comes while they are erased | holds |
| `fft_fit` | the detection thread on the ring, with FFTs that wrap and FFTs overtaken by the writer; safety, dates and completion | holds |
| `table_fit` | the event table over all sequences of cycles, dated in any order or not at all; safety, reports and the departure of ended entries | holds |
| `sensing_fit` | the viewer and another client that connect, leave and die during a send, pauses, bytes that come in parts: who gets which piece, what does the viewer make of them, and is everybody served? | holds |
| `transmission_fit` | four messages, one of which could not be prepared, streams that end, fail and restart, a radio that cannot be tuned: messages whole and in order, silence before the end, in-band messages sent | holds |
| `doxygen_fit` | every generated class on every small document: children, export, descriptions | holds |
| `swig_fit` | questions to the lazy objects in any order, and the docstring pass after any of them | holds |
| `modtool_fit` | any two commands on a module of up to two blocks with unrelated names, interrupted anywhere | holds |
| `fft_FftIsItsSamples` | is every FFT found valid made of its own samples? | violated |
| `transmission_AcceptedMessagesAreSent` | is every accepted message sent, also one for another frequency? | violated |
| `modtool_OtherEntriesStay` | does remove leave the entries of other files alone, whatever was done before? | violated |

The violated ones are statements of the repository's comments that the code does
not keep; each is a finding in PROJECT.json with the lines on both sides.
In short:

* **FftFromRing**, for a span that wraps, advances an uninitialised position and
  copies every packet to the start of the buffer. It still calls the FFT valid.
* **next_block** writes the frequency it needs into the stream's copy of the
  parameters. When the stream has ended, thread_tx sets the radio to its own, old ones and starts
  again: the same message asks for the change for ever, and no message behind it is
  sent.
* **remove_value** removes a name and the blanks after it wherever it finds the
  name in a list. What precedes it in its item (the comment sign that disable wrote, the
  rest of a longer name) sticks to what follows, an entry or what closes the list, which is then lost.

### Met while modelling

Facts of the source that a reader should know of, without a run of their own.

The sensing pipeline:

* requestRead tests `pos + *length` against one load of `_head` and clamps
  with another: if the writer commits in between, `*length` grows beyond what was asked.
* requestWrite erases markers without the mutex that findMarker holds, so that timeAt may answer from
  a freed node, where its comment promises the time or 0.
* A search that a marker was erased under never dates a sample from the marker of another
  batch (`FoundTimeIsRight`): it finds its own, none, or a freed node, and the latter two only when
  its batch is no longer kept from its start.
* calc_fft cannot tell an FFT that FftFromRing gave up from a good one.
* FftFromRing loops with length 0 when requestReadLastN grants nothing
  because fewer samples than an FFT are kept after an overrun.
* stopAddingCommunications erases and then increments, which skips the entry
  after each erased one. `EndedComsLeave` shows that a later sweep gets it.
* An FFT without date makes the unsigned silence of every entry huge: ongoing
  transmissions are finished by it, as by one dated earlier than the last.
  `RecentComsStay` shows that nothing else does: what was heard in the FFT of the sweep, or
  less than the delay before its date, stays.
* `hasNAvailableFrom` is strict where its comment counts exactly n entries. A batch
  longer than the ring makes staged samples public, which is why
  `StagedDataIsPrivate` is only claimed when batches fit. The marker of the
  oldest batch is erased with its first sample while its later samples are kept, so
  these have no time. A band narrower than 10 kHz is allowed no error by a strict comparison, and gets a new
  entry each time it is heard; `NewComsAreNew` shows that every other band matches its own.
* sendToAll skips the client after an erased one; when the last is erased,
  libstdc++'s iterator comes back to the first client and all get the piece
  twice. A client that stays silent after it connected stops the I/O thread.
* The viewer cannot find the next message once it lost its place in the stream; it does so when
  it joined between a header and its payload, or was next to a client that was erased.
  A message dropped by the pause leaves those behind it in the buffer until more arrives. When
  the connection is lost in the middle of a message, the handler waits for ever in a deleted node.
* sendRetUpdate writes its length as a size_t of eight bytes at offset 1 of a header of five.

The transmitter:

* The callback reads the heap without its mutex.
* The heap accepts one message less than its limit.
* A message that ends exactly with a block costs an empty block.

The Python tools:

* The title of a compound is built as an object and exported as the `repr()` of
  it; mixed content is written without escaping; a CDATA section is escaped
  twice; attributes of the top-level classes that were never given are written as
  "None"; a paragraph loses its child elements when it is exported.
* `hasContent_` and `exportLiteral` of several mixed classes test attributes that no
  constructor sets.
* Overloads of one name are dropped: process_memberdefs means to compare the class of the converted
  object, but compares that of the memberdef.
* A header file that is not well-formed raises AttributeError before its error
  is looked at, and ends the whole generation: nothing gets a docstring. A kind of compound that
  doxyxml does not know ends it too. `ParsingErrorsAreContained` shows that no other
  file that is not well-formed does. A block without make
  function in the index ends it as well (NoSuchMember is not caught). After an index parse that
  raised, a second question gets a part of the members.
* In `remove`, answering `q`, or Ctrl-C, leaves the files deleted so far in the
  lists. A pattern that matches the module's own test, swig file or
  `__init__.py` ends it half-way: with the pattern `.` and all answered yes, remove always does.
* Adding a block twice overwrites its files and repeats its entries, of which remove takes one.
  disable finds a block's magic by its name anywhere in the line, the module's name included, so that it comments
  out the magic of `tx2` with that of `tx`. remove cleans `__init__.py` by a pattern that ends after
  the name: the lines of `tx2` go with those of `tx`. remove_value takes the end of a longer name.
* When a pattern matches `test_<mod>.cc`, remove deletes it and leaves its entry.
* With `-d` the main swig file is looked for from the wrong directory after
  the change of directory, and swig is skipped without a word.

### What the properties are about

* `CursorsOrdered`, `KeptSamplesIntact`, `CursorsOnlyAdvance`: what a reader can
  rely on between any two stores of the writer.
* `StagedDataIsPrivate`, `ValidatedReadIntact`, `ImplementsStream`: the
  reader's protocol. The reader copies first and validates after, so a property
  of the copy alone would be false; these say that the validation is enough.
* `MarkersFollowSamples`, `FoundTimeIsRight`: markers and times. The marker that answers is that of the
  sample's own batch; one erased too many, or taken from a neighbour, breaks the second.
* `SinglePacketFftIntact`, `FftTimeIsRight`, `FftsNeverOverlap`,
  `GrantedFftCompletes`: the part of the FFT's promise the code does keep.
* `OneEntryPerCom`, `FinishedComsAreFrozen`, `RecentComsStay`,
  `NewComsAreNew`, `ReportedOnce`, `FinishedComsAreReported`, `EndedComsLeave`:
  the life of a transmission in the table, from its first FFT to its report.
* `PiecesReachAll`: each listed client gets the pieces in order, each once, but for what
  the two faults of sendToAll above do, and these only when a client was
  erased during that very piece. `TalkingClientsAreServed`: nobody waits for ever but
  for a silent client. `FramingIsKept`: the viewer only loses its place through the server's
  faults, never through a pause, bytes that arrive late or what runs while it waits.
  `NoMessageIsLeft`: it displays in order, and leaves nothing in the buffer but behind a
  message that the pause dropped.
* `MessagesAreSentWhole`: what the callback gave is the accepted messages, each with
  all repetitions and symbols, whatever the size of blocks and however streams end.
  `InterpreterStaysInCode`: the interpreter never runs past `STOP`, nor takes what is left of one
  symbol for another's, across blocks, repetitions and streams.
  `DrainedBeforeStop`: no sample is on its way when NULL is returned.
  `InBandMessagesAreSent`: the part of the promise of sending the code does keep.
* `ChildrenAreKept`, `ExportIsTheDocument`, `DescriptionIsItsText`: reading
  loses nothing that is declared, writing back is the identity on regular documents, and
  a description has every text once, in order, with its paragraphs.
* `AnswersAreStable`, `OneObjectPerRefid`, `NamesAreUnique`: laziness and caches are
  invisible. `EachDocumentedOnce`, `ParsingErrorsAreContained`: the three passes of
  the generator share the work exactly, and the only file that ends them by being malformed is a header.
* `RemovalIsExact`: on a tidy module of unrelated names, a removal that ends has deleted all that is said of
  the deleted files and nothing else, but the entry of `test_<mod>.cc`.
  `DisabledEverywhere`: among unrelated names, disable keeps what the swig file, `__init__.py`, the test and
  the lists say of a file in step, also on what other commands, finished or not, have left. Neither is true of names
  that contain one another (above). `FilesComeFirst`: wherever they are interrupted, add and makexml
  never list what is not there. remove does, by the order of its edits, and is not promised to do otherwise.

### Bounds

`MaxPos` (positions written), `MaxTime` and `MaxComs` (identifiers), `MaxPieces`,
`MaxErrors`, `MaxNodes`, `MaxCommands` and `MaxNo` bound what would grow for
ever; each is a guard of the action that grows it.

* `ring_fit`: 3 cells, up to 7 positions: more than two turns around the ring, packets split by
  the end of the ring, batches that fill it exactly, and requests of 1 and of 3
  samples, the second of which always wraps or fills the ring. The ring's logic
  depends on positions only modulo the length and through differences bounded by it.
* `ring_oversize`: batches of 1, 2 and 3 in 2 cells, 5 positions: two markers in the list at once,
  batches that fill the ring and oversized ones, at both alignments, with two readers that
  hold and want the mutex while the writer inserts and erases. Batches of 2 have a second
  sample, whose marker may go before it; batches of 1 leave a marker at the very tail, which must stay.
* `fft_fit`: FFTs of 2 in a ring of 5 with batches of 1 and 3, 9 positions: the
  FFT wraps, is overtaken during any step, and requestReadLastN is taken. 5 is
  odd so that FFTs and ring never stay aligned.
* `table_fit`: 3 identifiers, four bands, two of which are one transmission seen at slightly different
  places and one is narrow, FFTs dated 1, 2 or not at all, in any order, no delay and every
  FFT reported: three entries at once, so that the sweep erases first, middle,
  next-to-last, last and only elements, and a ring of 1 finished entry, so
  that entries are given up, some before their report.
* `sensing_fit`: the viewer and one more client, before or after it in the list, so that the
  one that dies is followed by the viewer (which misses the piece) or is the last (and the walk
  starts again); three pieces, an FFT and the header and payload of an update, each in up to
  three parts; one accept that fails.
* `transmission_*`: blocks of 3 samples; a repeated message whose symbols (one of them empty) end
  inside blocks, one of exactly a block, one for the other frequency, one whose preparation
  failed (it has no symbols); a heap that refuses the third
  while two wait; 2 transfers, hence 4 buffers; one streaming error or
  one failure of brf_set_phy.
* `doxygen_fit`: an element with two children or texts below every class, three for those
  whose order of children can go wrong, four nodes below a description, where paragraphs nest.
  The classes only differ in the schema: the forms of the methods are all reached several times.
* `swig_fit`: four indexes (a group before or after its class, two of them with a header in
  different places, a kind of compound doxyxml does not know), three classes (a make friend,
  overloaded constructors with an operator, a memberdef in two sections), two headers, one with
  an operator, at most one bad file, descriptions of all or of the make function only.
* `modtool_*`: two blocks with the end of their names in common, of which any were added before, two
  commands, one refusal per command: enough for a command to meet what another left, interrupted or not. The
  patterns match one of the blocks, everything, or the file that runs the module's tests.

Deadlock is checked in `ring_*` and `table_fit`: a reader may always start another
call, and the detection cycle always goes on. It is not in the others: the
detection thread rightly waits for ever once the radio has delivered the
`MaxPos` samples of the bound (`fft_*`), no client is left (`sensing_fit`), the
stream ended after the signal, thread_tx could not tune the radio, or the race ended the behaviour
(`transmission_*`), the document is read (`doxygen_fit`), the file is
written or an exception left the pass (`swig_fit`), all commands of the bound were run (`modtool_*`).

### Fairness

* `FftFromRing`: strong fairness of the detection thread's steps, because it
  waits for a mutex the radio thread takes for one insertion at a time: it is
  free again and again, and a waiting thread gets it in the end (the lock is a
  `boost::mutex`; its callers do nothing but wait for it). Weak fairness of a
  general_work call that began. Nothing makes the radio call it again, so no
  property relies on new samples.
* `RadioEventTable`: weak fairness of the detection cycle, a loop that only
  stops with the process. Adding bands is not fair: nothing makes a
  transmission be heard.
* `SensingServer`: strong fairness of the I/O thread, for the same reason as above: it
  waits for a mutex that is freed after each sendToAll. Weak fairness of a walk that began: sends
  return because clients read (a client that does not read would block the
  detection thread, and is not modelled). Nothing makes a client connect, speak
  or leave. `SensingNode` adds weak fairness of dataReady's own steps.
* `Transmission`: weak fairness of the callback, of the radio that consumes
  what it is given, of thread_tx's loop, and of an addMessage that began. Nothing makes
  streaming fail, or main add a message.

The ring and its readers, and the Python tools, are only checked for safety: the
latter run to their end or not at all.

## 4. What is not modelled

* For good: the numerical code (FFT, windows, power, waveforms,
  demodulation), device, file and socket I/O as such, the display, and GNU Radio's
  scheduler, of which only the call of general_work is used.
* Not yet: the parts of section 1 without a module (section 6).
* In the sensing pipeline: the setters of the block; the viewer's side of the table
  (updateFromString); matchActiveCommunications, which walks the clients without the
  mutex (the scan that fills the table it is given is compiled out); requests that arrive in
  parts; sends that are cut short.
* In the transmitter: the change of sample rate, the amplitude, ModulationLiquidDSP's own getNextSamples,
  how the interpreter leaves a message without STOP (its prepareMessage failed), and the receiving thread.
* In the Python tools: `exportLiteral`, `hasContent_`, getters, setters, searches and
  command lines of the generated files; the wording of docstrings; of gr_modtool
  modules of version 36 and autotools, names that are regular expressions, the install list of the swig directory,
  what `test_<mod>.cc` itself says, blocks of type noblock, the skip options, newmod, info, help, the templates'
  text and the parser of C++ blocks that makexml uses.

## 5. What is proved

The theorems are in six modules of proofs, on `BufferLemmas.tla` (remainders, cells of a
ring, the list without one of its elements, `FlattenSeq` and the beginnings of a sequence) and
`RingBuffer_proofs.tla` (the writer's lemmas, which the readers and the detection thread share).

| theorem | statement | module of proofs |
|---|---|---|
| `TypeCorrect` | `Spec => []TypeOK` | `RingBufferReaders_proofs` |
| `CursorsAlwaysOrdered` | `Spec => []CursorsOrdered`, at every single store, oversized batches included | |
| `KeptSamplesAlwaysIntact` | `Spec => []KeptSamplesIntact` | |
| `ValidatedReadsAreIntact` | `Spec => []ValidatedReadIntact`, for any number of readers | |
| `CursorsNeverGoBack` | `Spec => CursorsOnlyAdvance` | |
| `MarkersAlwaysFollowSamples` | `Spec => []MarkersFollowSamples` | |
| `FoundTimesAreRight` | `Spec => []FoundTimeIsRight`, for any number of readers, node by node against the erasing writer | |
| `FittingBatchesStayPrivate` | `BatchesFit` implies `Spec => []StagedDataIsPrivate` | |
| `ValidatedReadsAreCommitted` | `BatchesFit` implies `Spec => []ValidatedReadCommitted` (in the runs, a part of `ImplementsStream`) | |
| `RingImplementsStream` | `BatchesFit` implies `Spec => ImplementsStream`: the refinement of `SampleStream` | |
| `SinglePacketFftsAreIntact` | `Spec => []SinglePacketFftIntact` | `FftFromRing_proofs` |
| `FftTimesAreRight` | `Spec => []FftTimeIsRight`, in the same terms | |
| `FftsAdvance` | `Spec => FftsNeverOverlap` | |
| `TableTypes` | `Spec => []TypeOK` | `RadioEventTable_proofs` |
| `ComsAreInOnePlace` | `Spec => []OneEntryPerCom` | |
| `FinishedComsStayFrozen` | `Spec => FinishedComsAreFrozen` | |
| `RecentComsAlwaysStay` | `Spec => RecentComsStay`, whatever the dates of FFTs | |
| `CreatedComsAreNew` | `Spec => NewComsAreNew`, for every set of bands | |
| `ComsAreReportedOnce` | `Spec => ReportedOnce` | |
| `TheInterpreterStaysInCode` | `Spec => []InterpreterStaysInCode` | `Transmission_proofs` |
| `StreamsAreDrained` | `Spec => DrainedBeforeStop` | |
| `MessagesAreWhole` | `Spec => []MessagesAreSentWhole`, for every plan of symbols and repetitions and every size of blocks | |
| `PiecesReachAllClients` | `Spec => []PiecesReachAll` | `SensingServer_proofs` |
| `PiecesReachTheViewer` | `NodeSpec => []PiecesReachAll` | |
| `TheViewerKeepsFraming` | `NodeSpec => []FramingIsKept`, however parts arrive, and whatever the user pauses | |
| `TheViewerLeavesNothing` | `NodeSpec => []NoMessageIsLeft` | |
| `RefidsStandForOneObject` | `SwigSpec => []OneObjectPerRefid`, for every directory, and whatever was asked before the pass | `SwigDoc_proofs` |
| `MemberNamesAreUnique` | `SwigSpec => []NamesAreUnique` | |
| `ParsingErrorsNeverEscape` | `SwigSpec => []ParsingErrorsAreCaught` (the first part of `ParsingErrorsAreContained`), whichever files are not well-formed | |

`Invariance`, `FftInvariance`, `TableInvariance`, `TransmissionInvariance`, `SentInvariance` and
`SwigInvariance` state the inductive invariants they rest on.

### Assumptions

The theorems hold for all values of the constants that the modules' named assumptions
admit: a ring with at least one cell, batches with at least one sample, special values distinct
from each other, positions and requests far below the word size (in the code: 2^64),
and so on. `XmlAssumption` says of doxygen's output what the lazy objects rely on: the index names
each compound once, each has its file, and memberdefs, which have no refid, are never compounds;
nothing is assumed of names, of which files are well-formed, or of groups, which may
contain each other. TLC evaluates the assumptions on every run. Some theorems have one hypothesis more,
`BatchesFit`: no batch is longer than the ring. `ring_oversize` shows why: requestWrite
then raises `_head` over samples it has only staged. The program's ring is
much larger than what GNU Radio hands over in a call, but nothing in the code says so.

### The ring and its readers

None of the properties is inductive alone. The invariant has these parts:

* **Cursors** (`CursorInv`). For each program point of requestWrite, what its locals say about
  the cursors: where the packet starts and ends, that it does not wrap, and
  between the test and the stores what room has been made. From it the order of
  the cursors follows at each store.
* **Cells** (`RingInv`). `KeptSamplesIntact` with `src` and `cell` tied to the position the
  memcpy has reached. Preserving it needs that two positions closer
  than the length of the ring never share a cell (`CellsDiffer`), which is why the order
  and span of the cursors come first.
* **Readers** (`ReaderInv`). For each program point of a reader: where it is in its span, and
  that every sample it has copied from a position which is *still* at or above
  `_tail` is intact. The proviso is what makes it inductive. The writer may
  overwrite a cell under the reader only after it raised `_tail` above it, and the cursor never
  goes back; the final load of `_tail` turns the proviso into a fact.
* **Markers** (`MarkersTyped`, `MarkersInv`). `MarkersFollowSamples`, with what EraseMarker's
  loop has left below the tail, and that the marker of the batch at hand is behind all others
  until it is inserted.
* **Times** (`DatesInv`, `FoundInv`). Every batch whose first sample is kept, and that is not the one at hand,
  has its marker in the list; the position searched for is public, so its batch is one of them or is being
  overwritten. Of a search: it holds the mutex, so that no marker is added behind it, it has only passed
  markers above the position (`PassedBy`), and where it stopped is the greatest marker at or below
  (`StoppedAt`), or a node erased under it. As erasing takes markers from the front only, what it has passed
  stays, and when the marker of the position's batch is gone, so are all before it: the search finds that
  marker, none, or the freed node. Nothing is said of a batch longer than the ring, which has no marker of its own.
* **Committed** (`FitInv`, only for batches that fit). `_head` stays at the start of the
  batch, so what readers were granted is committed.
* **The stream** (`BatchInv`, `GotInv`). What is copied and what is left add up to a whole
  batch, so that validateWrite maps to `Commit` of a size in `BatchSizes`; a reader that
  checks its span holds a sample. A raised `_tail` maps to `Forget`, the first accepted check to
  `Deliver`, the end of the call to `Drop`, all else to stutters.

The writer's parts are preserved by its actions alone (`CursorStep`, `RingStep`,
`MarkersStep`), and a writer's step keeps every `ReaderInv` (`InvProducer`); the
readers' actions have a lemma each, or one for a group of the same shape.

### The detection thread

`FftInv` beside the writer's parts: the FFT in progress only asks for public samples
(`PosInv`), nothing is copied before it is granted (`FreshInv`, `GrantInv`), and as for
readers, what has been copied in the first packet is intact as long as its position is at or
above `_tail` (`CopyInv`). Only the first packet: what the second does to `dst` is the
finding of `fft_FftIsItsSamples`. `FftsAdvance` needs that `head` never goes back between
calc_fft's test and requestReadLastN. `DateInv` is `FoundInv` for this thread, kept until the FFT is done.

### The table

`FinishedInv`: the ring of finished coms keeps no more than its size, so push_back reuses
the cell of the com it gives up and no other. `IdsInv`: all identifiers, reported ones
included, are below `currentComID`; that, and not the sweep's order, makes a new com
new. `ReportInv`: what was reported is neither active nor
waiting to be. `ErasedProperties` (`BufferLemmas`) says what `erase` leaves, and carries the sweep's
steps whatever element it erases. `RecentComsStay` needs no history of dates: for a transmission
not dated after the sweep, the unsigned difference is the plain one (`AgeIsExact`), which is what the property
says. `NewComsAreNew` is that a band of 10 kHz or more is within the margin of itself (`WideBandsMatch`).

### The transmitter

`CodeInv` says that no reachable point of the interpreter is past `STOP`: each round of getNextSamples
moves by one command, back to the first at `REPEAT`, and no command after which it
may stop with a full block is the last. `DrainInv` follows bladerf_TX_cb's count: with `exitIn`
to go, the youngest `ExitAfter - exitIn` of the blocks in flight are empty. As there are never more than
`buffersCount` of them and `ExitAfter` is no less, all are empty when NULL is returned.

`SentInv` is what `MessagesAreSentWhole` lacks to be inductive. `HeapInv`: the heap holds the
last messages accepted, and the one before them is being sent. `RepeatInv`: the
interpreter meets `STOP` in the last repetition only. `StreamInv`: without its silences, what was given and
the block in hand are the samples of all messages taken before, and `Made` of this one: its
finished repetitions, finished symbols and the beginning of a symbol. Each round of
getNextSamples adds to `block` what it adds to `Made` (`MadeGenerate`, `MadeSymbol`,
`MadeRepeat`); at `STOP`, `Made` is the whole message (`AllMade`). `GapInv`
places the silences: a short block ends a message, and a silent one is given with no message in hand
(`DrainedIdle`), or after the signal, when nothing follows it. The lemmas
on `FlattenSeq` replace induction over data: the library states that principle for an operator,
which the provers cannot instantiate; here it is stated for a set (`AllNaturals`), the numbers of
which the claim holds, and proved from the least one of which it does not.

### The server

`PlaceInv`: a client is away, in the backlog, in the hands of the I/O thread or in the list, in one
place of it. `StreamsInv` is `Served` for each place of the list: what a client got before the piece
at hand, and, during a walk, whether the walk has passed it, has it before it, or has started again.
It is stated with the walk's position, because an erasure moves clients across it: the one
behind the erased client is passed without its piece, and after the erasure of the last one all others are
before it again. `PiecesReachTheViewer` needs only that a viewer's step leaves the server's
state alone.

### The viewer

`FramingIsKept` speaks of bytes, `ServerInv` of pieces: `StreamInv` says what the pieces of
the viewer's stream are (in order, none above the current one, and without an erasure that
concerns the viewer, consecutive from the one after it joined), and the lemmas on `FlattenSeq` in `BufferLemmas` carry
it to the parts: a part of the stream lies in one piece, between the end of the piece before and its own end, so
the part after the end of a message is a header (`BoundaryIsHeader`) and what follows a header is its
payload (`PayloadFollows`). `FrameInv`: without excuse, dataReady stands at the end of a message
whenever it is to read a header. `HeaderInv`: while it reads a payload, the header
of `current` is what it took last. `IdleInv` is the second part of `NoMessageIsLeft`.
`OrderInv` adds that all messages shown were read before the place it has reached, from
which the order of the next one follows. Server's steps only lengthen the
stream (`StreamLengthens`), so no place in it changes what it holds, and with the guards of
`Server` none of them takes place in the middle of dataReady.

### The lazy objects and docstrings

`HeapInv` holds of the heap between any two statements of any call, whatever exception ends it.
`ObjectsInv`: members and cached categories point to objects of the heap, and only
parsed objects have members. `IndexInv`: the index is the first, is never in error, and is alone until it is parsed.
`RefsInv`: an object with a refid is the one `_refs` has for it, and conversely; `OneObjectPerRefid` follows. `MembersInv`: the names in
a class or a file are distinct; the step of process_memberdefs keeps that each member's name is one of
the memberdefs before (`NamesOfFirst`), so the first of a name is new. Beside it, `Later` says what no call undoes:
no object leaves, or changes class, refid, key or name, and one that was parsed stays so, with the same error.

A call of DoxyXml is one step but a loop in the code, over memberdefs, references, compounds, names or members: a
fold, and the heap after its last round is what matters. `FoldExists` shows, by
`AllNaturals`, that the function which defines a fold exists, and
`FoldRuns` that it goes through one heap per round; each loop then needs only that a round keeps
`HeapInv` and `Later` (`AddMemberdefAdds`, `AddRefAdds`, `AddCompoundWorks`, `AskBlockWorks`). Every operation has a lemma that
says so, and which exceptions it may raise. For `ParseIndex` the rounds also keep that the refids
known are those of the compounds met, so that a compound is made anew, and its file parsed, once.

`ParsingErrorsAreCaught` needs that of all questions of the pass only those
to a block or class raise `ParsingError`, where `Attempt` catches it: Block.includes asks for
the error first (`IsBlockWorks`), and the index, never in error and parsed since the first
question (`GenInv`), answers the rest.

### Only model-checked

* Liveness under fairness: `GrantedFftCompletes`, `FinishedComsAreReported`, `EndedComsLeave`,
  `TalkingClientsAreServed`, `InBandMessagesAreSent`.
* `AnswersAreStable`: the step compares what two heaps answer. A proof would need what
  each question answers as a function of the files alone, and that groups refer to
  compounds by their kind, of which `XmlAssumption` says nothing.
* The rest of `ParsingErrorsAreContained`: which files end the pass.
* `EachDocumentedOnce`: true only of directories in which names tell what is documented apart (two
  blocks with one make function share an entry), and a count of entries over the three passes.
* `RemovalIsExact`, `DisabledEverywhere`, `FilesComeFirst` of gr_modtool, whose lists are
  made with `SelectSeq` and operators given as arguments: not attempted yet.
* `DoxygenDocument`, which recurses over documents: `ChildrenAreKept`, `ExportIsTheDocument`,
  `DescriptionIsItsText`.

## 6. Plan

In this order; the modules marked * exist.

1. * `RingBuffer`, `RingBufferReaders`, `SampleStream` and their proofs: everything downstream
   rests on the ring.
2. * `FftFromRing` (extends `RingBuffer`): the one consumer.
3. * `AbsoluteRingBuffer`, `RadioEventTable` (instantiates it).
4. * `SensingServer`: clients, I/O thread and detection thread around the list of
   clients.
5. * `Transmission`: the heap, the stream callback, the interpreter of commands across
   blocks, the restart of streams.
6. * `DoxygenSchema`, `DoxygenParser`, `DoxygenDocument`; `DoxyXml`, `SwigDoc`: the
   generation of docstrings, from the XML to the interface file.
7. * `ModTool`: the editor of a module's files.
8. * `SensingNode`: the viewer's message reader with the nested event loop and the pause.
   Left: its table rebuilt by updateFromString from the reports of
   `RadioEventTable`, the windows of getRange; composed with the table, so that the
   viewer's finished entries are compared with the server's.
9. `BurstReceiver`: the automaton of rxtimedomain across blocks with the
   sub-bursts of `Burst`, checked against the reception of one single block.
10. `ComsDetect` with `CalibrationPoint`'s counters, then
   `Message` and `Manchester` against reference definitions, and the simulation.

Properties to state first in each: convergence of the viewer and no duplicate
entry (8), independence of the block size (9).

Theorems to prove next: `FilesComeFirst` for gr_modtool, with an invariant that what an
editor holds of a directory names no file that its lists did not; of the viewer, that its node is
never used after its connection was lost but by the handler that was waiting in it; of the lazy
objects, what each answers as a function of the files, from which `AnswersAreStable` follows.
