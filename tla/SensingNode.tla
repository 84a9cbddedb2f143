------------------------------ MODULE SensingNode ------------------------------
(***************************************************************************)
(* spectrum-viz/sensingnode.cpp: the viewer as a client of SensingServer.  *)
(* dataReady reads messages from the socket in the event loop, which it    *)
(* runs again while it waits for the rest of one; the user may pause the   *)
(* updates, and the connection may be lost, whenever the loop runs.        *)
(*                                                                         *)
(* Every third piece is an FFT, a message of its own; the other two are    *)
(* the header and the payload of an update of the table.  A message is     *)
(* known by its header's piece, and comes in three parts: the header, the  *)
(* first byte of its payload, and the rest.                                *)
(***************************************************************************)
EXTENDS SensingServer

CONSTANT Viewer

ASSUME ViewerAssumption == Viewer \in Clients

VARIABLES
  empties,           \* the updates that have no payload
  arrived, taken,    \* parts of the stream in the socket's buffer, and read from it
  handler,           \* where dataReady is; "lost" if it took a payload for a header
  current,           \* the message whose header it read last
  paused,            \* updatesPaused
  shown, dropped     \* the messages that were displayed, and those thrown away

viewerVars == <<arrived, taken, handler, current, paused, shown, dropped>>
nodeVars == <<sensingVars, empties, viewerVars>>

IsUpdate(p) == p % 3 = 2
IsPayload(p) == p % 3 = 0
Part(m, name) == [message |-> m, name |-> name]

Payload(m) == IF m \in empties THEN <<>> ELSE << Part(m, "first"), Part(m, "rest") >>

Parts(p) ==
  CASE IsPayload(p) -> Payload(p - 1)
    [] IsUpdate(p) -> << Part(p, "header") >>
    [] OTHER -> << Part(p, "header") >> \o Payload(p)

Sent == FlattenSeq([i \in DOMAIN streams[Viewer] |-> Parts(streams[Viewer][i])])
Available == SubSeq(Sent, taken + 1, arrived)

--------------------------------------------------------------------------------
(* The event loop *)

EventLoop == handler \in {"idle", "waiting"}

\* readyRead is not emitted again while its slot runs.
Arrive ==
  /\ EventLoop /\ arrived < Len(Sent)
  /\ arrived' = arrived + 1
  /\ handler' = IF handler = "idle" THEN "testing" ELSE handler
  /\ UNCHANGED <<taken, current, paused, shown, dropped>>

PauseUpdates ==
  /\ EventLoop
  /\ paused' = ~paused
  /\ UNCHANGED <<arrived, taken, handler, current, shown, dropped>>

\* destroyClient deletes the node; the handler that waits goes on with what is left
\* of it, and for ever.
ClientDisconnected ==
  /\ EventLoop /\ state[Viewer] = "gone"
  /\ handler' = IF handler = "idle" THEN "closed" ELSE "dangling"
  /\ UNCHANGED <<arrived, taken, current, paused, shown, dropped>>

--------------------------------------------------------------------------------
(* dataReady, with readExactlyNBytes *)

\* More than five bytes, the length of a header.
MoreThanHeader == Len(Available) > 1

ReadHeader ==
  /\ handler = "testing" /\ MoreThanHeader
  /\ IF Head(Available).name = "header"
     THEN handler' = "reading" /\ current' = Head(Available).message /\ taken' = taken + 1
     ELSE handler' = "lost" /\ UNCHANGED <<current, taken>>
  /\ UNCHANGED <<arrived, paused, shown, dropped>>

LeaveDataReady ==
  /\ handler = "testing" /\ ~MoreThanHeader
  /\ handler' = "idle"
  /\ UNCHANGED <<arrived, taken, current, paused, shown, dropped>>

\* mutant: read() alone gives what has arrived
ReadWhatIsThere(m) == IF Len(Available) = 1 THEN Available ELSE Payload(m)

\* readExactlyNBytes gives all of it.
ReadExactly(m) == Payload(m)

InStep == IsPrefix(ReadExactly(current), Available) \/ IsPrefix(Available, ReadExactly(current))
IsThere == IsPrefix(ReadExactly(current), Available)

ProcessEvents ==
  /\ handler = "reading" /\ InStep /\ ~IsThere
  /\ handler' = "waiting"
  /\ UNCHANGED <<arrived, taken, current, paused, shown, dropped>>

TakeOtherBytes ==
  /\ handler \in {"reading", "waiting"} /\ ~InStep
  /\ handler' = "lost"
  /\ UNCHANGED <<arrived, taken, current, paused, shown, dropped>>

\* mutant: one message for each readyRead
AfterMessageReturn == "idle"

AfterMessage == "testing"

\* A message read while updates are paused is dropped, and dataReady returns.
ReadMessage ==
  /\ handler \in {"reading", "waiting"} /\ IsThere
  /\ taken' = taken + Len(ReadExactly(current))
  /\ IF paused THEN /\ handler' = "idle"
                    /\ dropped' = dropped \cup {current} /\ UNCHANGED shown
               ELSE /\ handler' = AfterMessage
                    /\ shown' = Append(shown, current) /\ UNCHANGED dropped
  /\ UNCHANGED <<arrived, current, paused>>

DataReady == ReadHeader \/ LeaveDataReady \/ ProcessEvents \/ TakeOtherBytes \/ ReadMessage

--------------------------------------------------------------------------------

NodeInit ==
  /\ Init
  /\ empties = {} /\ arrived = 0 /\ taken = 0 /\ handler = "idle" /\ current = 0
  /\ paused = FALSE /\ shown = <<>> /\ dropped = {}

\* The viewer asks for everything as soon as it is connected.  Nothing between two
\* runs of its event loop depends on the server, which waits for that long.
Server ==
  /\ handler \notin {"testing", "reading"}
  /\ Next
  /\ state'[Viewer] # "silent"
  /\ serving = Viewer /\ state[Viewer] = "talking" /\ mutex' = "io" => full'[Viewer]
  /\ UNCHANGED viewerVars
  /\ IF piece' # piece /\ IsUpdate(piece')
     THEN \E e \in {{}, {piece'}} : empties' = empties \cup e
     ELSE UNCHANGED empties

Node ==
  /\ Arrive \/ PauseUpdates \/ ClientDisconnected \/ DataReady
  /\ UNCHANGED <<sensingVars, empties>>

NodeNext == Server \/ Node

NodeSpec ==
  /\ NodeInit /\ [][NodeNext]_nodeVars
  /\ SF_nodeVars(IoThread /\ Server) /\ WF_nodeVars(Walk /\ Server)
  /\ WF_nodeVars(DataReady /\ Node)

--------------------------------------------------------------------------------
(* Properties *)

\* dataReady takes a payload for a header only if the viewer was added between a
\* header and its payload, or missed a piece or got one twice because another client
\* was erased: never because of how bytes arrive, of a pause, or of what runs while
\* it waits.
FramingIsKept ==
  handler = "lost" =>
    \/ IsUpdate(joined[Viewer])
    \/ \E d \in deaths : d.piece > joined[Viewer] /\ d.next \in {Viewer, Nobody}

\* Messages are displayed in the order in which they were sent, each once, and when
\* dataReady returned no message is left in the buffer but an update without payload,
\* although readyRead is not emitted for what arrived meanwhile; unless the last one
\* read was dropped by the pause, which leaves all behind it there.
NoMessageIsLeft ==
  /\ \A i \in 2..Len(shown) : shown[i - 1] < shown[i] \/ Copies(Viewer, shown[i]) > 1
  /\ handler = "idle" => \/ ~MoreThanHeader
                         \/ current \in dropped

================================================================================
