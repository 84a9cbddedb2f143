----------------------------- MODULE SensingServer -----------------------------
(***************************************************************************)
(* The server of the hachoir block: the I/O thread accepts clients and     *)
(* reads what they ask for, the detection thread sends to all of them.     *)
(* They share the list of clients.                                         *)
(*                                                                         *)
(* What the detection thread sends is cut into pieces, one per sendToAll,  *)
(* numbered in order: an FFT, the header of an update, its payload.        *)
(***************************************************************************)
EXTENDS Naturals, FiniteSets, SequencesExt

CONSTANTS
  Clients,        \* the programs that connect, each once (bound)
  MaxPieces,      \* bound: pieces sent
  MaxErrors       \* bound: accepts that fail

VARIABLES
  state,          \* per client: "away", "silent", "talking", "gone"
  backlog,        \* connections not yet accepted
  listening,      \* an async_accept is pending
  serving,        \* the client whose requests the I/O thread reads
  list,           \* _clients
  full,           \* _fullSensing
  mutex,          \* who has _clientsMutex
  it,             \* the detection thread's iterator
  piece,          \* the piece being sent, or sent last
  streams,        \* what each client was sent
  deaths,         \* the clients erased: when, and who was next
  joined, errors  \* the piece sent last when a client joined

sensingVars == <<state, backlog, listening, serving, list, full, mutex, it, piece, streams, deaths, joined, errors>>

Nobody == "nobody"
NotWalking == 0

--------------------------------------------------------------------------------
(* The clients *)

Connect(c) ==
  /\ state[c] = "away"
  /\ \E s \in {"silent", "talking"} : state' = [state EXCEPT ![c] = s]
  /\ backlog' = Append(backlog, c)
  /\ UNCHANGED <<listening, serving, list, full, mutex, it, piece, streams, deaths, joined, errors>>

\* A connection is closed, or lost, at any time.
Leave(c) ==
  /\ state[c] \in {"silent", "talking"}
  /\ state' = [state EXCEPT ![c] = "gone"]
  /\ UNCHANGED <<backlog, listening, serving, list, full, mutex, it, piece, streams, deaths, joined, errors>>

--------------------------------------------------------------------------------
(* The I/O thread *)

\* mutant: the next accept is asked for when this one went well
ListensAgainIfAccepted(error) == ~error

\* incomingConnection begins with startListening.
ListensAgain(error) == TRUE

Accept ==
  /\ listening /\ serving = Nobody /\ backlog # <<>>
  /\ serving' = Head(backlog) /\ backlog' = Tail(backlog)
  /\ listening' = ListensAgain(FALSE)
  /\ UNCHANGED <<state, list, full, mutex, it, piece, streams, deaths, joined, errors>>

AcceptFails ==
  /\ listening /\ serving = Nobody /\ errors < MaxErrors
  /\ errors' = errors + 1
  /\ listening' = ListensAgain(TRUE)
  /\ UNCHANGED <<state, backlog, serving, list, full, mutex, it, piece, streams, deaths, joined>>

\* socketIsConnected returns when the requests are over or the connection is lost;
\* _fullSensing is never initialised: that of a client who does not ask is any.
ReadRequests ==
  /\ serving # Nobody
  /\ state[serving] \in {"talking", "gone"}
  /\ mutex = Nobody /\ mutex' = "io"
  /\ \E asked \in BOOLEAN : full' = [full EXCEPT ![serving] = asked]
  /\ UNCHANGED <<state, backlog, listening, serving, list, it, piece, streams, deaths, joined, errors>>

AddClient ==
  /\ mutex = "io"
  /\ list' = Append(list, serving)
  /\ joined' = [joined EXCEPT ![serving] = piece]
  /\ serving' = Nobody /\ mutex' = Nobody
  /\ UNCHANGED <<state, backlog, listening, full, it, piece, streams, deaths, errors>>

--------------------------------------------------------------------------------
(* The detection thread: sendToAll *)

BeginSend ==
  /\ mutex = Nobody /\ piece < MaxPieces
  /\ mutex' = "detection" /\ piece' = piece + 1 /\ it' = 1
  /\ UNCHANGED <<state, backlog, listening, serving, list, full, streams, deaths, joined, errors>>

AtClient == mutex = "detection" /\ it \in DOMAIN list

SkipClient ==
  /\ AtClient /\ ~full[list[it]]
  /\ it' = it + 1
  /\ UNCHANGED <<state, backlog, listening, serving, list, full, mutex, piece, streams, deaths, joined, errors>>

\* A piece may still go out after the connection was closed.
SendTo ==
  /\ AtClient /\ full[list[it]]
  /\ streams' = [streams EXCEPT ![list[it]] = Append(@, piece)]
  /\ it' = it + 1
  /\ UNCHANGED <<state, backlog, listening, serving, list, full, mutex, piece, deaths, joined, errors>>

\* Where `++it' leads from what erase returned, in the list that is left: past the
\* client that followed; and, when none followed, from end() to begin(), as in
\* libstdc++'s circular list.
AfterErase(left) == IF it > Len(left) THEN 1 ELSE it + 1

\* mutant: the client stays in the list
SendFailsKept ==
  /\ AtClient /\ full[list[it]] /\ state[list[it]] = "gone"
  /\ it' = it + 1
  /\ UNCHANGED <<state, backlog, listening, serving, list, full, mutex, piece, streams, deaths, joined, errors>>

SendFails ==
  /\ AtClient /\ full[list[it]] /\ state[list[it]] = "gone"
  /\ LET left == RemoveAt(list, it)
     IN  /\ list' = left
         /\ deaths' = deaths \cup {[piece |-> piece, who |-> list[it],
                                    next |-> IF it > Len(left) THEN Nobody ELSE left[it]]}
         /\ it' = AfterErase(left)
  /\ UNCHANGED <<state, backlog, listening, serving, full, mutex, piece, streams, joined, errors>>

EndSend ==
  /\ mutex = "detection" /\ it \notin DOMAIN list
  /\ mutex' = Nobody /\ it' = NotWalking
  /\ UNCHANGED <<state, backlog, listening, serving, list, full, piece, streams, deaths, joined, errors>>

--------------------------------------------------------------------------------

Init ==
  /\ state = [c \in Clients |-> "away"]
  /\ backlog = <<>> /\ listening = TRUE /\ serving = Nobody
  /\ list = <<>> /\ full = [c \in Clients |-> FALSE]
  /\ mutex = Nobody /\ it = NotWalking /\ piece = 0
  /\ streams = [c \in Clients |-> <<>>] /\ deaths = {}
  /\ joined = [c \in Clients |-> 0] /\ errors = 0

IoThread == Accept \/ ReadRequests \/ AddClient
Walk == SkipClient \/ SendTo \/ SendFails \/ EndSend

Next ==
  \/ \E c \in Clients : Connect(c) \/ Leave(c)
  \/ IoThread \/ AcceptFails
  \/ BeginSend \/ Walk

\* The I/O thread is woken for a connection, and gets the mutex, which the
\* detection thread takes again and again; a send returns, as clients read.
Spec == Init /\ [][Next]_sensingVars /\ SF_sensingVars(IoThread) /\ WF_sensingVars(Walk)

--------------------------------------------------------------------------------
(* Properties *)

Copies(c, p) == Cardinality({i \in DOMAIN streams[c] : streams[c][i] = p})
Over(p) == p < piece \/ (p = piece /\ mutex # "detection")

\* No piece overtakes another, and from the moment a client is in the list it gets
\* each exactly once, although others come, leave and are erased during a walk: but
\* for the client after one that is erased, which may miss that piece, and for all
\* others when the last of the list is, who may get it again.
PiecesReachAll ==
  \A c \in Range(list) :
    full[c] =>
      /\ \A i \in 2..Len(streams[c]) : streams[c][i - 1] <= streams[c][i]
      /\ \A p \in (joined[c] + 1)..piece :
           /\ Over(p) /\ Copies(c, p) = 0 => \E d \in deaths : d.piece = p /\ d.next = c
           /\ Copies(c, p) > 1 => \E d \in deaths : d.piece = p /\ d.next = Nobody

\* Who connects and says what it wants gets into the list, or leaves, if no client that
\* connected before stays silent, whatever becomes of the others and of accepts that
\* fail.
TalkingClientsAreServed ==
  \A c \in Clients :
    (state[c] = "talking" /\ \A d \in Clients : state[d] # "silent")
      ~> (c \in Range(list) \/ state[c] = "gone" \/ \E d \in Clients : state[d] = "silent")

================================================================================
