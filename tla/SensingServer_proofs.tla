-------------------------- MODULE SensingServer_proofs -------------------------
(***************************************************************************)
(* Theorems about the server of module SensingServer, for every set of     *)
(* clients, number of pieces and of accepts that fail, alone and with the  *)
(* viewer of module SensingNode.                                           *)
(***************************************************************************)
EXTENDS SensingNode, BufferLemmas, FiniteSetTheorems

ServerTypes ==
  /\ state \in [Clients -> {"away", "silent", "talking", "gone"}]
  /\ backlog \in Seq(Clients)
  /\ serving \in Clients \cup {Nobody}
  /\ list \in Seq(Clients)
  /\ full \in [Clients -> BOOLEAN]
  /\ it \in Nat /\ piece \in Nat
  /\ streams \in [Clients -> Seq(Nat)]
  /\ joined \in [Clients -> Nat]

Listed(c) == \E k \in 1 .. Len(list) : list[k] = c
Waiting(c) == \E i \in 1 .. Len(backlog) : backlog[i] = c

(* A client is away, or in one place: the backlog, the hands of the I/O    *)
(* thread, or the list; and it is sent nothing before it is in the list.   *)
PlaceInv ==
  /\ \A c \in Clients :
       /\ state[c] = "away" => ~ Waiting(c) /\ ~ Listed(c) /\ streams[c] = <<>>
                               /\ (serving = Nobody \/ c # serving)
       /\ Waiting(c) => ~ Listed(c) /\ streams[c] = <<>> /\ (serving = Nobody \/ c # serving)
  /\ serving # Nobody => ~ Listed(serving) /\ streams[serving] = <<>>
  /\ \A i, j \in 1 .. Len(backlog) : backlog[i] = backlog[j] => i = j
  /\ \A k, l \in 1 .. Len(list) : list[k] = list[l] => k = l
  /\ mutex = "io" => serving # Nobody
  /\ mutex = "detection" => it >= 1

(* The excuses of PiecesReachAll. *)
Skipped(c, p) == \E d \in deaths : d.piece = p /\ d.next = c
Restarted(p) == \E d \in deaths : d.piece = p /\ d.next = Nobody

Walking == mutex = "detection"

(* What the client at k of the list was sent: in order; all pieces since   *)
(* it joined that the walk is past; and none twice, nor the current one    *)
(* before the walk is there.                                               *)
InOrder(c) ==
  LET s == streams[c]
  IN  /\ \A i \in 1 .. Len(s) : s[i] <= piece
      /\ \A i \in 2 .. Len(s) : s[i - 1] <= s[i]
      /\ joined[c] <= piece

Got(c, p) == Skipped(c, p) \/ \E i \in 1 .. Len(streams[c]) : streams[c][i] = p

GotOnce(c, p) ==
  \/ Restarted(p)
  \/ \A i, j \in 1 .. Len(streams[c]) : streams[c][i] = p /\ streams[c][j] = p => i = j

GotNot(c, p) == Restarted(p) \/ \A i \in 1 .. Len(streams[c]) : streams[c][i] # p

Served(c, k) ==
  /\ InOrder(c)
  /\ full[c] => \A p \in joined[c] + 1 .. piece : p < piece \/ ~Walking \/ k < it => Got(c, p)
  /\ \A p \in Nat : GotOnce(c, p)
  /\ Walking /\ k >= it => GotNot(c, piece)

StreamsInv == \A c \in Clients, k \in 1 .. Len(list) : list[k] = c => Served(c, k)

ServerInv == ServerTypes /\ PlaceInv /\ StreamsInv

--------------------------------------------------------------------------------
(* Copies in terms of places.                                              *)

LEMMA CopiesCounted ==
  ASSUME ServerTypes, NEW c \in Clients, NEW p
  PROVE  /\ (\E i \in 1 .. Len(streams[c]) : streams[c][i] = p) => Copies(c, p) # 0
         /\ (\A i, j \in 1 .. Len(streams[c]) : streams[c][i] = p /\ streams[c][j] = p => i = j)
              => ~ (Copies(c, p) > 1)
  <1> DEFINE n == Len(streams[c])
             I == {i \in DOMAIN streams[c] : streams[c][i] = p}
  <1>1. streams[c] \in Seq(Nat)
    BY DEF ServerTypes
  <1>2. DOMAIN streams[c] = 1 .. n /\ n \in Nat
    BY <1>1, LenProperties
  <1>3. IsFiniteSet(I)
    <2>1. IsFiniteSet(1 .. n)
      <3>1. 1 \in Int /\ n \in Int
        BY <1>2
      <3> HIDE DEF n
      <3> QED
        BY <3>1, FS_Interval
    <2>2. I \subseteq 1 .. n
      BY <1>2
    <2> QED
      BY <2>1, <2>2, FS_Subset
  <1>4. Copies(c, p) = Cardinality(I)
    BY DEF Copies
  <1>5. ASSUME NEW i \in 1 .. n, streams[c][i] = p PROVE Cardinality(I) # 0
    <2>1. i \in I
      BY <1>2, <1>5
    <2>2. I # {}
      BY <2>1
    <2> HIDE DEF I
    <2> QED
      BY <1>3, <2>2, FS_EmptySet
  <1>6. ASSUME \A i, j \in 1 .. n : streams[c][i] = p /\ streams[c][j] = p => i = j
        PROVE  ~ (Cardinality(I) > 1)
    <2>1. CASE I = {}
      <3> HIDE DEF I
      <3>1. Cardinality(I) = 0
        BY <2>1, FS_EmptySet
      <3> QED
        BY <3>1
    <2>2. CASE I # {}
      <3>1. PICK i \in I : TRUE
        BY <2>2
      <3>2. I = {i}
        BY <1>2, <1>6, <3>1
      <3> HIDE DEF I
      <3>3. Cardinality(I) = 1
        BY <3>2, FS_Singleton
      <3> QED
        BY <3>3
    <2> QED
      BY <2>1, <2>2
  <1> QED
    BY <1>4, <1>5, <1>6

(* The invariant says what the property says of every client. *)
LEMMA ServedIsReached == ServerInv => PiecesReachAll
  <1> SUFFICES ASSUME ServerInv, NEW c \in Range(list), full[c]
               PROVE  /\ \A i \in 2 .. Len(streams[c]) : streams[c][i - 1] <= streams[c][i]
                      /\ \A p \in joined[c] + 1 .. piece :
                           /\ Over(p) /\ Copies(c, p) = 0 => Skipped(c, p)
                           /\ Copies(c, p) > 1 => Restarted(p)
    BY DEF PiecesReachAll, Skipped, Restarted
  <1>1. /\ ServerTypes /\ list \in Seq(Clients) /\ piece \in Nat
        /\ DOMAIN list = 1 .. Len(list) /\ Len(list) \in Nat
    BY LenProperties DEF ServerInv, ServerTypes
  <1>2. PICK k \in 1 .. Len(list) : c = list[k]
    BY <1>1 DEF Range
  <1>3. c \in Clients /\ Served(c, k)
    BY <1>1, <1>2, ElementOfSeq DEF ServerInv, StreamsInv
  <1>4. \A i \in 2 .. Len(streams[c]) : streams[c][i - 1] <= streams[c][i]
    BY <1>3 DEF Served, InOrder
  <1>5. ASSUME NEW p \in joined[c] + 1 .. piece
        PROVE  /\ Over(p) /\ Copies(c, p) = 0 => Skipped(c, p)
               /\ Copies(c, p) > 1 => Restarted(p)
    <2>1. p \in Nat
      BY <1>1, <1>3 DEF ServerTypes
    <2>2. Over(p) => Got(c, p)
      BY <1>3 DEF Served, Over, Walking
    <2>3. GotOnce(c, p)
      BY <1>3, <2>1 DEF Served
    <2> QED
      BY <1>1, <1>3, <2>2, <2>3, CopiesCounted DEF Got, GotOnce
  <1> QED
    BY <1>4, <1>5

--------------------------------------------------------------------------------
(* What a client was sent, from one step to the next.                      *)

(* A step that sends it nothing: the walk may go past it if it is not      *)
(* to be sent anything or is the one after a client erased, and be before  *)
(* it again if it starts over.                                             *)
LEMMA ServedStays ==
  ASSUME ServerTypes, NEW c \in Clients, NEW k, NEW l, Served(c, k),
         streams'[c] = streams[c], joined'[c] = joined[c], full'[c] = full[c], piece' = piece,
         deaths \subseteq deaths',
         (Walking' => l < it') => ~Walking \/ k < it \/ Skipped(c, piece)' \/ ~full[c],
         Walking' /\ l >= it' => (Walking /\ k >= it) \/ Restarted(piece)'
  PROVE  Served(c, l)'
  <1>1. \A p : (Skipped(c, p) => Skipped(c, p)') /\ (Restarted(p) => Restarted(p)')
    BY DEF Skipped, Restarted
  <1>2. \A p : /\ Got(c, p) => Got(c, p)'
               /\ GotOnce(c, p) => GotOnce(c, p)'
               /\ GotNot(c, p) => GotNot(c, p)'
               /\ Skipped(c, p)' => Got(c, p)'
               /\ Restarted(p)' => GotNot(c, p)'
    BY <1>1 DEF Got, GotOnce, GotNot
  <1>3. InOrder(c)'
    BY DEF Served, InOrder
  <1>4. full'[c] => \A p \in joined'[c] + 1 .. piece' :
                      p < piece' \/ ~Walking' \/ l < it' => Got(c, p)'
    <2> SUFFICES ASSUME full[c], NEW p \in joined[c] + 1 .. piece,
                        p < piece \/ (Walking' => l < it')
                 PROVE  Got(c, p)'
      OBVIOUS
    <2>1. CASE p < piece
      BY <1>2, <2>1 DEF Served
    <2>2. CASE ~ (p < piece)
      <3>1. p = piece
        BY <2>2 DEF ServerTypes
      <3> QED
        BY <1>2, <2>2, <3>1 DEF Served
    <2> QED
      BY <2>1, <2>2
  <1>5. \A p \in Nat : GotOnce(c, p)'
    BY <1>2 DEF Served
  <1>6. Walking' /\ l >= it' => GotNot(c, piece)'
    BY DEF Served, GotNot, Restarted
  <1> QED
    BY <1>3, <1>4, <1>5, <1>6 DEF Served

(* A step that leaves the clients of the list and what they were sent. *)
LEMMA StreamsStand ==
  ASSUME ServerInv, UNCHANGED <<list, full, mutex, it, piece, streams, deaths, joined>>
  PROVE  StreamsInv'
  <1> SUFFICES ASSUME NEW c \in Clients, NEW k \in 1 .. Len(list), list[k] = c
               PROVE  Served(c, k)'
    BY DEF StreamsInv
  <1>1. ServerTypes /\ Served(c, k) /\ it \in Nat
    BY DEF ServerInv, StreamsInv, ServerTypes
  <1>2. k < it \/ k >= it
    BY <1>1
  <1>3. Walking' <=> Walking
    BY DEF Walking
  <1> QED
    BY <1>1, <1>2, <1>3, ServedStays

(* A step that moves no client from its place, but perhaps out of the list. *)
LEMMA PlaceStays ==
  ASSUME ServerInv, UNCHANGED <<state, backlog, serving>>,
         \A k, l \in 1 .. Len(list') : list'[k] = list'[l] => k = l,
         \A c \in Clients : Listed(c)' => Listed(c),
         \A c \in Clients : ~ Listed(c) => streams'[c] = streams[c],
         mutex' = "io" => serving # Nobody,
         mutex' = "detection" => it' >= 1
  PROVE  PlaceInv'
  <1>1. \A c : Waiting(c)' <=> Waiting(c)
    BY DEF Waiting
  <1>2. serving # Nobody => serving \in Clients
    BY DEF ServerInv, ServerTypes
  <1>3. \A c \in Clients : Waiting(c) => ~ Listed(c)
    BY DEF ServerInv, PlaceInv
  <1> QED
    BY <1>1, <1>2, <1>3 DEF ServerInv, PlaceInv

(* The values the steps depend on. *)
LEMMA ServerValues ==
  ASSUME ServerInv
  PROVE  /\ ServerTypes /\ PlaceInv /\ StreamsInv
         /\ list \in Seq(Clients) /\ Len(list) \in Nat /\ DOMAIN list = 1 .. Len(list)
         /\ \A k \in 1 .. Len(list) : list[k] \in Clients
         /\ \A k, l \in 1 .. Len(list) : list[k] = list[l] => k = l
         /\ it \in Nat /\ piece \in Nat
         /\ Walking => it >= 1
  BY LenProperties, ElementOfSeq
  DEF ServerInv, ServerTypes, PlaceInv, StreamsInv, Walking

LEMMA ServerStart == Init => ServerInv
  <1> SUFFICES ASSUME Init PROVE ServerInv
    OBVIOUS
  <1>1. /\ backlog = <<>> /\ list = <<>> /\ Len(backlog) = 0 /\ Len(list) = 0
        /\ <<>> \in Seq(Clients) /\ <<>> \in Seq(Nat)
    BY EmptySeq DEF Init
  <1>2. ServerTypes
    BY <1>1 DEF Init, ServerTypes, NotWalking
  <1>3. PlaceInv
    BY <1>1 DEF Init, PlaceInv, Listed, Waiting, Nobody
  <1>4. StreamsInv
    BY <1>1 DEF StreamsInv
  <1> QED
    BY <1>2, <1>3, <1>4 DEF ServerInv

--------------------------------------------------------------------------------
(* The steps of the clients and of the I/O thread.                         *)

LEMMA ConnectStep ==
  ASSUME ServerInv, NEW c \in Clients, Connect(c)
  PROVE  ServerInv'
  <1>1. /\ state[c] = "away" /\ backlog' = Append(backlog, c)
        /\ UNCHANGED <<serving, list, full, mutex, it, piece, streams, deaths, joined>>
    BY DEF Connect
  <1>2. /\ state' \in [Clients -> {"away", "silent", "talking", "gone"}]
        /\ state'[c] # "away" /\ \A d \in Clients : d # c => state'[d] = state[d]
    BY DEF Connect, ServerInv, ServerTypes
  <1>3. backlog \in Seq(Clients) /\ Len(backlog) \in Nat
    BY LenProperties DEF ServerInv, ServerTypes
  <1>4. /\ backlog' \in Seq(Clients) /\ Len(backlog') = Len(backlog) + 1
        /\ \A i \in 1 .. Len(backlog) : backlog'[i] = backlog[i]
        /\ backlog'[Len(backlog) + 1] = c
    BY <1>1, <1>3, AppendProperties
  <1>5. ServerTypes'
    BY <1>1, <1>2, <1>4 DEF ServerInv, ServerTypes
  <1>6. ~ Waiting(c) /\ ~ Listed(c) /\ streams[c] = <<>> /\ (serving = Nobody \/ c # serving)
    BY <1>1 DEF ServerInv, PlaceInv
  <1>7. /\ \A d : Listed(d)' <=> Listed(d)
        /\ \A d : Waiting(d)' => Waiting(d) \/ d = c
    <2>1. \A i \in 1 .. Len(backlog) + 1 : i \in 1 .. Len(backlog) \/ i = Len(backlog) + 1
      BY <1>3
    <2> QED
      BY <1>1, <1>4, <2>1 DEF Listed, Waiting
  <1>8. \A i, j \in 1 .. Len(backlog') : backlog'[i] = backlog'[j] => i = j
    <2>1. \A i \in 1 .. Len(backlog) : backlog[i] # c
      BY <1>6 DEF Waiting
    <2>2. \A i, j \in 1 .. Len(backlog) : backlog[i] = backlog[j] => i = j
      BY DEF ServerInv, PlaceInv
    <2>3. \A i \in 1 .. Len(backlog') : i \in 1 .. Len(backlog) \/ i = Len(backlog) + 1
      BY <1>3, <1>4
    <2> QED
      BY <1>4, <2>1, <2>2, <2>3
  <1>9. PlaceInv'
    BY <1>1, <1>2, <1>6, <1>7, <1>8 DEF ServerInv, PlaceInv
  <1> QED
    BY <1>1, <1>5, <1>9, StreamsStand DEF ServerInv

LEMMA LeaveStep ==
  ASSUME ServerInv, NEW c \in Clients, Leave(c)
  PROVE  ServerInv'
  <1>1. /\ state[c] # "away"
        /\ UNCHANGED <<backlog, serving, list, full, mutex, it, piece, streams, deaths, joined>>
    BY DEF Leave
  <1>2. /\ state' \in [Clients -> {"away", "silent", "talking", "gone"}]
        /\ \A d \in Clients : state'[d] = "away" => state[d] = "away"
    BY DEF Leave, ServerInv, ServerTypes
  <1>3. ServerTypes'
    BY <1>1, <1>2 DEF ServerInv, ServerTypes
  <1>4. PlaceInv'
    BY <1>1, <1>2 DEF ServerInv, PlaceInv, Listed, Waiting
  <1> QED
    BY <1>1, <1>3, <1>4, StreamsStand DEF ServerInv

LEMMA AcceptStep ==
  ASSUME ServerInv, Accept \/ AcceptFails
  PROVE  ServerInv'
  <1>1. UNCHANGED <<state, list, full, mutex, it, piece, streams, deaths, joined>>
    BY DEF Accept, AcceptFails
  <1>2. CASE AcceptFails
    <2>1. UNCHANGED <<backlog, serving>>
      BY <1>2 DEF AcceptFails
    <2> QED
      BY <1>1, <2>1, StreamsStand DEF ServerInv, ServerTypes, PlaceInv, Listed, Waiting
  <1>3. CASE Accept
    <2> DEFINE c == Head(backlog)
    <2>1. /\ serving = Nobody /\ backlog # <<>> /\ serving' = c /\ backlog' = Tail(backlog)
          /\ backlog \in Seq(Clients) /\ Len(backlog) \in Nat
      BY <1>3, LenProperties DEF Accept, ServerInv, ServerTypes
    <2>2. /\ c \in Clients /\ backlog' \in Seq(Clients)
          /\ Len(backlog') = Len(backlog) - 1
          /\ \A i \in 1 .. Len(backlog') : backlog'[i] = backlog[i + 1]
      BY <2>1, HeadTailProperties
    <2>3. c = backlog[1] /\ 1 \in 1 .. Len(backlog)
      BY <2>1, EmptySeq
    <2> HIDE DEF c
    <2>4. ServerTypes'
      BY <1>1, <2>1, <2>2 DEF ServerInv, ServerTypes
    <2>5. \A i \in 1 .. Len(backlog') : i + 1 \in 1 .. Len(backlog) /\ i + 1 # 1
      BY <2>1, <2>2
    <2>6. \A i, j \in 1 .. Len(backlog) : backlog[i] = backlog[j] => i = j
      BY DEF ServerInv, PlaceInv
    <2>7. /\ \A d : Listed(d)' <=> Listed(d)
          /\ \A d : Waiting(d)' => Waiting(d) /\ d # c
          /\ Waiting(c)
      BY <1>1, <2>2, <2>3, <2>5, <2>6 DEF Listed, Waiting
    <2>8. \A i, j \in 1 .. Len(backlog') : backlog'[i] = backlog'[j] => i = j
      <3> SUFFICES ASSUME NEW i \in 1 .. Len(backlog'), NEW j \in 1 .. Len(backlog'),
                          backlog'[i] = backlog'[j]
                   PROVE  i = j
        OBVIOUS
      <3>1. i + 1 = j + 1
        BY <2>2, <2>5, <2>6
      <3> QED
        BY <3>1
    <2>9. state[c] # "away" /\ ~ Listed(c) /\ streams[c] = <<>>
      BY <2>2, <2>7 DEF ServerInv, PlaceInv
    <2>10. PlaceInv'
      BY <1>1, <2>1, <2>7, <2>8, <2>9 DEF ServerInv, PlaceInv
    <2> QED
      BY <1>1, <2>4, <2>10, StreamsStand DEF ServerInv
  <1> QED
    BY <1>2, <1>3

LEMMA ReadRequestsStep ==
  ASSUME ServerInv, ReadRequests
  PROVE  ServerInv'
  <1>1. /\ serving # Nobody /\ mutex = Nobody /\ mutex' = "io"
        /\ UNCHANGED <<state, backlog, serving, list, it, piece, streams, deaths, joined>>
    BY DEF ReadRequests
  <1>2. /\ full' \in [Clients -> BOOLEAN]
        /\ \A c \in Clients : c # serving => full'[c] = full[c]
    BY DEF ReadRequests, ServerInv, ServerTypes
  <1>3. ServerTypes'
    BY <1>1, <1>2 DEF ServerInv, ServerTypes
  <1>4. PlaceInv'
    BY <1>1, ServerValues, PlaceStays DEF Listed
  <1>5. ASSUME NEW c \in Clients, NEW k \in 1 .. Len(list'), list'[k] = c
        PROVE  Served(c, k)'
    <2>1. Served(c, k) /\ ServerTypes
      BY <1>1, <1>5 DEF ServerInv, StreamsInv
    <2>2. c # serving
      BY <1>1, <1>5 DEF ServerInv, PlaceInv, Listed
    <2>3. ~Walking /\ ~Walking'
      BY <1>1 DEF Walking, Nobody
    <2> QED
      BY <1>1, <1>2, <2>1, <2>2, <2>3, ServedStays
  <1> QED
    BY <1>3, <1>4, <1>5 DEF ServerInv, StreamsInv

LEMMA AddClientStep ==
  ASSUME ServerInv, AddClient
  PROVE  ServerInv'
  <1> DEFINE c == serving
             n == Len(list)
  <1>1. /\ mutex = "io" /\ list' = Append(list, c) /\ joined' = [joined EXCEPT ![c] = piece]
        /\ serving' = Nobody /\ mutex' = Nobody
        /\ UNCHANGED <<state, backlog, full, it, piece, streams, deaths>>
    BY DEF AddClient
  <1>2. c # Nobody /\ c \in Clients /\ ~ Listed(c) /\ streams[c] = <<>>
    BY <1>1 DEF ServerInv, PlaceInv, ServerTypes
  <1>3. /\ list' \in Seq(Clients) /\ Len(list') = n + 1 /\ n \in Nat
        /\ \A k \in 1 .. n : list'[k] = list[k]
        /\ list'[n + 1] = c
    BY <1>1, <1>2, ServerValues, AppendProperties
  <1>4. /\ joined' \in [Clients -> Nat] /\ joined'[c] = piece
        /\ \A d \in Clients : d # c => joined'[d] = joined[d]
    BY <1>1, <1>2, ServerValues DEF ServerTypes
  <1>5. \A k \in 1 .. n : list[k] # c
    BY <1>2 DEF Listed
  <1>6. \A k \in 1 .. n + 1 : k \in 1 .. n \/ k = n + 1
    BY <1>3
  <1>7. \A k, l \in 1 .. n : list[k] = list[l] => k = l
    BY ServerValues
  <1>8. /\ \A d : Waiting(d)' <=> Waiting(d)
        /\ \A d : Listed(d)' => Listed(d) \/ d = c
    BY <1>1, <1>3, <1>6 DEF Waiting, Listed
  <1>9. ServerTypes'
    BY <1>1, <1>3, <1>4 DEF ServerInv, ServerTypes
  <1>10. \A k, l \in 1 .. Len(list') : list'[k] = list'[l] => k = l
    <2> HIDE DEF c, n
    <2> QED
      BY <1>3, <1>5, <1>6, <1>7
  <1>11. PlaceInv'
    <2>1. \A d \in Clients : state[d] = "away" \/ Waiting(d) => d # c
      BY <1>2 DEF ServerInv, PlaceInv
    <2>2. mutex' # "io" /\ mutex' # "detection"
      BY <1>1 DEF Nobody
    <2> QED
      BY <1>1, <1>8, <1>10, <2>1, <2>2 DEF ServerInv, PlaceInv
  <1>12. ~Walking /\ ~Walking'
    BY <1>1 DEF Walking, Nobody
  <1>13. ASSUME NEW d \in Clients, NEW k \in 1 .. n, list[k] = d PROVE Served(d, k)'
    <2>1. Served(d, k) /\ ServerTypes /\ d # c
      BY <1>5, <1>13 DEF ServerInv, StreamsInv
    <2> HIDE DEF c
    <2> QED
      BY <1>1, <1>4, <1>12, <2>1, ServedStays
  <1>14. ASSUME NEW d \in Clients, NEW k, d = c PROVE Served(d, k)'
    <2>1. streams'[d] = <<>> /\ Len(streams'[d]) = 0 /\ joined'[d] = piece /\ piece' = piece
      BY <1>1, <1>2, <1>4, <1>14
    <2>2. piece \in Nat
      BY ServerValues
    <2> HIDE DEF c, n
    <2> QED
      BY <1>12, <2>1, <2>2 DEF Served, InOrder, GotOnce
  <1>15. StreamsInv'
    <2> HIDE DEF c, n
    <2> QED
      BY <1>3, <1>6, <1>13, <1>14 DEF StreamsInv
  <1> QED
    BY <1>9, <1>11, <1>15 DEF ServerInv

--------------------------------------------------------------------------------
(* The steps of the detection thread.                                      *)

(* A new piece: none was sent it. *)
LEMMA BeginSendStep ==
  ASSUME ServerInv, BeginSend
  PROVE  ServerInv'
  <1>1. /\ mutex = Nobody /\ mutex' = "detection" /\ piece' = piece + 1 /\ it' = 1
        /\ UNCHANGED <<state, backlog, serving, list, full, streams, deaths, joined>>
    BY DEF BeginSend
  <1>2. ServerTypes'
    BY <1>1 DEF ServerInv, ServerTypes
  <1>3. PlaceInv'
    BY <1>1, ServerValues, PlaceStays DEF Listed
  <1>4. Walking' /\ ~Walking /\ piece \in Nat
    BY <1>1, ServerValues DEF Walking, Nobody
  <1>5. ASSUME NEW c \in Clients, NEW k \in 1 .. Len(list), list[k] = c
        PROVE  Served(c, k)'
    <2>1. /\ Served(c, k)
          /\ Len(streams[c]) \in Nat /\ joined[c] \in Nat
          /\ \A i \in 1 .. Len(streams[c]) : streams[c][i] \in Nat
      BY <1>5, LenProperties, ElementOfSeq DEF ServerInv, StreamsInv, ServerTypes
    <2>2. InOrder(c)'
      BY <1>1, <1>4, <2>1 DEF Served, InOrder
    <2>3. \A p : (Got(c, p)' <=> Got(c, p)) /\ (GotOnce(c, p) => GotOnce(c, p)')
      BY <1>1 DEF Got, GotOnce, Skipped, Restarted
    <2>4. \A i \in 1 .. Len(streams'[c]) : streams'[c][i] # piece'
      BY <1>1, <1>4, <2>1 DEF Served, InOrder
    <2>5. GotNot(c, piece)'
      BY <2>4 DEF GotNot
    <2>6. \A p \in joined'[c] + 1 .. piece' : p < piece' \/ k < it' => p \in joined[c] + 1 .. piece
      BY <1>1, <1>4, <2>1
    <2> QED
      BY <1>1, <1>4, <2>1, <2>2, <2>3, <2>5, <2>6 DEF Served
  <1> QED
    BY <1>1, <1>2, <1>3, <1>5 DEF ServerInv, StreamsInv

(* The walk is at a client of the list. *)
LEMMA WalkValues ==
  ASSUME ServerInv, AtClient
  PROVE  /\ Walking /\ it \in 1 .. Len(list) /\ list[it] \in Clients
         /\ Listed(list[it]) /\ state[list[it]] # "away" /\ ~ Waiting(list[it])
         /\ serving = Nobody \/ list[it] # serving
  <1>1. Walking /\ it \in 1 .. Len(list) /\ list[it] \in Clients
    BY ServerValues DEF AtClient, Walking
  <1>2. Listed(list[it])
    BY <1>1 DEF Listed
  <1> QED
    BY <1>1, <1>2 DEF ServerInv, PlaceInv

LEMMA SkipStep ==
  ASSUME ServerInv, SkipClient
  PROVE  ServerInv'
  <1>1. /\ AtClient /\ ~full[list[it]] /\ it' = it + 1
        /\ UNCHANGED <<state, backlog, serving, list, full, mutex, piece, streams, deaths,
                       joined>>
    BY DEF SkipClient
  <1>2. /\ Walking /\ Walking' /\ it \in 1 .. Len(list) /\ it \in Nat
        /\ mutex' = "detection"
    BY <1>1, WalkValues, ServerValues DEF Walking
  <1>3. ServerTypes'
    BY <1>1, <1>2 DEF ServerInv, ServerTypes
  <1>4. PlaceInv'
    <2>1. it' >= 1 /\ mutex' # "io"
      BY <1>1, <1>2
    <2> QED
      BY <1>1, <2>1, ServerValues, PlaceStays DEF Listed
  <1>5. ASSUME NEW c \in Clients, NEW k \in 1 .. Len(list), list[k] = c
        PROVE  Served(c, k)'
    <2>1. Served(c, k) /\ ServerTypes
      BY <1>5 DEF ServerInv, StreamsInv
    <2>2. /\ k < it' => k < it \/ ~full[c]
          /\ k >= it' => k >= it
      BY <1>1, <1>2, <1>5
    <2> QED
      BY <1>1, <1>2, <2>1, <2>2, ServedStays
  <1> QED
    BY <1>1, <1>3, <1>4, <1>5 DEF ServerInv, StreamsInv

(* The client at the iterator gets the piece, which it did not have unless *)
(* the walk started over.                                                  *)
LEMMA SendStep ==
  ASSUME ServerInv, SendTo
  PROVE  ServerInv'
  <1>1. /\ AtClient /\ it' = it + 1
        /\ streams' = [streams EXCEPT ![list[it]] = Append(@, piece)]
        /\ UNCHANGED <<state, backlog, serving, list, full, mutex, piece, deaths, joined>>
    BY DEF SendTo
  <1>2. /\ Walking /\ Walking' /\ it \in 1 .. Len(list) /\ it \in Nat /\ piece \in Nat
        /\ mutex' = "detection" /\ list[it] \in Clients
    BY <1>1, WalkValues, ServerValues DEF Walking
  <1>3. /\ \A c \in Clients : streams[c] \in Seq(Nat) /\ streams'[c] =
              IF c = list[it] THEN Append(streams[c], piece) ELSE streams[c]
        /\ streams' \in [Clients -> Seq(Nat)]
    <2>1. streams \in [Clients -> Seq(Nat)]
      BY DEF ServerInv, ServerTypes
    <2>2. ASSUME NEW c \in Clients
          PROVE  /\ streams[c] \in Seq(Nat) /\ Append(streams[c], piece) \in Seq(Nat)
                 /\ streams'[c] =
                      IF c = list[it] THEN Append(streams[c], piece) ELSE streams[c]
      BY <1>1, <1>2, <2>1, AppendProperties
    <2>3. streams' = [c \in Clients |->
                        IF c = list[it] THEN Append(streams[c], piece) ELSE streams[c]]
      BY <1>1, <2>1
    <2> QED
      BY <2>2, <2>3
  <1>4. ServerTypes'
    <2>1. ServerTypes
      BY DEF ServerInv
    <2>2. it' \in Nat
      BY <1>1, <1>2
    <2> QED
      BY <1>1, <1>3, <2>1, <2>2 DEF ServerTypes
  <1>5. PlaceInv'
    <2>1. it' >= 1 /\ mutex' # "io"
      BY <1>1, <1>2
    <2>2. \A c \in Clients : ~ Listed(c) => streams'[c] = streams[c]
      BY <1>2, <1>3 DEF Listed
    <2> QED
      BY <1>1, <2>1, <2>2, ServerValues, PlaceStays DEF Listed
  <1>6. ASSUME NEW c \in Clients, NEW k \in 1 .. Len(list), list[k] = c
        PROVE  Served(c, k)'
    <2>1. Served(c, k) /\ ServerTypes
      BY <1>6 DEF ServerInv, StreamsInv
    <2>2. CASE k # it
      <3>1. c # list[it]
        BY <1>2, <1>6, <2>2, ServerValues
      <3>2. /\ k < it' => k < it
            /\ k >= it' => k >= it
        BY <1>1, <1>2, <2>2
      <3> QED
        BY <1>1, <1>2, <1>3, <2>1, <3>1, <3>2, ServedStays
    <2>3. CASE k = it
      <3> DEFINE n == Len(streams[c])
      <3>1. PICK m \in Nat : m = n
        BY <1>3, LenProperties
      <3>2. /\ Len(streams'[c]) = m + 1
            /\ \A i \in 1 .. m : streams'[c][i] = streams[c][i] /\ streams[c][i] \in Nat
            /\ streams'[c][m + 1] = piece
        <4>1. streams[c] \in Seq(Nat) /\ streams'[c] = Append(streams[c], piece)
          BY <1>3, <1>6, <2>3
        <4>2. \A i \in 1 .. Len(streams[c]) : streams[c][i] \in Nat
          BY <4>1, ElementOfSeq
        <4>3. /\ Len(Append(streams[c], piece)) = Len(streams[c]) + 1
              /\ \A i \in 1 .. Len(streams[c]) : Append(streams[c], piece)[i] = streams[c][i]
              /\ Append(streams[c], piece)[Len(streams[c]) + 1] = piece
          BY <1>2, <4>1, AppendProperties
        <4> QED
          BY <3>1, <4>1, <4>2, <4>3
      <3>3. /\ \A i \in 1 .. m : streams[c][i] <= piece
            /\ \A i \in 2 .. m : streams[c][i - 1] <= streams[c][i]
            /\ joined[c] <= piece
        BY <2>1, <3>1 DEF Served, InOrder
      <3> HIDE DEF n
      <3>4. InOrder(c)'
        <4>1. \A i \in 1 .. m + 1 : streams'[c][i] <= piece
          <5> TAKE i \in 1 .. m + 1
          <5>1. i \in 1 .. m \/ i = m + 1
            OBVIOUS
          <5>2. piece <= piece
            BY <1>2
          <5> QED
            BY <3>2, <3>3, <5>1, <5>2
        <4>2. \A i \in 2 .. m + 1 : streams'[c][i - 1] <= streams'[c][i]
          <5> TAKE i \in 2 .. m + 1
          <5>1. CASE i \in 2 .. m
            <6>1. i - 1 \in 1 .. m /\ i \in 1 .. m
              BY <5>1
            <6> QED
              BY <3>2, <3>3, <5>1, <6>1
          <5>2. CASE i = m + 1
            <6>1. i - 1 \in 1 .. m
              BY <5>2
            <6> QED
              BY <3>2, <3>3, <5>2, <6>1
          <5> QED
            BY <5>1, <5>2
        <4> QED
          BY <1>1, <3>2, <3>3, <4>1, <4>2 DEF InOrder
      <3>5. \A p : /\ Skipped(c, p)' <=> Skipped(c, p)
                   /\ Restarted(p)' <=> Restarted(p)
        BY <1>1 DEF Skipped, Restarted
      <3>6. \A p : Got(c, p) \/ p = piece => Got(c, p)'
        <4>1. \A i \in 1 .. m : i \in 1 .. m + 1
          OBVIOUS
        <4> QED
          BY <3>1, <3>2, <3>5, <4>1 DEF Got, n
      <3>7. \A p \in Nat : GotOnce(c, p)'
        <4> SUFFICES ASSUME NEW p \in Nat, ~ Restarted(p),
                            NEW i \in 1 .. m + 1, NEW j \in 1 .. m + 1,
                            streams'[c][i] = p, streams'[c][j] = p
                     PROVE  i = j
          BY <3>2, <3>5 DEF GotOnce
        <4>1. i \in 1 .. m \/ i = m + 1
          OBVIOUS
        <4>2. j \in 1 .. m \/ j = m + 1
          OBVIOUS
        <4>3. \A a, b \in 1 .. m : streams[c][a] = p /\ streams[c][b] = p => a = b
          BY <2>1, <3>1 DEF Served, GotOnce, n
        <4>4. p = piece => \A a \in 1 .. m : streams[c][a] # p
          BY <1>2, <2>1, <2>3, <3>1 DEF Served, GotNot, n
        <4> QED
          BY <3>2, <4>1, <4>2, <4>3, <4>4
      <3>8. k < it' /\ ~ (k >= it')
        BY <1>1, <1>2, <2>3
      <3>9. \A p \in joined[c] + 1 .. piece : p < piece \/ p = piece
        BY <1>2, <2>1 DEF ServerTypes
      <3>10. full[c] => \A p \in joined[c] + 1 .. piece : p < piece => Got(c, p)
        BY <2>1 DEF Served
      <3> QED
        BY <1>1, <3>4, <3>6, <3>7, <3>8, <3>9, <3>10 DEF Served
    <2> QED
      BY <2>2, <2>3
  <1> QED
    BY <1>1, <1>4, <1>5, <1>6 DEF ServerInv, StreamsInv

(* The client at the iterator is erased: the one that follows is skipped,  *)
(* and if none does the walk starts over.                                  *)
LEMMA SendFailsStep ==
  ASSUME ServerInv, SendFails
  PROVE  ServerInv'
  <1>1. /\ AtClient /\ list' = RemoveAt(list, it)
        /\ deaths' = deaths \cup {[piece |-> piece, who |-> list[it],
                                   next |-> IF it > Len(list') THEN Nobody ELSE list'[it]]}
        /\ it' = IF it > Len(list') THEN 1 ELSE it + 1
        /\ UNCHANGED <<state, backlog, serving, full, mutex, piece, streams, joined>>
    BY DEF SendFails, AfterErase
  <1>2. /\ Walking /\ Walking' /\ it \in 1 .. Len(list) /\ it \in Nat /\ piece \in Nat
        /\ mutex' = "detection" /\ Len(list) \in Nat /\ list \in Seq(Clients)
    BY <1>1, WalkValues, ServerValues DEF Walking
  <1>3. /\ list' \in Seq(Clients) /\ Len(list') = Len(list) - 1
        /\ \A j \in 1 .. Len(list') : list'[j] = IF j < it THEN list[j] ELSE list[j + 1]
    BY <1>1, <1>2, ErasedProperties DEF RemoveAt
  <1>4. ServerTypes'
    <2>1. it' \in Nat
      BY <1>1, <1>2
    <2> QED
      BY <1>1, <1>3, <2>1 DEF ServerInv, ServerTypes
  <1>5. \A j \in 1 .. Len(list') : j \in 1 .. Len(list) /\ j + 1 \in 1 .. Len(list)
    BY <1>2, <1>3
  <1>6. PlaceInv'
    <2>1. it' >= 1 /\ mutex' # "io"
      BY <1>1, <1>2
    <2>2. \A c : Listed(c)' => Listed(c)
      BY <1>3, <1>5 DEF Listed
    <2>3. ASSUME NEW k \in 1 .. Len(list'), NEW l \in 1 .. Len(list'), list'[k] = list'[l]
          PROVE  k = l
      <3>1. (IF k < it THEN k ELSE k + 1) = (IF l < it THEN l ELSE l + 1)
        BY <1>3, <1>5, <2>3, ServerValues
      <3> QED
        BY <1>2, <1>3, <3>1
    <2> QED
      BY <1>1, <2>1, <2>2, <2>3, PlaceStays
  <1>7. it > Len(list') => Restarted(piece)'
    <2> SUFFICES ASSUME it > Len(list') PROVE \E d \in deaths' : d.piece = piece' /\ d.next = Nobody
      BY DEF Restarted
    <2>1. [piece |-> piece, who |-> list[it], next |-> Nobody] \in deaths'
      BY <1>1
    <2> QED
      BY <1>1, <2>1
  <1>8. ASSUME NEW c \in Clients, it <= Len(list'), list'[it] = c
        PROVE  Skipped(c, piece)'
    <2>1. ~ (it > Len(list'))
      BY <1>2, <1>3, <1>8
    <2>2. [piece |-> piece, who |-> list[it], next |-> c] \in deaths'
      BY <1>1, <1>8, <2>1
    <2>3. \E d \in deaths' : d.piece = piece' /\ d.next = c
      BY <1>1, <2>2
    <2> QED
      BY <2>3 DEF Skipped
  <1>9. deaths \subseteq deaths'
    BY <1>1
  <1>10. ASSUME NEW c \in Clients, NEW l \in 1 .. Len(list'), list'[l] = c
         PROVE  Served(c, l)'
    <2>1. PICK k \in 1 .. Len(list) : k = IF l < it THEN l ELSE l + 1
      BY <1>2, <1>5
    <2>2. list[k] = c
      BY <1>3, <1>10, <2>1
    <2>3. Served(c, k) /\ ServerTypes
      BY <2>2 DEF ServerInv, StreamsInv
    <2>4. CASE it > Len(list')
      <3>1. it' = 1 /\ l < it /\ ~ (l < it')
        BY <1>1, <1>2, <1>3, <2>4
      <3> QED
        BY <1>1, <1>2, <1>7, <1>9, <2>3, <2>4, <3>1, ServedStays
    <2>5. CASE ~ (it > Len(list'))
      <3>1. it' = it + 1 /\ it <= Len(list')
        BY <1>1, <1>2, <1>3, <2>5
      <3>2. l < it' => k < it \/ Skipped(c, piece)'
        <4>1. CASE l < it
          BY <2>1, <4>1
        <4>2. CASE l = it
          BY <1>8, <1>10, <3>1, <4>2
        <4> QED
          BY <1>2, <3>1, <4>1, <4>2
      <3>3. l >= it' => k >= it
        BY <1>2, <2>1, <3>1
      <3> QED
        BY <1>1, <1>2, <1>9, <2>3, <3>2, <3>3, ServedStays
    <2> QED
      BY <2>4, <2>5
  <1> QED
    BY <1>4, <1>6, <1>10 DEF ServerInv, StreamsInv

(* The walk is past all clients. *)
LEMMA EndSendStep ==
  ASSUME ServerInv, EndSend
  PROVE  ServerInv'
  <1>1. /\ mutex = "detection" /\ it \notin DOMAIN list /\ mutex' = Nobody
        /\ it' = NotWalking
        /\ UNCHANGED <<state, backlog, serving, list, full, piece, streams, deaths, joined>>
    BY DEF EndSend
  <1>2. it >= 1 /\ it \in Nat /\ Len(list) \in Nat /\ it > Len(list)
    BY <1>1, ServerValues DEF Walking
  <1>3. ServerTypes'
    BY <1>1 DEF ServerInv, ServerTypes, NotWalking
  <1>4. PlaceInv'
    BY <1>1, ServerValues, PlaceStays DEF Listed, Nobody
  <1>5. ~Walking'
    BY <1>1 DEF Walking, Nobody
  <1>6. ASSUME NEW c \in Clients, NEW k \in 1 .. Len(list), list[k] = c
        PROVE  Served(c, k)'
    <2>1. Served(c, k) /\ ServerTypes
      BY <1>6 DEF ServerInv, StreamsInv
    <2>2. k < it
      BY <1>2
    <2> QED
      BY <1>1, <1>5, <2>1, <2>2, ServedStays
  <1> QED
    BY <1>1, <1>3, <1>4, <1>6 DEF ServerInv, StreamsInv

--------------------------------------------------------------------------------
(* The theorems.                                                           *)

LEMMA ServerStep == ServerInv /\ [Next]_sensingVars => ServerInv'
  <1> SUFFICES ASSUME ServerInv, [Next]_sensingVars PROVE ServerInv'
    OBVIOUS
  <1>1. CASE Next
    BY <1>1, ConnectStep, LeaveStep, AcceptStep, ReadRequestsStep, AddClientStep,
       BeginSendStep, SkipStep, SendStep, SendFailsStep, EndSendStep
    DEF Next, IoThread, Walk
  <1>2. CASE UNCHANGED sensingVars
    <2>1. UNCHANGED <<state, backlog, serving, list, full, mutex, it, piece, streams,
                      deaths, joined>>
      BY <1>2 DEF sensingVars
    <2>2. StreamsInv'
      BY <2>1, StreamsStand
    <2> QED
      BY <2>1, <2>2 DEF ServerInv, ServerTypes, PlaceInv, Listed, Waiting
  <1> QED
    BY <1>1, <1>2

(* sendToAll sends each piece exactly once to every client of the list     *)
(* that asked for it, in order, however the walks and the two threads      *)
(* interleave; but for the client after one that is erased and the walk    *)
(* that starts over.                                                       *)
THEOREM PiecesReachAllClients == Spec => []PiecesReachAll
  <1> QED
    BY ServerStart, ServerStep, ServedIsReached, PTL DEF Spec

(* The same of the server a viewer is connected to: the viewer's steps are *)
(* none of the server's.                                                   *)
THEOREM PiecesReachTheViewer == NodeSpec => []PiecesReachAll
  <1>1. NodeInit => Init
    BY DEF NodeInit
  <1>2. [NodeNext]_nodeVars => [Next]_sensingVars
    BY DEF NodeNext, Server, Node, nodeVars
  <1> QED
    BY <1>1, <1>2, ServerStart, ServerStep, ServedIsReached, PTL DEF NodeSpec

--------------------------------------------------------------------------------
(* The viewer: what its stream is made of.                                 *)

Stream == streams[Viewer]
Joined == joined[Viewer]

PartNames == {"header", "first", "rest"}
PartSet == [message : Int, name : PartNames]
AllParts == [i \in DOMAIN Stream |-> Parts(Stream[i])]

(* Where the first k pieces end in the stream of parts. *)
Offset(k) == EndOf(AllParts, k)

(* Of two pieces in a row. *)
LEMMA Kinds ==
  ASSUME NEW p \in Nat
  PROVE  /\ IsUpdate(p) <=> IsPayload(p + 1)
         /\ IsUpdate(p) => ~ IsPayload(p) /\ ~ IsUpdate(p + 1) /\ ~ IsPayload(p + 1 + 1)
         /\ p + 1 - 1 = p
  <1>1. PICK q \in Int : p = 3 * q + (p % 3) /\ p % 3 \in 0 .. 2
    <2>1. 3 \in Nat \ {0} /\ p \in Int
      OBVIOUS
    <2>2. p \div 3 \in Int /\ p % 3 \in 0 .. 3 - 1 /\ p = 3 * (p \div 3) + (p % 3)
      BY <2>1, DivMod
    <2> QED
      BY <2>2
  <1>2. \A r \in 0 .. 2, t \in Int : (3 * t + r) % 3 = r
    BY RemainderUnique
  <1>3. CASE p % 3 = 0
    <2>1. p + 1 = 3 * q + 1 /\ p + 1 + 1 = 3 * q + 2
      BY <1>1, <1>3
    <2> QED
      BY <1>2, <1>3, <2>1 DEF IsUpdate, IsPayload
  <1>4. CASE p % 3 = 1
    <2>1. p + 1 = 3 * q + 2 /\ p + 1 + 1 = 3 * (q + 1) + 0
      BY <1>1, <1>4
    <2> QED
      BY <1>2, <1>4, <2>1 DEF IsUpdate, IsPayload
  <1>5. CASE p % 3 = 2
    <2>1. p + 1 = 3 * (q + 1) + 0 /\ p + 1 + 1 = 3 * (q + 1) + 1
      BY <1>1, <1>5
    <2> QED
      BY <1>2, <1>5, <2>1 DEF IsUpdate, IsPayload
  <1> QED
    BY <1>1, <1>3, <1>4, <1>5

LEMMA PartIsRecord ==
  ASSUME NEW m \in Int, NEW name \in PartNames
  PROVE  Part(m, name) \in PartSet /\ Part(m, name).name = name /\ Part(m, name).message = m
  BY DEF Part, PartSet

(* A payload is in two parts, or in none.                                  *)
LEMMA PayloadParts ==
  ASSUME NEW m \in Int
  PROVE  /\ Payload(m) \in Seq(PartSet)
         /\ Len(Payload(m)) = IF m \in empties THEN 0 ELSE 2
         /\ \A i \in 1 .. Len(Payload(m)) : Payload(m)[i].name # "header"
  <1>1. /\ Part(m, "first") \in PartSet /\ Part(m, "first").name = "first"
        /\ Part(m, "rest") \in PartSet /\ Part(m, "rest").name = "rest"
    <2>1. "first" \in PartNames /\ "rest" \in PartNames
      BY DEF PartNames
    <2> QED
      BY <2>1, PartIsRecord
  <1>2. CASE m \in empties
    <2>1. Payload(m) = <<>> /\ <<>> \in Seq(PartSet) /\ Len(<<>>) = 0
      BY <1>2, EmptySeq DEF Payload
    <2> QED
      BY <1>2, <2>1
  <1>3. CASE m \notin empties
    <2>1. PICK a : a = Part(m, "first")
      OBVIOUS
    <2>2. PICK b : b = Part(m, "rest")
      OBVIOUS
    <2>3. Payload(m) = << a, b >> /\ a \in PartSet /\ b \in PartSet
      BY <1>1, <1>3, <2>1, <2>2 DEF Payload
    <2>4. /\ << a, b >> \in Seq(PartSet) /\ Len(<< a, b >>) = 2
          /\ << a, b >>[1] = a /\ << a, b >>[2] = b
      BY <2>3
    <2>5. a.name # "header" /\ b.name # "header"
      BY <1>1, <2>1, <2>2
    <2>6. \A i \in 1 .. 2 : i = 1 \/ i = 2
      OBVIOUS
    <2> QED
      BY <1>3, <2>3, <2>4, <2>5, <2>6
  <1> QED
    BY <1>2, <1>3

(* The parts of a piece: of a header its own first, followed by the        *)
(* payload if the piece is an FFT; of a payload, no header.                *)
LEMMA PieceParts ==
  ASSUME NEW p \in Nat
  PROVE  /\ Parts(p) \in Seq(PartSet)
         /\ IsPayload(p) => Parts(p) = Payload(p - 1)
         /\ ~ IsPayload(p) =>
              /\ Len(Parts(p)) = IF IsUpdate(p) THEN 1 ELSE 1 + Len(Payload(p))
              /\ Parts(p)[1] = Part(p, "header")
              /\ ~ IsUpdate(p) => \A i \in 1 .. Len(Payload(p)) : Parts(p)[1 + i] = Payload(p)[i]
         /\ \A i \in 1 .. Len(Parts(p)) :
              Parts(p)[i].name = "header" =>
                i = 1 /\ ~ IsPayload(p) /\ Parts(p)[i].message = p
  <1>1. PICK h : h = Part(p, "header")
    OBVIOUS
  <1>2. h \in PartSet /\ h.message = p
    <2>1. p \in Int /\ "header" \in PartNames
      BY DEF PartNames
    <2> QED
      BY <1>1, <2>1, PartIsRecord
  <1>3. /\ << h >> \in Seq(PartSet) /\ Len(<< h >>) = 1 /\ << h >>[1] = h
    BY <1>2
  <1>4. p - 1 \in Int /\ p \in Int
    OBVIOUS
  <1>5. CASE IsPayload(p)
    <2>1. ~ IsUpdate(p)
      BY <1>5 DEF IsPayload, IsUpdate
    <2>2. Parts(p) = Payload(p - 1)
      BY <1>5, <2>1 DEF Parts
    <2> QED
      BY <1>4, <1>5, <2>2, PayloadParts
  <1>6. CASE ~ IsPayload(p) /\ IsUpdate(p)
    <2>1. Parts(p) = << h >>
      BY <1>1, <1>6 DEF Parts
    <2>2. \A i \in 1 .. 1 : i = 1
      OBVIOUS
    <2> QED
      BY <1>1, <1>2, <1>3, <1>6, <2>1, <2>2
  <1>7. CASE ~ IsPayload(p) /\ ~ IsUpdate(p)
    <2>1. PICK q : q = Payload(p)
      OBVIOUS
    <2>2. /\ q \in Seq(PartSet)
          /\ \A i \in 1 .. Len(q) : q[i].name # "header"
      BY <1>4, <2>1, PayloadParts
    <2>3. PICK n \in Nat : n = Len(q)
      BY <2>2, LenProperties
    <2>4. PICK hs : hs = << h >>
      OBVIOUS
    <2>5. hs \in Seq(PartSet) /\ Len(hs) = 1 /\ hs[1] = h
      BY <1>3, <2>4
    <2>6. Parts(p) = hs \o q
      BY <1>1, <1>7, <2>1, <2>4 DEF Parts
    <2>7. /\ hs \o q \in Seq(PartSet) /\ Len(hs \o q) = 1 + n
          /\ \A i \in 1 .. 1 + n : (hs \o q)[i] = IF i <= 1 THEN hs[i] ELSE q[i - 1]
      <3>1. /\ hs \o q \in Seq(PartSet) /\ Len(hs \o q) = Len(hs) + Len(q)
            /\ \A i \in 1 .. Len(hs) + Len(q) : (hs \o q)[i] = IF i <= Len(hs) THEN hs[i]
                                                              ELSE q[i - Len(hs)]
        BY <2>2, <2>5, ConcatProperties
      <3> QED
        BY <2>3, <2>5, <3>1
    <2>8. 1 \in 1 .. 1 + n /\ \A i \in 1 .. n : 1 + i \in 1 .. 1 + n /\ ~ (1 + i <= 1) /\ 1 + i - 1 = i
      BY <2>3
    <2>9. (hs \o q)[1] = h /\ \A i \in 1 .. n : (hs \o q)[1 + i] = q[i]
      <3>1. (hs \o q)[1] = h
        <4>1. 1 \in 1 .. 1 + n /\ 1 <= 1
          BY <2>8
        <4> QED
          BY <2>5, <2>7, <4>1
      <3>2. ASSUME NEW i \in 1 .. n PROVE (hs \o q)[1 + i] = q[i]
        <4>1. (hs \o q)[1 + i] = q[1 + i - 1]
          BY <2>7, <2>8
        <4>2. 1 + i - 1 = i
          BY <2>8
        <4> QED
          BY <4>1, <4>2
      <3> QED
        BY <3>1, <3>2
    <2>10. ASSUME NEW i \in 1 .. 1 + n, (hs \o q)[i].name = "header" PROVE i = 1
      <3> SUFFICES ASSUME i # 1 PROVE FALSE
        OBVIOUS
      <3>1. i - 1 \in 1 .. n /\ ~ (i <= 1)
        BY <2>3
      <3>2. (hs \o q)[i] = q[i - 1]
        BY <2>7, <3>1
      <3> QED
        BY <2>2, <2>3, <2>10, <3>1, <3>2
    <2> QED
      BY <1>1, <1>2, <1>7, <2>1, <2>3, <2>6, <2>7, <2>9, <2>10
  <1> QED
    BY <1>5, <1>6, <1>7

(* The stream, in terms of its pieces.                                     *)
LEMMA StreamValues ==
  ASSUME ServerTypes
  PROVE  /\ Stream \in Seq(Nat) /\ Len(Stream) \in Nat /\ Joined \in Nat
         /\ \A k \in 1 .. Len(Stream) : Stream[k] \in Nat
         /\ AllParts \in Seq(Seq(PartSet)) /\ Len(AllParts) = Len(Stream)
         /\ \A k \in 1 .. Len(Stream) : AllParts[k] = Parts(Stream[k])
         /\ Sent = FlattenSeq(AllParts) /\ Sent \in Seq(PartSet) /\ Len(Sent) \in Nat
  <1>1. Stream \in Seq(Nat) /\ Joined \in Nat
    BY ViewerAssumption DEF ServerTypes, Stream, Joined
  <1>2. /\ Len(Stream) \in Nat /\ DOMAIN Stream = 1 .. Len(Stream)
        /\ \A k \in 1 .. Len(Stream) : Stream[k] \in Nat
    BY <1>1, LenProperties, ElementOfSeq
  <1>3. PICK n \in Nat : n = Len(Stream)
    BY <1>2
  <1>4. AllParts = [k \in 1 .. n |-> Parts(Stream[k])]
    BY <1>2, <1>3 DEF AllParts
  <1>5. \A k \in 1 .. n : Parts(Stream[k]) \in Seq(PartSet)
    BY <1>2, <1>3, PieceParts
  <1>6. AllParts \in Seq(Seq(PartSet))
    BY <1>4, <1>5, IsASeq
  <1>7. Len(AllParts) = n
    BY <1>3, <1>4, <1>6, LenProperties
  <1>8. Sent = FlattenSeq(AllParts)
    BY DEF Sent, AllParts, Stream
  <1>9. Sent \in Seq(PartSet) /\ Len(Sent) \in Nat
    BY <1>6, <1>8, FlattenType, LenProperties
  <1> QED
    BY <1>1, <1>2, <1>3, <1>4, <1>6, <1>7, <1>8, <1>9

LEMMA PlacesInStream ==
  ASSUME ServerTypes
  PROVE  /\ Offset(0) = 0 /\ Offset(Len(Stream)) = Len(Sent)
         /\ \A k \in 0 .. Len(Stream) : Offset(k) \in Nat
         /\ \A k \in 1 .. Len(Stream) :
              /\ Offset(k) = Offset(k - 1) + Len(Parts(Stream[k]))
              /\ Offset(k) <= Len(Sent)
              /\ \A j \in 1 .. Len(Parts(Stream[k])) :
                   Sent[Offset(k - 1) + j] = Parts(Stream[k])[j]
         /\ \A k, l \in 0 .. Len(Stream) : k <= l => Offset(k) <= Offset(l)
  <1>1. PICK n : n = Len(Stream)
    OBVIOUS
  <1>2. /\ AllParts \in Seq(Seq(PartSet)) /\ Len(AllParts) = n
        /\ \A k \in 1 .. n : AllParts[k] = Parts(Stream[k])
        /\ Sent = FlattenSeq(AllParts)
    BY <1>1, StreamValues
  <1>3. /\ Offset(0) = 0 /\ Offset(n) = Len(Sent)
        /\ \A k \in 0 .. n : Offset(k) \in Nat
    BY <1>2, FlattenEnds DEF Offset
  <1>4. ASSUME NEW k \in 1 .. n
        PROVE  /\ Offset(k) = Offset(k - 1) + Len(Parts(Stream[k]))
               /\ Offset(k) <= Len(Sent)
               /\ \A j \in 1 .. Len(Parts(Stream[k])) :
                    Sent[Offset(k - 1) + j] = Parts(Stream[k])[j]
    <2>1. k \in 1 .. Len(AllParts) /\ AllParts[k] = Parts(Stream[k])
      BY <1>2
    <2>2. /\ EndOf(AllParts, k) = EndOf(AllParts, k - 1) + Len(AllParts[k])
          /\ EndOf(AllParts, k) <= Len(FlattenSeq(AllParts))
          /\ \A j \in 1 .. Len(AllParts[k]) :
               FlattenSeq(AllParts)[EndOf(AllParts, k - 1) + j] = AllParts[k][j]
      BY <1>2, <2>1, FlattenPlaces
    <2> QED
      BY <1>2, <2>1, <2>2 DEF Offset
  <1>5. \A k, l \in 0 .. n : k <= l => Offset(k) <= Offset(l)
    BY <1>2, FlattenMonotone DEF Offset
  <1> QED
    BY <1>1, <1>3, <1>4, <1>5

(* A part that is a header is the first of its piece.                      *)
LEMMA HeaderPlace ==
  ASSUME ServerTypes, NEW x \in 1 .. Len(Sent), Sent[x].name = "header"
  PROVE  \E k \in 1 .. Len(Stream) :
           /\ Stream[k] = Sent[x].message /\ ~ IsPayload(Stream[k])
           /\ x = Offset(k - 1) + 1
  <1>1. /\ AllParts \in Seq(Seq(PartSet)) /\ Len(AllParts) = Len(Stream)
        /\ Sent = FlattenSeq(AllParts)
    BY StreamValues
  <1>2. PICK k \in 1 .. Len(AllParts) :
           /\ x - EndOf(AllParts, k - 1) \in 1 .. Len(AllParts[k])
           /\ FlattenSeq(AllParts)[x] = AllParts[k][x - EndOf(AllParts, k - 1)]
    BY <1>1, FlattenHolds
  <1>3. k \in 1 .. Len(Stream) /\ AllParts[k] = Parts(Stream[k]) /\ Stream[k] \in Nat
    BY <1>1, <1>2, StreamValues
  <1>4. PICK j : j = x - Offset(k - 1)
    OBVIOUS
  <1>5. j \in 1 .. Len(Parts(Stream[k])) /\ Sent[x] = Parts(Stream[k])[j]
    BY <1>1, <1>2, <1>3, <1>4 DEF Offset
  <1>6. j = 1 /\ ~ IsPayload(Stream[k]) /\ Sent[x].message = Stream[k]
    BY <1>3, <1>5, PieceParts
  <1>7. Offset(k - 1) \in Nat /\ x \in Int
    <2>1. k - 1 \in 0 .. Len(Stream)
      BY <1>3, StreamValues
    <2> QED
      BY <2>1, PlacesInStream, StreamValues
  <1>8. x = Offset(k - 1) + 1
    BY <1>4, <1>6, <1>7
  <1> QED
    BY <1>3, <1>6, <1>8

--------------------------------------------------------------------------------
(* What the viewer is sent, from one step of the server to the next.       *)

(* What excuses the viewer: it joined in an update, or lost or got twice   *)
(* a piece because another client was erased.                              *)
NoExcuse ==
  /\ ~ IsUpdate(Joined)
  /\ \A d \in deaths : d.piece > Joined => d.next \notin {Viewer, Nobody}

(* Its stream is in order, and without excuse it is all pieces since it    *)
(* joined.                                                                 *)
StreamInv ==
  /\ \A i, j \in 1 .. Len(Stream) : i <= j => Stream[i] <= Stream[j]
  /\ \A i \in 1 .. Len(Stream) : Stream[i] <= piece
  /\ NoExcuse => \A i \in 1 .. Len(Stream) : Stream[i] = Joined + i
  /\ Walking /\ Listed(Viewer) => Joined < piece

(* It stays as it is, *)
StreamStays ==
  /\ UNCHANGED <<Stream, Joined, piece>>
  /\ (Walking /\ Listed(Viewer))' => Walking /\ Listed(Viewer)

(* waits for a new piece, *)
StreamWaits ==
  /\ UNCHANGED <<Stream, Joined>>
  /\ piece' = piece + 1
  /\ Listed(Viewer)' => Joined <= piece

(* is about to begin, *)
StreamBegins == Stream = <<>> /\ Stream' = <<>> /\ piece' = piece /\ ~ Walking'

(* or is sent the current piece. *)
StreamGrows ==
  /\ Stream' = Append(Stream, piece) /\ UNCHANGED <<Joined, piece>>
  /\ Walking /\ Listed(Viewer) /\ full[Viewer] /\ Served(Viewer, it)

LEMMA StreamMoves ==
  ASSUME ServerInv, Next
  PROVE  /\ StreamStays \/ StreamWaits \/ StreamBegins \/ StreamGrows
         /\ deaths \subseteq deaths'
  <1>1. ASSUME UNCHANGED <<list, mutex, piece, streams, deaths, joined>>
        PROVE  StreamStays /\ deaths \subseteq deaths'
    BY <1>1 DEF StreamStays, Stream, Joined, Walking, Listed
  <1>2. CASE \E c \in Clients : Connect(c) \/ Leave(c)
    BY <1>1, <1>2 DEF Connect, Leave
  <1>3. CASE Accept \/ AcceptFails
    BY <1>1, <1>3 DEF Accept, AcceptFails
  <1>4. CASE ReadRequests
    <2>1. /\ mutex' = "io"
          /\ UNCHANGED <<list, piece, streams, deaths, joined>>
      BY <1>4 DEF ReadRequests
    <2> QED
      BY <2>1 DEF StreamStays, Stream, Joined, Walking
  <1>5. CASE AddClient
    <2>1. /\ mutex = "io" /\ joined' = [joined EXCEPT ![serving] = piece]
          /\ mutex' = Nobody
          /\ UNCHANGED <<piece, streams, deaths>>
      BY <1>5 DEF AddClient
    <2>2. ~ Walking'
      BY <2>1 DEF Walking, Nobody
    <2>3. CASE serving = Viewer
      <3>1. Stream = <<>>
        BY <2>1, <2>3 DEF ServerInv, PlaceInv, Stream
      <3> QED
        BY <2>1, <2>2, <3>1 DEF StreamBegins, Stream
    <2>4. CASE serving # Viewer
      <3>1. joined \in [Clients -> Nat] /\ Viewer \in Clients
        BY ViewerAssumption DEF ServerInv, ServerTypes
      <3>2. joined'[Viewer] = joined[Viewer]
        BY <2>1, <2>4, <3>1
      <3> QED
        BY <2>1, <2>2, <3>2 DEF StreamStays, Stream, Joined
    <2> QED
      BY <2>1, <2>3, <2>4
  <1>6. CASE BeginSend
    <2>1. /\ piece' = piece + 1
          /\ UNCHANGED <<list, streams, deaths, joined>>
      BY <1>6 DEF BeginSend
    <2>2. Listed(Viewer) => Joined <= piece
      BY ViewerAssumption DEF Listed, ServerInv, StreamsInv, Served, InOrder, Joined
    <2> QED
      BY <2>1, <2>2 DEF StreamWaits, Stream, Joined, Listed
  <1>7. CASE SkipClient
    BY <1>1, <1>7 DEF SkipClient
  <1>8. CASE SendTo
    <2>1. /\ AtClient /\ full[list[it]]
          /\ streams' = [streams EXCEPT ![list[it]] = Append(@, piece)]
          /\ UNCHANGED <<list, mutex, piece, deaths, joined>>
      BY <1>8 DEF SendTo
    <2>2. Walking /\ it \in 1 .. Len(list) /\ list[it] \in Clients /\ Listed(list[it])
      BY <2>1, WalkValues
    <2>3. streams \in [Clients -> Seq(Nat)] /\ Viewer \in Clients
      BY ViewerAssumption DEF ServerInv, ServerTypes
    <2>4. CASE list[it] = Viewer
      <3>1. streams'[Viewer] = Append(streams[Viewer], piece)
        BY <2>1, <2>3, <2>4
      <3>2. Served(Viewer, it)
        BY <2>2, <2>3, <2>4 DEF ServerInv, StreamsInv
      <3> QED
        BY <2>1, <2>2, <2>4, <3>1, <3>2 DEF StreamGrows, Stream, Joined
    <2>5. CASE list[it] # Viewer
      <3>1. streams'[Viewer] = streams[Viewer]
        BY <2>1, <2>3, <2>5
      <3> QED
        BY <2>1, <3>1 DEF StreamStays, Stream, Joined, Walking, Listed
    <2> QED
      BY <2>1, <2>4, <2>5
  <1>9. CASE SendFails
    <2>1. /\ AtClient /\ list' = RemoveAt(list, it) /\ deaths \subseteq deaths'
          /\ UNCHANGED <<mutex, piece, streams, joined>>
      BY <1>9 DEF SendFails
    <2>2. it \in 1 .. Len(list) /\ list \in Seq(Clients) /\ Len(list) \in Nat
      BY <2>1, WalkValues, ServerValues
    <2>3. /\ Len(list') = Len(list) - 1
          /\ \A j \in 1 .. Len(list') : list'[j] = IF j < it THEN list[j] ELSE list[j + 1]
      BY <2>1, <2>2, ErasedProperties DEF RemoveAt
    <2>4. \A j \in 1 .. Len(list') : j \in 1 .. Len(list) /\ j + 1 \in 1 .. Len(list)
      BY <2>2, <2>3
    <2>5. Listed(Viewer)' => Listed(Viewer)
      BY <2>3, <2>4 DEF Listed
    <2> QED
      BY <2>1, <2>5 DEF StreamStays, Stream, Joined, Walking
  <1>10. CASE EndSend
    <2>1. /\ mutex' = Nobody
          /\ UNCHANGED <<list, piece, streams, deaths, joined>>
      BY <1>10 DEF EndSend
    <2> QED
      BY <2>1 DEF StreamStays, Stream, Joined, Walking, Nobody
  <1> QED
    BY <1>2, <1>3, <1>4, <1>5, <1>6, <1>7, <1>8, <1>9, <1>10 DEF Next, IoThread, Walk

(* Without excuse the piece it is sent is the one that follows. *)
LEMMA NoPieceMissing ==
  ASSUME ServerInv, StreamInv, StreamGrows, NoExcuse
  PROVE  piece = Joined + Len(Stream) + 1
  <1>1. PICK n \in Nat : n = Len(Stream)
    BY StreamValues DEF ServerInv
  <1>2. PICK a \in Nat : a = Joined
    BY StreamValues DEF ServerInv
  <1>3. PICK p \in Nat : p = piece
    BY ServerValues
  <1>4. a < p
    BY <1>2, <1>3 DEF StreamInv, StreamGrows
  <1>5. \A i \in 1 .. n : Stream[i] = a + i
    BY <1>1, <1>2 DEF StreamInv
  <1>6. ASSUME NEW q \in Nat, a < q PROVE ~ Skipped(Viewer, q) /\ ~ Restarted(q)
    BY <1>2, <1>6 DEF NoExcuse, Skipped, Restarted
  <1>7. ASSUME NEW q \in a + 1 .. p, q < p PROVE \E i \in 1 .. n : a + i = q
    <2>1. Got(Viewer, q)
      BY <1>2, <1>3, <1>7 DEF StreamGrows, Served, Joined
    <2>2. ~ Skipped(Viewer, q)
      BY <1>6
    <2> QED
      BY <1>1, <1>5, <2>1, <2>2 DEF Got, Stream
  <1>8. \A i \in 1 .. n : a + i # p
    <2>1. it >= it
      BY ServerValues
    <2>2. GotNot(Viewer, piece)
      BY <2>1 DEF StreamGrows, Served
    <2> QED
      BY <1>1, <1>3, <1>4, <1>5, <1>6, <2>2 DEF GotNot, Stream
  <1>9. p >= a + n + 1
    <2> SUFFICES ASSUME p <= a + n PROVE FALSE
      OBVIOUS
    <2>1. p - a \in 1 .. n /\ a + (p - a) = p
      BY <1>4
    <2> QED
      BY <1>8, <2>1
  <1>10. p <= a + n + 1
    <2> SUFFICES ASSUME p > a + n + 1 PROVE FALSE
      OBVIOUS
    <2>1. p - 1 \in a + 1 .. p /\ p - 1 < p
      BY <1>4
    <2>2. PICK i \in 1 .. n : a + i = p - 1
      BY <1>7, <2>1
    <2> QED
      BY <2>2
  <1> QED
    BY <1>1, <1>2, <1>3, <1>9, <1>10

LEMMA ExcuseStays ==
  ASSUME Joined' = Joined, deaths \subseteq deaths', NoExcuse'
  PROVE  NoExcuse
  BY DEF NoExcuse

LEMMA StreamStep ==
  ASSUME ServerInv, StreamInv, Next
  PROVE  StreamInv'
  <1>1. deaths \subseteq deaths'
    BY StreamMoves
  <1>2. PICK p \in Nat : p = piece
    BY ServerValues
  <1>3. /\ Stream \in Seq(Nat) /\ Len(Stream) \in Nat /\ Joined \in Nat
        /\ \A i \in 1 .. Len(Stream) : Stream[i] \in Nat
    BY StreamValues DEF ServerInv
  <1>4. CASE StreamStays
    <2>1. UNCHANGED <<Stream, Joined, piece>> /\ (NoExcuse' => NoExcuse)
      BY <1>1, <1>4, ExcuseStays DEF StreamStays
    <2> QED
      BY <1>4, <2>1 DEF StreamStays, StreamInv
  <1>5. CASE StreamWaits
    <2>1. UNCHANGED <<Stream, Joined>> /\ piece' = p + 1 /\ (NoExcuse' => NoExcuse)
      BY <1>1, <1>2, <1>5, ExcuseStays DEF StreamWaits
    <2>2. \A i \in 1 .. Len(Stream) : Stream[i] <= p + 1
      BY <1>2, <1>3 DEF StreamInv
    <2>3. Listed(Viewer)' => Joined < p + 1
      BY <1>2, <1>3, <1>5 DEF StreamWaits
    <2> QED
      BY <2>1, <2>2, <2>3 DEF StreamInv
  <1>6. CASE StreamBegins
    <2>1. Stream' = <<>> /\ Len(Stream') = 0 /\ ~ Walking'
      BY <1>6, EmptySeq DEF StreamBegins
    <2> QED
      BY <2>1 DEF StreamInv
  <1>7. CASE StreamGrows
    <2>1. PICK n \in Nat : n = Len(Stream)
      BY <1>3
    <2>2. /\ Len(Stream') = n + 1
          /\ \A i \in 1 .. n : Stream'[i] = Stream[i]
          /\ Stream'[n + 1] = p
      BY <1>2, <1>3, <1>7, <2>1, AppendProperties DEF StreamGrows
    <2>3. Joined' = Joined /\ piece' = p /\ Joined < p /\ (NoExcuse' => NoExcuse)
      BY <1>1, <1>2, <1>7, ExcuseStays DEF StreamGrows, StreamInv
    <2>4. \A i \in 1 .. n : Stream[i] \in Nat /\ Stream[i] <= p
      BY <1>2, <1>3, <2>1 DEF StreamInv
    <2>5. \A i \in 1 .. n + 1 : i \in 1 .. n \/ i = n + 1
      OBVIOUS
    <2>6. \A i \in 1 .. n + 1 : Stream'[i] <= p
      <3>1. p <= p
        OBVIOUS
      <3> QED
        BY <2>2, <2>4, <2>5, <3>1
    <2>7. ASSUME NEW i \in 1 .. n + 1, NEW j \in 1 .. n + 1, i <= j
          PROVE  Stream'[i] <= Stream'[j]
      <3>1. CASE j = n + 1
        BY <2>2, <2>6, <3>1
      <3>2. CASE j \in 1 .. n
        <4>1. i \in 1 .. n
          BY <2>7, <3>2
        <4>2. Stream[i] <= Stream[j]
          BY <2>1, <2>7, <3>2, <4>1 DEF StreamInv
        <4> QED
          BY <2>2, <3>2, <4>1, <4>2
      <3> QED
        BY <2>5, <3>1, <3>2
    <2>8. ASSUME NoExcuse', NEW i \in 1 .. n + 1 PROVE Stream'[i] = Joined' + i
      <3>1. p = Joined + n + 1
        BY <1>2, <1>7, <2>1, <2>3, <2>8, NoPieceMissing
      <3>2. \A k \in 1 .. n : Stream[k] = Joined + k
        BY <2>1, <2>3, <2>8 DEF StreamInv
      <3>3. Joined + n + 1 = Joined + (n + 1)
        BY <1>3
      <3> QED
        BY <2>2, <2>3, <2>5, <3>1, <3>2, <3>3
    <2> QED
      BY <2>2, <2>3, <2>6, <2>7, <2>8 DEF StreamInv
  <1> QED
    BY <1>4, <1>5, <1>6, <1>7, StreamMoves

--------------------------------------------------------------------------------
(* The viewer's place in its stream.                                       *)

ViewerTypes ==
  /\ empties \subseteq 0 .. piece
  /\ arrived \in Nat /\ taken \in Nat /\ taken <= arrived /\ arrived <= Len(Sent)
  /\ current \in Nat /\ shown \in Seq(Nat)
  /\ handler \notin {"idle", "closed"} => arrived > 0

Reading == handler \in {"reading", "waiting"}

(* Where a message begins, or the payload of an empty update may be.       *)
Boundary(t) ==
  \E k \in 0 .. Len(Stream) : t = Offset(k) /\ (IsUpdate(Joined + k) => Joined + k \in empties)

(* Right behind the header of m. *)
HeaderAt(t, m) ==
  \E k \in 1 .. Len(Stream) : Stream[k] = m /\ ~ IsPayload(m) /\ t = Offset(k - 1) + 1

(* Behind the header of m. *)
ReadBy(t, m) == \E k \in 1 .. Len(Stream) : Stream[k] = m /\ Offset(k - 1) + 1 <= t

Twice(m) == \E i, j \in 1 .. Len(Stream) : i # j /\ Stream[i] = m /\ Stream[j] = m

(* Without excuse dataReady begins with a header, *)
FrameInv ==
  NoExcuse => /\ handler # "lost"
              /\ handler \in {"idle", "testing"} => Boundary(taken)

(* and goes on behind it. *)
HeaderInv == Reading => HeaderAt(taken, current)

(* The messages shown were read before the one that is being read. *)
OrderInv ==
  /\ \A i \in 2 .. Len(shown) : shown[i - 1] < shown[i] \/ Twice(shown[i])
  /\ shown # <<>> => ReadBy(IF Reading THEN taken - 1 ELSE taken, shown[Len(shown)])

IdleInv == handler = "idle" => arrived - taken <= 1 \/ current \in dropped

ViewerInv == ViewerTypes /\ StreamInv /\ FrameInv /\ HeaderInv /\ OrderInv /\ IdleInv

(* What is in the socket's buffer. *)
LEMMA AvailableValues ==
  ASSUME ServerTypes, ViewerTypes
  PROVE  /\ Available \in Seq(PartSet) /\ Len(Available) = arrived - taken
         /\ arrived - taken \in Nat
         /\ \A i \in 1 .. arrived - taken : taken + i \in 1 .. Len(Sent) /\ Available[i] = Sent[taken + i]
  <1>1. PICK n \in Nat : n = Len(Sent)
    BY StreamValues
  <1>2. PICK a \in Nat : a = arrived
    BY DEF ViewerTypes
  <1>3. PICK t \in Nat : t = taken
    BY DEF ViewerTypes
  <1>4. t <= a /\ a <= n
    BY <1>1, <1>2, <1>3 DEF ViewerTypes
  <1>5. \A i \in 1 .. n : Sent[i] \in PartSet
    BY <1>1, StreamValues, ElementOfSeq
  <1>6. \A i \in t + 1 .. a : i \in 1 .. n
    BY <1>4
  <1>7. \A i \in t + 1 .. a : Sent[i] \in PartSet
    BY <1>5, <1>6
  <1>8. /\ SubSeq(Sent, t + 1, a) \in Seq(PartSet)
        /\ Len(SubSeq(Sent, t + 1, a)) = IF t + 1 <= a THEN a - (t + 1) + 1 ELSE 0
        /\ \A i \in 1 .. a - (t + 1) + 1 : SubSeq(Sent, t + 1, a)[i] = Sent[t + 1 + i - 1]
    <2>1. t + 1 \in Int /\ a \in Int
      OBVIOUS
    <2> QED
      BY <1>7, <2>1, SubSeqProperties
  <1>9. /\ a - (t + 1) + 1 = a - t /\ a - t \in Nat /\ (~ (t + 1 <= a) => a - t = 0)
        /\ \A i \in 1 .. a - t : t + 1 + i - 1 = t + i /\ t + i \in 1 .. n
    BY <1>4
  <1> QED
    BY <1>1, <1>2, <1>3, <1>8, <1>9 DEF Available

(* A piece that is no payload begins with its header. *)
LEMMA HeaderFirst ==
  ASSUME ServerTypes, NEW k \in 1 .. Len(Stream), ~ IsPayload(Stream[k])
  PROVE  Offset(k - 1) + 1 <= Len(Sent) /\ Sent[Offset(k - 1) + 1].name = "header"
  <1>1. PICK p \in Nat : p = Stream[k]
    BY StreamValues
  <1>2. PICK b \in Nat : b = Len(Parts(p))
    BY PieceParts, LenProperties
  <1>3. b >= 1 /\ Parts(p)[1].name = "header"
    <2>1. p \in Int /\ "header" \in PartNames
      BY DEF PartNames
    <2>2. Part(p, "header").name = "header"
      BY <2>1, PartIsRecord
    <2>3. Len(Payload(p)) \in Nat
      BY <2>1, PayloadParts
    <2>4. Parts(p)[1] = Part(p, "header") /\ (Len(Parts(p)) = 1 \/ Len(Parts(p)) = 1 + Len(Payload(p)))
      BY <1>1, PieceParts
    <2> QED
      BY <1>2, <2>2, <2>3, <2>4
  <1>4. PICK a \in Nat : a = Offset(k - 1)
    <2>1. k - 1 \in 0 .. Len(Stream)
      BY StreamValues
    <2> QED
      BY <2>1, PlacesInStream
  <1>5. a + b <= Len(Sent) /\ \A j \in 1 .. b : Sent[a + j] = Parts(p)[j]
    BY <1>1, <1>2, <1>4, PlacesInStream
  <1>6. 1 \in 1 .. b /\ (a + b <= Len(Sent) => a + 1 <= Len(Sent))
    BY <1>3, StreamValues
  <1> QED
    BY <1>3, <1>4, <1>5, <1>6

(* What follows a boundary is a header. *)
LEMMA BoundaryIsHeader ==
  ASSUME ServerTypes, StreamInv, NoExcuse, taken < Len(Sent), Boundary(taken)
  PROVE  Sent[taken + 1].name = "header"
  <1>1. PICK k \in 0 .. Len(Stream) :
           taken = Offset(k) /\ (IsUpdate(Joined + k) => Joined + k \in empties)
    BY DEF Boundary
  <1>2. PICK n \in Nat : n = Len(Stream)
    BY StreamValues
  <1>3. Offset(n) = Len(Sent) /\ Len(Sent) \in Nat /\ \A l \in 0 .. n : Offset(l) \in Nat
    BY <1>2, StreamValues, PlacesInStream
  <1>4. PICK m \in Nat : m = Joined + k
    BY <1>1, <1>2, StreamValues
  <1>5. k # n
    BY <1>1, <1>3
  <1>6. k \in 0 .. n /\ k + 1 \in 1 .. n /\ k + 1 - 1 = k
    BY <1>1, <1>2, <1>5
  <1>7. Stream[k + 1] = m + 1
    <2>1. Stream[k + 1] = Joined + (k + 1)
      BY <1>2, <1>6 DEF StreamInv
    <2>2. Joined \in Nat
      BY StreamValues
    <2> QED
      BY <1>4, <1>6, <2>1, <2>2
  <1>8. CASE ~ IsUpdate(m)
    <2>1. ~ IsPayload(m + 1)
      BY <1>8, Kinds
    <2> QED
      BY <1>1, <1>2, <1>6, <1>7, <2>1, HeaderFirst
  <1>9. CASE IsUpdate(m)
    <2>1. m \in empties /\ IsPayload(m + 1) /\ ~ IsPayload(m + 1 + 1) /\ m + 1 - 1 = m /\ m \in Int
      <3>1. IsUpdate(Joined + k)
        BY <1>4, <1>9
      <3>2. m \in empties
        BY <1>1, <1>4, <3>1
      <3>3. IsPayload(m + 1) /\ ~ IsPayload(m + 1 + 1) /\ m + 1 - 1 = m
        BY <1>9, Kinds
      <3> QED
        BY <3>2, <3>3
    <2>2. Parts(m + 1) = Payload(m) /\ Len(Payload(m)) = 0
      <3>1. m + 1 \in Nat
        OBVIOUS
      <3> QED
        BY <2>1, <3>1, PieceParts, PayloadParts
    <2>3. Offset(k + 1) = Offset(k)
      <3>1. Offset(k + 1) = Offset(k) + 0
        BY <1>2, <1>6, <1>7, <2>2, PlacesInStream
      <3> QED
        BY <1>3, <1>6, <3>1
    <2>4. k + 1 # n
      BY <1>1, <1>3, <1>6, <2>3
    <2>5. k + 1 + 1 \in 1 .. n /\ k + 1 + 1 - 1 = k + 1
      BY <1>6, <2>4
    <2>6. Stream[k + 1 + 1] = m + 1 + 1
      <3>1. Stream[k + 1 + 1] = Joined + (k + 1 + 1)
        BY <1>2, <2>5 DEF StreamInv
      <3>2. Joined \in Nat
        BY StreamValues
      <3> QED
        BY <1>4, <1>6, <3>1, <3>2
    <2> QED
      BY <1>1, <1>2, <2>1, <2>3, <2>5, <2>6, HeaderFirst
  <1> QED
    BY <1>8, <1>9

(* What has arrived and the payload that is read agree as far as they go.  *)
LEMMA BytesAgree ==
  ASSUME ServerTypes, ViewerTypes,
         \A i \in 1 .. Len(Payload(current)) : Sent[taken + i] = Payload(current)[i]
  PROVE  InStep
  <1>1. PICK q : q = Payload(current)
    OBVIOUS
  <1>2. q \in Seq(PartSet) /\ \A i \in 1 .. Len(q) : Sent[taken + i] = q[i]
    <2>1. current \in Int
      BY DEF ViewerTypes
    <2> QED
      BY <1>1, <2>1, PayloadParts
  <1>3. PICK b \in Nat : b = Len(q)
    BY <1>2, LenProperties
  <1>4. PICK c \in Nat : c = arrived - taken
    BY AvailableValues
  <1>5. /\ Available \in Seq(PartSet) /\ Len(Available) = c
        /\ \A i \in 1 .. c : Available[i] = Sent[taken + i]
    BY <1>4, AvailableValues
  <1>6. CASE b <= c
    <2>1. \A i \in 1 .. b : i \in 1 .. c
      BY <1>6
    <2>2. \A i \in 1 .. b : q[i] = Available[i]
      BY <1>2, <1>3, <1>5, <2>1
    <2> QED
      BY <1>1, <1>2, <1>3, <1>5, <1>6, <2>2, PrefixByPlaces DEF InStep, ReadExactly
  <1>7. CASE c <= b
    <2>1. \A i \in 1 .. c : i \in 1 .. b
      BY <1>7
    <2>2. \A i \in 1 .. c : Available[i] = q[i]
      BY <1>2, <1>3, <1>5, <2>1
    <2> QED
      BY <1>1, <1>2, <1>3, <1>5, <1>7, <2>2, PrefixByPlaces DEF InStep, ReadExactly
  <1> QED
    BY <1>6, <1>7

(* Without excuse what follows a header is its payload, and then a message *)
(* begins.                                                                 *)
LEMMA PayloadFollows ==
  ASSUME ServerTypes, ViewerTypes, StreamInv, NoExcuse, HeaderAt(taken, current)
  PROVE  InStep /\ (IsThere => Boundary(taken + Len(Payload(current))))
  <1>1. PICK k \in 1 .. Len(Stream) :
           Stream[k] = current /\ ~ IsPayload(current) /\ taken = Offset(k - 1) + 1
    BY DEF HeaderAt
  <1>2. PICK n \in Nat : n = Len(Stream)
    BY StreamValues
  <1>3. PICK m \in Nat : m = current
    BY DEF ViewerTypes
  <1>4. m = Joined + k /\ Joined \in Nat /\ k \in Nat
    <2>1. Stream[k] = Joined + k
      BY <1>1 DEF StreamInv
    <2> QED
      BY <1>1, <1>2, <1>3, <2>1, StreamValues
  <1>5. PICK q : q = Payload(m)
    OBVIOUS
  <1>6. q \in Seq(PartSet) /\ Len(q) = IF m \in empties THEN 0 ELSE 2
    <2>1. m \in Int
      OBVIOUS
    <2> QED
      BY <1>5, <2>1, PayloadParts
  <1>7. PICK b \in Nat : b = Len(q)
    BY <1>6, LenProperties
  <1>8. PICK a \in Nat : a = Offset(k - 1)
    <2>1. k - 1 \in 0 .. n
      BY <1>1, <1>2
    <2> QED
      BY <1>2, <2>1, PlacesInStream
  <1>9. taken = a + 1
    BY <1>1, <1>8
  <1>10. /\ Offset(k) = a + Len(Parts(m))
         /\ \A j \in 1 .. Len(Parts(m)) : Sent[a + j] = Parts(m)[j]
    BY <1>1, <1>3, <1>8, PlacesInStream
  <1>11. CASE ~ IsUpdate(m)
    <2>1. /\ Len(Parts(m)) = 1 + b
          /\ \A i \in 1 .. b : Parts(m)[1 + i] = q[i]
      BY <1>1, <1>3, <1>5, <1>7, <1>11, PieceParts
    <2>2. \A i \in 1 .. b : 1 + i \in 1 .. 1 + b /\ a + (1 + i) = taken + i
      BY <1>9
    <2>3. \A i \in 1 .. b : Sent[taken + i] = q[i]
      <3> TAKE i \in 1 .. b
      <3>1. Sent[a + (1 + i)] = Parts(m)[1 + i]
        BY <1>10, <2>1, <2>2
      <3> QED
        BY <2>1, <2>2, <3>1
    <2>4. InStep
      BY <1>3, <1>5, <1>7, <2>3, BytesAgree
    <2>5. taken + b = Offset(k)
      BY <1>9, <1>10, <2>1
    <2>6. k \in 0 .. Len(Stream)
      BY <1>1, <1>2
    <2>7. Boundary(taken + b)
      BY <1>4, <1>11, <2>5, <2>6 DEF Boundary
    <2> QED
      BY <1>3, <1>5, <1>7, <2>4, <2>7
  <1>12. CASE IsUpdate(m)
    <2>1. Offset(k) = taken
      <3>1. Len(Parts(m)) = 1
        BY <1>1, <1>3, <1>12, PieceParts
      <3> QED
        BY <1>9, <1>10, <3>1
    <2>2. CASE k = n
      <3>1. arrived - taken = 0
        <4>1. Len(Sent) = taken
          BY <1>2, <2>1, <2>2, PlacesInStream
        <4>2. arrived <= Len(Sent) /\ taken <= arrived /\ arrived \in Nat /\ taken \in Nat
          BY DEF ViewerTypes
        <4> QED
          BY <4>1, <4>2
      <3>2. Available \in Seq(PartSet) /\ Len(Available) = 0
        BY <3>1, AvailableValues
      <3>3. IsPrefix(Available, q)
        <4>1. 0 <= b /\ \A i \in 1 .. 0 : Available[i] = q[i]
          OBVIOUS
        <4> QED
          BY <1>6, <1>7, <3>2, <4>1, PrefixByPlaces
      <3>4. IsThere => b = 0
        <4>1. IsThere => IsPrefix(q, Available)
          BY <1>3, <1>5 DEF IsThere, ReadExactly
        <4>2. IsPrefix(q, Available) => b <= 0
          BY <1>6, <1>7, <3>2, PrefixByPlaces
        <4> QED
          BY <4>1, <4>2
      <3>5. b = 0 => Boundary(taken + b)
        <4>1. ASSUME b = 0 PROVE Boundary(taken + b)
          <5>1. m \in empties
            BY <1>6, <1>7, <4>1
          <5>2. taken + b = Offset(k)
            BY <1>9, <2>1, <4>1
          <5>3. k \in 0 .. Len(Stream)
            BY <1>1, <1>2
          <5> QED
            BY <1>4, <5>1, <5>2, <5>3 DEF Boundary
        <4> QED
          BY <4>1
      <3> QED
        BY <1>3, <1>5, <1>7, <3>3, <3>4, <3>5 DEF InStep, ReadExactly
    <2>3. CASE k # n
      <3>1. k + 1 \in 1 .. n /\ k + 1 - 1 = k /\ k + 1 \in 0 .. n
        BY <1>1, <1>2, <2>3
      <3>2. Stream[k + 1] = m + 1 /\ m + 1 = Joined + (k + 1) /\ m + 1 \in Nat
        <4>1. Stream[k + 1] = Joined + (k + 1)
          BY <1>2, <3>1 DEF StreamInv
        <4> QED
          BY <1>4, <4>1
      <3>3. IsPayload(m + 1) /\ ~ IsUpdate(m + 1) /\ m + 1 - 1 = m
        BY <1>12, Kinds
      <3>4. Parts(m + 1) = q
        BY <1>5, <3>2, <3>3, PieceParts
      <3>5. /\ Offset(k + 1) = taken + b
            /\ \A i \in 1 .. b : Sent[taken + i] = q[i]
        BY <1>2, <1>7, <2>1, <3>1, <3>2, <3>4, PlacesInStream
      <3>6. InStep
        BY <1>3, <1>5, <1>7, <3>5, BytesAgree
      <3>7. Boundary(taken + b)
        BY <1>2, <3>1, <3>2, <3>3, <3>5 DEF Boundary
      <3> QED
        BY <1>3, <1>5, <1>7, <3>6, <3>7
    <2> QED
      BY <2>2, <2>3
  <1> QED
    BY <1>11, <1>12

--------------------------------------------------------------------------------
(* The steps of the viewer, which are none of the server's.                *)

LEMMA StreamStands ==
  ASSUME UNCHANGED <<sensingVars, empties>>
  PROVE  /\ UNCHANGED <<Stream, Joined, piece, Sent>> /\ (StreamInv => StreamInv')
         /\ NoExcuse' <=> NoExcuse
         /\ \A k : Offset(k)' = Offset(k)
         /\ \A m : Twice(m)' <=> Twice(m)
  <1>1. UNCHANGED <<list, mutex, piece, streams, deaths, joined, empties>>
    BY DEF sensingVars
  <1>2. UNCHANGED <<Stream, Joined>>
    BY <1>1 DEF Stream, Joined
  <1>3. \A p : Parts(p)' = Parts(p)
    BY <1>1 DEF Parts, Payload
  <1>4. AllParts' = AllParts
    BY <1>2, <1>3 DEF AllParts
  <1>5. \A k : Offset(k)' = Offset(k)
    BY <1>4 DEF Offset
  <1>6. Sent' = Sent
    BY <1>1, <1>3 DEF Sent
  <1>7. NoExcuse' <=> NoExcuse
    BY <1>1, <1>2 DEF NoExcuse
  <1>8. StreamInv => StreamInv'
    BY <1>1, <1>2, <1>7 DEF StreamInv, Walking, Listed
  <1>9. \A m : Twice(m)' <=> Twice(m)
    BY <1>2 DEF Twice
  <1> QED
    BY <1>1, <1>2, <1>5, <1>6, <1>7, <1>8, <1>9

(* The places stand with the stream. *)
LEMMA PlacesStand ==
  ASSUME UNCHANGED <<Stream, Joined, empties>>, \A k : Offset(k)' = Offset(k), NEW t, NEW m
  PROVE  /\ (taken' = t /\ Boundary(t) => Boundary(taken)')
         /\ (taken' = t /\ current' = m /\ HeaderAt(t, m) => HeaderAt(taken, current)')
         /\ (ReadBy(t, m) <=> ReadBy(t, m)')
  <1>1. taken' = t /\ Boundary(t) => Boundary(taken)'
    BY DEF Boundary
  <1>2. taken' = t /\ current' = m /\ HeaderAt(t, m) => HeaderAt(taken, current)'
    BY DEF HeaderAt, IsPayload
  <1>3. ReadBy(t, m) <=> ReadBy(t, m)'
    BY DEF ReadBy
  <1> QED
    BY <1>1, <1>2, <1>3

(* Who was behind a header stays behind it. *)
LEMMA ReadStays ==
  ASSUME ServerTypes, NEW s \in Int, NEW t \in Int, s <= t, NEW m, ReadBy(s, m)
  PROVE  ReadBy(t, m)
  <1>1. PICK k \in 1 .. Len(Stream) : Stream[k] = m /\ Offset(k - 1) + 1 <= s
    BY DEF ReadBy
  <1>2. Offset(k - 1) \in Nat
    <2>1. k - 1 \in 0 .. Len(Stream)
      BY <1>1, StreamValues
    <2> QED
      BY <2>1, PlacesInStream
  <1>3. Offset(k - 1) + 1 <= t
    BY <1>1, <1>2
  <1> QED
    BY <1>1, <1>3 DEF ReadBy

(* The order of what is shown, if nothing is. *)
LEMMA OrderStays ==
  ASSUME ServerTypes, ViewerTypes, OrderInv, UNCHANGED <<sensingVars, empties, shown>>,
         taken' \in Nat,
         (IF Reading THEN taken - 1 ELSE taken) <= (IF Reading' THEN taken' - 1 ELSE taken')
  PROVE  OrderInv'
  <1>1. PICK s \in Int : s = IF Reading THEN taken - 1 ELSE taken
    BY DEF ViewerTypes
  <1>2. PICK t \in Int : t = IF Reading' THEN taken' - 1 ELSE taken'
    <2>1. taken' \in Int /\ taken' - 1 \in Int
      OBVIOUS
    <2> QED
      BY <2>1, Zenon
  <1>3. /\ UNCHANGED <<Stream, Joined>> /\ \A k : Offset(k)' = Offset(k)
        /\ \A m : Twice(m)' <=> Twice(m)
    BY StreamStands
  <1>4. \A i \in 2 .. Len(shown') : shown'[i - 1] < shown'[i] \/ Twice(shown[i])'
    BY <1>3 DEF OrderInv
  <1>5. ASSUME shown' # <<>> PROVE ReadBy(t, shown[Len(shown)])'
    <2>1. ReadBy(s, shown[Len(shown)])
      BY <1>1, <1>5 DEF OrderInv
    <2>2. ReadBy(t, shown[Len(shown)])
      BY <1>1, <1>2, <2>1, ReadStays
    <2> QED
      BY <1>3, <2>2 DEF ReadBy
  <1>6. ASSUME shown' # <<>>
        PROVE  ReadBy(IF Reading THEN taken - 1 ELSE taken, shown[Len(shown)])'
    BY <1>2, <1>5, <1>6 DEF ReadBy
  <1> QED
    BY <1>4, <1>6 DEF OrderInv

LEMMA ViewerValues ==
  ASSUME ServerInv, ViewerInv
  PROVE  /\ ServerTypes /\ ViewerTypes /\ StreamInv /\ FrameInv /\ HeaderInv /\ OrderInv /\ IdleInv
         /\ arrived \in Nat /\ taken \in Nat /\ taken <= arrived /\ Len(Sent) \in Nat
  BY StreamValues DEF ServerInv, ViewerInv, ViewerTypes

LEMMA ArriveStep ==
  ASSUME ServerInv, ViewerInv, UNCHANGED <<sensingVars, empties>>, Arrive
  PROVE  ViewerInv'
  <1>1. /\ EventLoop /\ arrived < Len(Sent) /\ arrived' = arrived + 1
        /\ handler' = IF handler = "idle" THEN "testing" ELSE handler
        /\ UNCHANGED <<taken, current, shown, dropped>>
    BY DEF Arrive
  <1>2. /\ UNCHANGED <<Stream, Joined, piece, Sent>> /\ StreamInv' /\ NoExcuse' = NoExcuse
        /\ \A k : Offset(k)' = Offset(k)
    BY ViewerValues, StreamStands DEF NoExcuse
  <1>3. handler' \notin {"idle", "closed", "lost"} /\ (Reading' <=> Reading)
        /\ (handler' = "testing" => handler = "idle")
    BY <1>1 DEF EventLoop, Reading
  <1>4. ViewerTypes'
    <2>1. arrived + 1 \in Nat /\ taken <= arrived + 1 /\ arrived + 1 <= Len(Sent) /\ arrived + 1 > 0
      BY <1>1, ViewerValues
    <2> QED
      BY <1>1, <1>2, <2>1, ViewerValues DEF ViewerTypes
  <1>5. FrameInv'
    BY <1>1, <1>2, <1>3, ViewerValues, PlacesStand DEF FrameInv
  <1>6. HeaderInv'
    BY <1>1, <1>2, <1>3, ViewerValues, PlacesStand DEF HeaderInv
  <1>7. OrderInv'
    <2>1. taken <= taken /\ taken - 1 <= taken - 1
      BY ViewerValues
    <2> QED
      BY <1>1, <1>3, <2>1, ViewerValues, OrderStays
  <1> QED
    BY <1>2, <1>3, <1>4, <1>5, <1>6, <1>7 DEF ViewerInv, IdleInv

(* A step that only changes what dataReady does. *)
LEMMA HandlerStep ==
  ASSUME ServerInv, ViewerInv, UNCHANGED <<sensingVars, empties>>,
         UNCHANGED <<arrived, taken, current, shown, dropped>>,
         handler' \notin {"idle", "closed"} => handler \notin {"idle", "closed"},
         handler' = "lost" => ~ NoExcuse \/ handler = "lost",
         handler' \in {"idle", "testing"} => handler \in {"idle", "testing"},
         Reading' => Reading,
         handler' = "idle" => handler = "idle" \/ arrived - taken <= 1
  PROVE  ViewerInv'
  <1>1. /\ UNCHANGED <<Stream, Joined, piece, Sent>> /\ StreamInv' /\ NoExcuse' = NoExcuse
        /\ \A k : Offset(k)' = Offset(k)
    BY ViewerValues, StreamStands DEF NoExcuse
  <1>2. ViewerTypes'
    BY <1>1, ViewerValues DEF ViewerTypes
  <1>3. FrameInv'
    BY <1>1, ViewerValues, PlacesStand DEF FrameInv
  <1>4. HeaderInv'
    BY <1>1, ViewerValues, PlacesStand DEF HeaderInv
  <1>5. OrderInv'
    <2>1. taken <= taken /\ taken - 1 <= taken - 1 /\ taken - 1 <= taken
      BY ViewerValues
    <2> QED
      BY <2>1, ViewerValues, OrderStays
  <1>6. IdleInv'
    BY ViewerValues DEF IdleInv
  <1> QED
    BY <1>1, <1>2, <1>3, <1>4, <1>5, <1>6 DEF ViewerInv

LEMMA HandlerSteps ==
  ASSUME ServerInv, ViewerInv, UNCHANGED <<sensingVars, empties>>,
         PauseUpdates \/ ClientDisconnected \/ LeaveDataReady \/ ProcessEvents \/ TakeOtherBytes
  PROVE  ViewerInv'
  <1>1. CASE PauseUpdates
    BY <1>1, HandlerStep DEF PauseUpdates, Reading
  <1>2. CASE ClientDisconnected
    BY <1>2, HandlerStep DEF ClientDisconnected, Reading, EventLoop
  <1>3. CASE LeaveDataReady
    <2>1. /\ handler = "testing" /\ handler' = "idle" /\ ~ MoreThanHeader
          /\ UNCHANGED <<arrived, taken, current, shown, dropped>>
      BY <1>3 DEF LeaveDataReady
    <2>2. arrived - taken <= 1
      BY <2>1, ViewerValues, AvailableValues DEF MoreThanHeader
    <2> QED
      BY <2>1, <2>2, HandlerStep DEF Reading
  <1>4. CASE ProcessEvents
    BY <1>4, HandlerStep DEF ProcessEvents, Reading
  <1>5. CASE TakeOtherBytes
    <2>1. /\ Reading /\ handler' = "lost" /\ ~ InStep
          /\ UNCHANGED <<arrived, taken, current, shown, dropped>>
      BY <1>5 DEF TakeOtherBytes, Reading
    <2>2. ~ NoExcuse
      BY <2>1, ViewerValues, PayloadFollows DEF HeaderInv
    <2> QED
      BY <2>1, <2>2, HandlerStep DEF Reading
  <1> QED
    BY <1>1, <1>2, <1>3, <1>4, <1>5

LEMMA ReadHeaderStep ==
  ASSUME ServerInv, ViewerInv, UNCHANGED <<sensingVars, empties>>, ReadHeader
  PROVE  ViewerInv'
  <1>1. handler = "testing" /\ MoreThanHeader /\ UNCHANGED <<arrived, shown, dropped>>
    BY DEF ReadHeader
  <1>2. PICK part : part = Head(Available)
    OBVIOUS
  <1>3. PICK x \in Nat : x = taken + 1
    BY ViewerValues
  <1>4. x \in 1 .. Len(Sent) /\ x <= arrived /\ part = Sent[x]
    <2>1. arrived - taken > 1 /\ Available # <<>> /\ Head(Available) = Available[1]
      BY <1>1, ViewerValues, AvailableValues, EmptySeq DEF MoreThanHeader
    <2>2. 1 \in 1 .. arrived - taken /\ x <= arrived
      BY <1>3, <2>1, ViewerValues
    <2> QED
      BY <1>2, <1>3, <2>1, <2>2, ViewerValues, AvailableValues
  <1>5. CASE part.name = "header"
    <2>1. handler' = "reading" /\ current' = part.message /\ taken' = x
      BY <1>2, <1>3, <1>5 DEF ReadHeader
    <2>2. PICK k \in 1 .. Len(Stream) :
             Stream[k] = part.message /\ ~ IsPayload(Stream[k]) /\ x = Offset(k - 1) + 1
      BY <1>4, <1>5, ViewerValues, HeaderPlace
    <2>3. part.message \in Nat
      BY <2>2, ViewerValues, StreamValues
    <2>4. /\ UNCHANGED <<Stream, Joined, piece, Sent>> /\ StreamInv'
          /\ \A l : Offset(l)' = Offset(l)
      BY ViewerValues, StreamStands
    <2>5. ViewerTypes'
      <3>1. arrived > 0
        BY <1>1, ViewerValues DEF ViewerTypes
      <3> QED
        BY <1>1, <1>4, <2>1, <2>3, <2>4, <3>1, ViewerValues DEF ViewerTypes
    <2>6. FrameInv'
      BY <2>1 DEF FrameInv
    <2>7. HeaderInv'
      <3>1. HeaderAt(x, part.message)
        BY <2>2 DEF HeaderAt
      <3>2. HeaderAt(taken, current)'
        BY <2>1, <2>4, <3>1, PlacesStand
      <3> QED
        BY <3>2 DEF HeaderInv
    <2>8. OrderInv'
      <3>1. ~ Reading /\ Reading'
        BY <1>1, <2>1 DEF Reading
      <3>2. taken <= x - 1
        BY <1>3, ViewerValues
      <3> QED
        BY <1>1, <2>1, <3>1, <3>2, ViewerValues, OrderStays
    <2>9. IdleInv'
      BY <2>1 DEF IdleInv
    <2> QED
      BY <2>4, <2>5, <2>6, <2>7, <2>8, <2>9 DEF ViewerInv
  <1>6. CASE part.name # "header"
    <2>1. handler' = "lost" /\ UNCHANGED <<current, taken>>
      BY <1>2, <1>6 DEF ReadHeader
    <2>2. ~ NoExcuse
      <3> SUFFICES ASSUME NoExcuse PROVE FALSE
        OBVIOUS
      <3>1. Boundary(taken)
        BY <1>1, ViewerValues DEF FrameInv
      <3>2. taken < Len(Sent)
        BY <1>3, <1>4, ViewerValues
      <3>3. Sent[taken + 1].name = "header"
        BY <3>1, <3>2, ViewerValues, BoundaryIsHeader
      <3> QED
        BY <1>3, <1>4, <1>6, <3>3
    <2> QED
      BY <1>1, <2>1, <2>2, HandlerStep DEF Reading
  <1> QED
    BY <1>5, <1>6

(* A message is read to its end, and shown unless updates are paused.      *)
LEMMA ReadMessageStep ==
  ASSUME ServerInv, ViewerInv, UNCHANGED <<sensingVars, empties>>, ReadMessage
  PROVE  ViewerInv'
  <1>1. Reading /\ IsThere /\ taken' = taken + Len(Payload(current)) /\ UNCHANGED <<arrived, current>>
    BY DEF ReadMessage, Reading, ReadExactly
  <1>2. PICK m \in Nat : m = current
    BY ViewerValues DEF ViewerTypes
  <1>3. PICK q : q \in Seq(PartSet) /\ q = Payload(m)
    <2>1. m \in Int
      OBVIOUS
    <2> QED
      BY <2>1, PayloadParts
  <1>4. PICK t \in Nat : t = taken
    BY ViewerValues
  <1>5. PICK u \in Nat : u = taken' /\ t <= u /\ u <= arrived
    <2>1. PICK b \in Nat : b = Len(q)
      BY <1>3, LenProperties
    <2>2. b <= arrived - taken
      <3>1. IsPrefix(q, Available)
        BY <1>1, <1>2, <1>3 DEF IsThere, ReadExactly
      <3> QED
        BY <1>3, <2>1, <3>1, PrefixByPlaces, ViewerValues, AvailableValues
    <2>3. taken' = t + b
      BY <1>1, <1>2, <1>3, <1>4, <2>1
    <2>4. t + b \in Nat /\ t <= t + b /\ t + b <= arrived
      BY <1>4, <2>2, ViewerValues
    <2> QED
      BY <2>3, <2>4
  <1>6. /\ UNCHANGED <<Stream, Joined, piece, Sent>> /\ StreamInv' /\ NoExcuse' = NoExcuse
        /\ \A l : Offset(l)' = Offset(l)
        /\ \A p : Twice(p)' <=> Twice(p)
    BY ViewerValues, StreamStands DEF NoExcuse
  <1>7. HeaderAt(t, m)
    BY <1>1, <1>2, <1>4, ViewerValues DEF HeaderInv
  <1>8. NoExcuse => Boundary(u)
    <2>1. HeaderAt(taken, current)
      BY <1>1, ViewerValues DEF HeaderInv
    <2> QED
      BY <1>1, <1>5, <2>1, ViewerValues, PayloadFollows
  <1>9. handler' \in {"idle", "testing"} /\ ~ Reading'
    BY DEF ReadMessage, AfterMessage, Reading
  <1>10. arrived > 0
    BY <1>1, ViewerValues DEF ViewerTypes, Reading
  <1>11. FrameInv'
    <2>1. NoExcuse' => Boundary(taken)'
      BY <1>5, <1>6, <1>8, PlacesStand
    <2> QED
      BY <1>9, <2>1 DEF FrameInv
  <1>12. HeaderInv'
    BY <1>9 DEF HeaderInv
  <1>13. CASE paused
    <2>1. handler' = "idle" /\ dropped' = dropped \cup {current} /\ UNCHANGED shown
      BY <1>13 DEF ReadMessage
    <2>2. ViewerTypes'
      BY <1>1, <1>5, <1>6, <2>1, ViewerValues DEF ViewerTypes
    <2>3. OrderInv'
      <3>1. t - 1 <= u
        BY <1>5
      <3> QED
        BY <1>1, <1>4, <1>5, <1>9, <2>1, <3>1, ViewerValues, OrderStays
    <2>4. IdleInv'
      BY <1>1, <2>1 DEF IdleInv
    <2> QED
      BY <1>6, <1>11, <1>12, <2>2, <2>3, <2>4 DEF ViewerInv
  <1>14. CASE ~ paused
    <2>1. handler' = "testing" /\ shown' = Append(shown, m)
      BY <1>2, <1>14 DEF ReadMessage, AfterMessage
    <2>2. PICK n \in Nat : n = Len(shown)
      BY ViewerValues, LenProperties DEF ViewerTypes
    <2>3. /\ shown' \in Seq(Nat) /\ shown' # <<>> /\ Len(shown') = n + 1
          /\ \A i \in 1 .. n : shown'[i] = shown[i]
          /\ shown'[n + 1] = m
      BY <2>1, <2>2, ViewerValues, AppendProperties DEF ViewerTypes
    <2>4. ViewerTypes'
      BY <1>1, <1>5, <1>6, <1>10, <2>3, ViewerValues DEF ViewerTypes
    <2>5. PICK k \in 1 .. Len(Stream) : Stream[k] = m /\ t = Offset(k - 1) + 1
      BY <1>7 DEF HeaderAt
    <2>6. k \in Nat /\ k - 1 \in 0 .. Len(Stream) /\ Offset(k - 1) \in Nat
      <3>1. k \in Nat /\ k - 1 \in 0 .. Len(Stream)
        BY <2>5, ViewerValues, StreamValues
      <3> QED
        BY <3>1, ViewerValues, PlacesInStream
    <2>7. ASSUME n # 0 PROVE shown[n] < m \/ Twice(m)
      <3>1. shown # <<>>
        BY <2>2, <2>7, EmptySeq
      <3>2. ReadBy(t - 1, shown[n])
        BY <1>1, <1>4, <2>2, <3>1, ViewerValues DEF OrderInv
      <3>3. PICK j \in 1 .. Len(Stream) : Stream[j] = shown[n] /\ Offset(j - 1) + 1 <= t - 1
        BY <3>2 DEF ReadBy
      <3>4. j \in Nat /\ j - 1 \in 0 .. Len(Stream) /\ Offset(j - 1) \in Nat
        <4>1. j \in Nat /\ j - 1 \in 0 .. Len(Stream)
          BY <3>3, ViewerValues, StreamValues
        <4> QED
          BY <4>1, ViewerValues, PlacesInStream
      <3>5. ~ (Offset(k - 1) <= Offset(j - 1))
        BY <2>5, <2>6, <3>3, <3>4
      <3>6. ~ (k - 1 <= j - 1)
        BY <2>6, <3>4, <3>5, ViewerValues, PlacesInStream
      <3>7. j <= k /\ j # k
        BY <2>6, <3>4, <3>6
      <3>8. Stream[j] <= Stream[k] /\ Stream[j] \in Nat
        BY <2>5, <3>3, <3>7, ViewerValues, StreamValues DEF StreamInv
      <3>9. CASE Stream[j] = m
        BY <2>5, <3>3, <3>7, <3>9 DEF Twice
      <3>10. CASE Stream[j] # m
        BY <2>5, <3>3, <3>8, <3>10
      <3> QED
        BY <3>9, <3>10
    <2>8. ASSUME NEW i \in 2 .. n + 1 PROVE shown'[i - 1] < shown'[i] \/ Twice(shown'[i])
      <3>1. CASE i = n + 1
        <4>1. n # 0 /\ n \in 1 .. n /\ i - 1 = n
          BY <3>1
        <4> QED
          BY <2>3, <2>7, <3>1, <4>1
      <3>2. CASE i # n + 1
        <4>1. i \in 2 .. n /\ i \in 1 .. n /\ i - 1 \in 1 .. n
          BY <3>2
        <4>2. shown[i - 1] < shown[i] \/ Twice(shown[i])
          BY <2>2, <4>1, ViewerValues DEF OrderInv
        <4> QED
          BY <2>3, <4>1, <4>2
      <3> QED
        BY <3>1, <3>2
    <2>9. OrderInv'
      <3>1. ReadBy(u, m)
        <4>1. Offset(k - 1) + 1 <= u
          BY <1>5, <2>5
        <4> QED
          BY <2>5, <4>1 DEF ReadBy
      <3>2. \A i \in 2 .. n + 1 : shown'[i - 1] < shown'[i] \/ Twice(shown[i])'
        <4> TAKE i \in 2 .. n + 1
        <4>1. shown'[i - 1] < shown'[i] \/ Twice(shown'[i])
          BY <2>8
        <4> QED
          BY <1>6, <4>1 DEF Twice
      <3>3. ReadBy(IF Reading THEN taken - 1 ELSE taken, shown[Len(shown)])'
        BY <1>5, <1>6, <1>9, <2>3, <3>1 DEF ReadBy
      <3> QED
        BY <2>3, <3>2, <3>3 DEF OrderInv
    <2>10. IdleInv'
      BY <2>1 DEF IdleInv
    <2> QED
      BY <1>6, <1>11, <1>12, <2>4, <2>9, <2>10 DEF ViewerInv
  <1> QED
    BY <1>13, <1>14

--------------------------------------------------------------------------------
(* The steps of the server, in which the viewer does nothing.              *)

(* What was said of the places of a stream holds of the next one, too. *)
PlacesHold ==
  /\ Len(Stream) \in Nat /\ Len(Sent) \in Nat /\ Joined \in Nat
  /\ \A k \in 1 .. Len(Stream) : AllParts[k] = Parts(Stream[k])
  /\ Offset(0) = 0 /\ Offset(Len(Stream)) = Len(Sent)
  /\ \A k, l \in 0 .. Len(Stream) : k <= l => Offset(k) <= Offset(l)

LEMMA PlacesHoldNext == ServerTypes' => PlacesHold'
  <1>1. ServerTypes => PlacesHold
    BY StreamValues, PlacesInStream DEF PlacesHold
  <1> QED
    BY <1>1, PTL

(* Its stream only gets longer. *)
LEMMA StreamLengthens ==
  ASSUME ServerInv, ServerInv', ViewerInv, Server
  PROVE  /\ Len(Stream) <= Len(Stream') /\ Len(Stream') \in Nat
         /\ \A k \in 1 .. Len(Stream) : Stream'[k] = Stream[k]
         /\ \A k \in 0 .. Len(Stream) : Offset(k)' = Offset(k)
         /\ Len(Sent) <= Len(Sent')
         /\ empties \subseteq empties' /\ empties' \subseteq 0 .. piece'
  <1>0. PlacesHold'
    BY PlacesHoldNext DEF ServerInv
  <1>1. StreamStays \/ StreamWaits \/ StreamBegins \/ StreamGrows
    BY StreamMoves DEF Server
  <1>2. PICK p \in Nat : p = piece
    BY ServerValues
  <1>3. piece' = p \/ piece' = p + 1
    BY <1>1, <1>2 DEF StreamStays, StreamWaits, StreamBegins, StreamGrows
  <1>4. empties' = empties \/ (empties' = empties \cup {piece'} /\ piece' # piece)
    BY DEF Server
  <1>5. empties \subseteq 0 .. p
    BY <1>2, ViewerValues DEF ViewerTypes
  <1>6. /\ empties \subseteq empties' /\ empties' \subseteq 0 .. piece'
        /\ \A m \in Int : m <= p => (m \in empties' <=> m \in empties)
    <2>1. CASE empties' = empties
      <3>1. \A m \in 0 .. p : m \in 0 .. piece'
        BY <1>3
      <3> QED
        BY <1>5, <2>1, <3>1
    <2>2. CASE empties' = empties \cup {p + 1} /\ piece' = p + 1
      <3>1. \A m \in 0 .. p : m \in 0 .. p + 1
        OBVIOUS
      <3>2. p + 1 \in 0 .. p + 1 /\ \A m \in Int : m <= p => m # p + 1
        OBVIOUS
      <3> QED
        BY <1>5, <2>2, <3>1, <3>2
    <2> QED
      BY <1>2, <1>3, <1>4, <2>1, <2>2
  <1>7. ASSUME NEW m \in Int, m <= p PROVE Payload(m)' = Payload(m)
    BY <1>6, <1>7 DEF Payload
  <1>8. ASSUME NEW m \in Nat, m <= p PROVE Parts(m)' = Parts(m)
    <2>1. m \in Int /\ m - 1 \in Int /\ m - 1 <= p
      BY <1>8
    <2>2. Payload(m)' = Payload(m) /\ Payload(m - 1)' = Payload(m - 1)
      BY <1>7, <1>8, <2>1
    <2> QED
      BY <2>2 DEF Parts, IsPayload, IsUpdate
  <1>9. PICK n \in Nat : n = Len(Stream)
    BY ViewerValues, StreamValues
  <1>10. PICK n2 \in Nat : n2 = Len(Stream')
    BY <1>0 DEF PlacesHold
  <1>11. n <= n2 /\ \A k \in 1 .. n : Stream'[k] = Stream[k]
    <2>1. CASE Stream' = Stream
      <3>1. n = n2
        BY <1>9, <1>10, <2>1
      <3>2. n <= n
        OBVIOUS
      <3> QED
        BY <2>1, <3>1, <3>2
    <2>2. CASE Stream' = Append(Stream, p)
      <3>1. Stream \in Seq(Nat)
        BY ViewerValues, StreamValues
      <3>2. n2 = n + 1 /\ \A k \in 1 .. n : Stream'[k] = Stream[k]
        BY <1>9, <1>10, <2>2, <3>1, AppendProperties
      <3>3. n <= n + 1
        OBVIOUS
      <3> QED
        BY <3>2, <3>3
    <2> QED
      BY <1>1, <1>2, <2>1, <2>2 DEF StreamStays, StreamWaits, StreamBegins, StreamGrows
  <1>12. \A k \in 1 .. n : AllParts'[k] = AllParts[k]
    <2> TAKE k \in 1 .. n
    <2>1. PICK m \in Nat : m = Stream[k] /\ m <= p
      BY <1>2, <1>9, ViewerValues, StreamValues DEF StreamInv
    <2>2. AllParts[k] = Parts(m)
      BY <1>9, <2>1, ViewerValues, StreamValues
    <2>3. k \in 1 .. n2
      BY <1>11
    <2>4. AllParts'[k] = Parts(m)'
      BY <1>0, <1>10, <1>11, <2>1, <2>3 DEF PlacesHold
    <2> QED
      BY <1>8, <2>1, <2>2, <2>4
  <1>13. ASSUME NEW k \in 0 .. n PROVE Offset(k)' = Offset(k)
    <2>1. \A i \in 1 .. k : i \in 1 .. n
      OBVIOUS
    <2>2. FirstOf(AllParts, k)' = FirstOf(AllParts, k)
      BY <1>12, <2>1 DEF FirstOf
    <2> QED
      BY <2>2 DEF Offset, EndOf
  <1>14. Len(Sent) <= Len(Sent')
    <2>1. n \in 0 .. n /\ n \in 0 .. n2 /\ n2 \in 0 .. n2
      BY <1>11
    <2>2. Len(Sent) = Offset(n)
      BY <1>9, ViewerValues, PlacesInStream
    <2>3. Len(Sent') = Offset(n2)' /\ Offset(n)' <= Offset(n2)'
      BY <1>0, <1>10, <1>11, <2>1 DEF PlacesHold
    <2> QED
      BY <1>13, <2>1, <2>2, <2>3
  <1> QED
    BY <1>6, <1>9, <1>10, <1>11, <1>13, <1>14

LEMMA ServerSteps ==
  ASSUME ServerInv, ServerInv', ViewerInv, Server
  PROVE  ViewerInv'
  <1>1. UNCHANGED <<arrived, taken, handler, current, shown, dropped>> /\ Next
    BY DEF Server, viewerVars
  <1>0. PlacesHold'
    BY PlacesHoldNext DEF ServerInv
  <1>2. PICK n \in Nat : n = Len(Stream)
    BY ViewerValues, StreamValues
  <1>3. PICK n2 \in Nat : n2 = Len(Stream') /\ n <= n2
    BY <1>2, StreamLengthens
  <1>4. /\ \A k \in 1 .. n : k \in 1 .. n2 /\ k - 1 \in 0 .. n
        /\ \A k \in 0 .. n : k \in 0 .. n2
    BY <1>3
  <1>5. /\ \A k \in 1 .. n : Stream'[k] = Stream[k]
        /\ \A k \in 0 .. n : Offset(k)' = Offset(k)
    BY <1>2, StreamLengthens
  <1>6. ViewerTypes'
    <2>1. Len(Sent) <= Len(Sent') /\ Len(Sent) \in Nat /\ Len(Sent') \in Nat
      BY <1>0, StreamLengthens, ViewerValues DEF PlacesHold
    <2>2. arrived <= Len(Sent')
      BY <2>1, ViewerValues DEF ViewerTypes
    <2> QED
      BY <1>1, <2>2, ViewerValues, StreamLengthens DEF ViewerTypes
  <1>7. StreamInv'
    BY <1>1, ViewerValues, StreamStep
  <1>8. FrameInv'
    <2> SUFFICES ASSUME NoExcuse'
                 PROVE  handler # "lost" /\ (handler \in {"idle", "testing"} => Boundary(taken)')
      BY <1>1 DEF FrameInv
    <2>1. CASE StreamBegins
      <3>1. Stream = <<>> /\ n = 0
        BY <1>2, <2>1, EmptySeq DEF StreamBegins
      <3>2. Len(Sent) = 0
        BY <1>2, <3>1, ViewerValues, PlacesInStream
      <3>3. arrived = 0 /\ taken = 0
        BY <3>2, ViewerValues DEF ViewerTypes
      <3>4. handler \in {"idle", "closed"}
        BY <3>3, ViewerValues DEF ViewerTypes
      <3>5. Boundary(taken)'
        <4>1. 0 \in 0 .. Len(Stream') /\ Offset(0)' = 0
          BY <1>0, <1>3 DEF PlacesHold
        <4>2. PICK a \in Nat : a = Joined'
          BY <1>0 DEF PlacesHold
        <4>3. a % 3 # 2 /\ a + 0 = a
          <5>1. ~ IsUpdate(Joined)'
            BY DEF NoExcuse
          <5> QED
            BY <4>2, <5>1 DEF IsUpdate, Joined
        <4>4. ~ IsUpdate(Joined + 0)'
          BY <4>2, <4>3 DEF IsUpdate
        <4> QED
          BY <1>1, <3>3, <4>1, <4>4 DEF Boundary
      <3> QED
        BY <3>4, <3>5
    <2>2. CASE ~ StreamBegins
      <3>1. Joined' = Joined /\ deaths \subseteq deaths'
        BY <1>1, <2>2, StreamMoves DEF StreamStays, StreamWaits, StreamGrows
      <3>2. NoExcuse
        BY <3>1, ExcuseStays
      <3>3. ASSUME Boundary(taken) PROVE Boundary(taken)'
        <4>1. PICK k \in 0 .. n :
                 taken = Offset(k) /\ (IsUpdate(Joined + k) => Joined + k \in empties)
          BY <1>2, <3>3 DEF Boundary
        <4>2. k \in 0 .. Len(Stream') /\ taken' = Offset(k)'
          BY <1>1, <1>3, <1>4, <1>5, <4>1
        <4>3. Joined + k \in empties => Joined' + k \in empties'
          BY <3>1, StreamLengthens
        <4>4. IsUpdate(Joined + k)' => Joined' + k \in empties'
          BY <3>1, <4>1, <4>3 DEF IsUpdate
        <4> QED
          BY <4>2, <4>4 DEF Boundary
      <3> QED
        BY <3>2, <3>3, ViewerValues DEF FrameInv
    <2> QED
      BY <2>1, <2>2
  <1>9. HeaderInv'
    <2> SUFFICES ASSUME HeaderAt(taken, current) PROVE HeaderAt(taken, current)'
      BY <1>1, ViewerValues DEF HeaderInv, Reading
    <2>1. PICK k \in 1 .. n :
             Stream[k] = current /\ ~ IsPayload(current) /\ taken = Offset(k - 1) + 1
      BY <1>2 DEF HeaderAt
    <2>2. /\ k \in 1 .. Len(Stream') /\ Stream'[k] = current' /\ taken' = Offset(k - 1)' + 1
          /\ ~ IsPayload(current)'
      BY <1>1, <1>3, <1>4, <1>5, <2>1 DEF IsPayload
    <2> QED
      BY <2>2 DEF HeaderAt
  <1>10. OrderInv'
    <2>1. ASSUME NEW m, Twice(m) PROVE Twice(m)'
      BY <1>2, <1>3, <1>4, <1>5, <2>1 DEF Twice
    <2>2. \A i \in 2 .. Len(shown') : shown'[i - 1] < shown'[i] \/ Twice(shown[i])'
      <3> TAKE i \in 2 .. Len(shown')
      <3>1. shown[i - 1] < shown[i] \/ Twice(shown[i])
        BY <1>1, ViewerValues DEF OrderInv
      <3>2. Twice(shown[i]) => Twice(shown[i])'
        BY <1>1, <2>1 DEF Twice
      <3> QED
        BY <1>1, <3>1, <3>2
    <2>3. PICK t : t = IF Reading THEN taken - 1 ELSE taken
      OBVIOUS
    <2>4. PICK m : m = shown[Len(shown)]
      OBVIOUS
    <2>5. ASSUME shown' # <<>>
          PROVE  ReadBy(IF Reading THEN taken - 1 ELSE taken, shown[Len(shown)])'
      <3>1. ReadBy(t, m)
        BY <1>1, <2>3, <2>4, <2>5, ViewerValues DEF OrderInv
      <3>2. PICK k \in 1 .. n : Stream[k] = m /\ Offset(k - 1) + 1 <= t
        BY <1>2, <3>1 DEF ReadBy
      <3>3. k \in 1 .. Len(Stream') /\ Stream'[k] = m /\ Offset(k - 1)' + 1 <= t
        BY <1>3, <1>4, <1>5, <3>2
      <3>4. t = (IF Reading THEN taken - 1 ELSE taken)' /\ m = shown[Len(shown)]'
        BY <1>1, <2>3, <2>4 DEF Reading
      <3> QED
        BY <3>3, <3>4 DEF ReadBy
    <2> QED
      BY <2>2, <2>5 DEF OrderInv
  <1>11. IdleInv'
    BY <1>1, ViewerValues DEF IdleInv
  <1> QED
    BY <1>6, <1>7, <1>8, <1>9, <1>10, <1>11 DEF ViewerInv

LEMMA ViewerStart == NodeInit => ViewerInv
  <1> SUFFICES ASSUME NodeInit PROVE ViewerInv
    OBVIOUS
  <1>1. ServerInv
    BY ServerStart DEF NodeInit
  <1>2. /\ empties = {} /\ arrived = 0 /\ taken = 0 /\ handler = "idle" /\ current = 0
        /\ shown = <<>>
    BY DEF NodeInit
  <1>3. Stream = <<>> /\ ~ Walking /\ Joined = 0
    BY ViewerAssumption DEF NodeInit, Init, Stream, Joined, Walking, Nobody
  <1>4. Len(Stream) = 0 /\ Len(shown) = 0 /\ shown \in Seq(Nat)
    BY <1>2, <1>3, EmptySeq
  <1>5. Offset(0) = 0 /\ Len(Sent) = 0
    BY <1>1, <1>4, PlacesInStream DEF ServerInv
  <1>6. ViewerTypes
    BY <1>2, <1>4, <1>5 DEF ViewerTypes
  <1>7. StreamInv
    BY <1>3, <1>4 DEF StreamInv
  <1>8. FrameInv
    <2>1. ~ IsUpdate(0) /\ Joined + 0 = 0
      <3>1. 0 = 3 * 0 + 0
        OBVIOUS
      <3>2. (3 * 0 + 0) % 3 = 0
        BY RemainderUnique
      <3> QED
        BY <1>3, <3>1, <3>2 DEF IsUpdate
    <2>2. Boundary(taken)
      BY <1>2, <1>4, <1>5, <2>1 DEF Boundary
    <2> QED
      BY <1>2, <2>2 DEF FrameInv
  <1>9. HeaderInv /\ OrderInv
    BY <1>2, <1>4 DEF HeaderInv, OrderInv, Reading
  <1>10. IdleInv
    BY <1>2 DEF IdleInv
  <1> QED
    BY <1>6, <1>7, <1>8, <1>9, <1>10 DEF ViewerInv

--------------------------------------------------------------------------------
(* The theorems about the viewer.                                          *)

NodeInv == ServerInv /\ ViewerInv

LEMMA NodeStep == NodeInv /\ [NodeNext]_nodeVars => NodeInv'
  <1> SUFFICES ASSUME ServerInv, ViewerInv, [NodeNext]_nodeVars PROVE ServerInv' /\ ViewerInv'
    BY DEF NodeInv
  <1>1. [Next]_sensingVars
    BY DEF NodeNext, Server, Node, nodeVars
  <1>2. ServerInv'
    BY <1>1, ServerStep
  <1>3. CASE Server
    BY <1>2, <1>3, ServerSteps
  <1>4. CASE Node
    <2>1. UNCHANGED <<sensingVars, empties>> /\ (Arrive \/ PauseUpdates \/ ClientDisconnected \/ DataReady)
      BY <1>4 DEF Node
    <2>2. CASE Arrive
      BY <1>2, <2>1, <2>2, ArriveStep
    <2>3. CASE PauseUpdates \/ ClientDisconnected
      BY <1>2, <2>1, <2>3, HandlerSteps
    <2>4. CASE LeaveDataReady \/ ProcessEvents \/ TakeOtherBytes
      BY <1>2, <2>1, <2>4, HandlerSteps
    <2>5. CASE ReadHeader
      BY <1>2, <2>1, <2>5, ReadHeaderStep
    <2>6. CASE ReadMessage
      BY <1>2, <2>1, <2>6, ReadMessageStep
    <2> QED
      BY <2>1, <2>2, <2>3, <2>4, <2>5, <2>6 DEF DataReady
  <1>5. CASE UNCHANGED nodeVars
    <2>1. /\ UNCHANGED <<sensingVars, empties>> /\ UNCHANGED <<arrived, taken, current, shown, dropped>>
          /\ handler' = handler
      BY <1>5 DEF nodeVars, viewerVars
    <2>2. /\ handler' \notin {"idle", "closed"} => handler \notin {"idle", "closed"}
          /\ handler' = "lost" => ~ NoExcuse \/ handler = "lost"
          /\ handler' \in {"idle", "testing"} => handler \in {"idle", "testing"}
          /\ Reading' => Reading
          /\ handler' = "idle" => handler = "idle" \/ arrived - taken <= 1
      BY <2>1 DEF Reading
    <2> QED
      BY <1>2, <2>1, <2>2, HandlerStep
  <1> QED
    BY <1>2, <1>3, <1>4, <1>5 DEF NodeNext

LEMMA TwiceIsCounted ==
  ASSUME ServerTypes, NEW m, Twice(m)
  PROVE  Copies(Viewer, m) > 1
  <1> DEFINE n == Len(streams[Viewer])
             I == {i \in DOMAIN streams[Viewer] : streams[Viewer][i] = m}
  <1>1. n \in Nat /\ DOMAIN streams[Viewer] = 1 .. n
    BY StreamValues, LenProperties DEF Stream
  <1>2. PICK i \in 1 .. n, j \in 1 .. n : i # j /\ streams[Viewer][i] = m /\ streams[Viewer][j] = m
    BY DEF Twice, Stream
  <1>3. {i, j} \subseteq I
    BY <1>1, <1>2
  <1>4. IsFiniteSet(I)
    <2>1. 1 \in Int /\ n \in Int
      BY <1>1
    <2>2. I \subseteq 1 .. n
      BY <1>1
    <2> HIDE DEF n, I
    <2> QED
      BY <2>1, <2>2, FS_Interval, FS_Subset
  <1>5. Copies(Viewer, m) = Cardinality(I)
    BY DEF Copies
  <1> HIDE DEF I, n
  <1>6. Cardinality({i, j}) = 2 /\ IsFiniteSet({i, j})
    <2>1. IsFiniteSet({i}) /\ Cardinality({i}) = 1
      BY FS_Singleton
    <2>2. j \notin {i}
      BY <1>2
    <2>3. IsFiniteSet({i} \cup {j}) /\ Cardinality({i} \cup {j}) = 1 + 1
      BY <2>1, <2>2, FS_AddElement
    <2>4. {i} \cup {j} = {i, j}
      OBVIOUS
    <2> QED
      BY <2>3, <2>4
  <1>7. Cardinality({i, j}) <= Cardinality(I) /\ Cardinality(I) \in Nat
    BY <1>3, <1>4, FS_Subset, FS_CardinalityType
  <1> QED
    BY <1>5, <1>6, <1>7

(* dataReady takes a payload for a header only with an excuse, whatever    *)
(* the order in which bytes arrive, the event loop runs again while it     *)
(* waits, the user pauses the updates and the server's threads go on.      *)
THEOREM TheViewerKeepsFraming == NodeSpec => []FramingIsKept
  <1>1. NodeInit => NodeInv
    BY ServerStart, ViewerStart DEF NodeInit, NodeInv
  <1>2. NodeInv => FramingIsKept
    <2> SUFFICES ASSUME NodeInv, handler = "lost" PROVE ~ NoExcuse => FramingIsKept
      BY DEF FramingIsKept, NodeInv, ViewerInv, FrameInv
    <2> QED
      BY DEF NoExcuse, FramingIsKept, Joined
  <1> QED
    BY <1>1, <1>2, NodeStep, PTL DEF NodeSpec

(* Messages are shown in the order in which they were sent, and none is    *)
(* left in the buffer when dataReady has returned but after one that the   *)
(* pause dropped, although nothing announces what arrived meanwhile.       *)
THEOREM TheViewerLeavesNothing == NodeSpec => []NoMessageIsLeft
  <1>1. NodeInit => NodeInv
    BY ServerStart, ViewerStart DEF NodeInit, NodeInv
  <1>2. NodeInv => NoMessageIsLeft
    <2> SUFFICES ASSUME ServerInv, ViewerInv PROVE NoMessageIsLeft
      BY DEF NodeInv
    <2>1. \A i \in 2 .. Len(shown) : shown[i - 1] < shown[i] \/ Copies(Viewer, shown[i]) > 1
      BY TwiceIsCounted, ViewerValues DEF OrderInv
    <2>2. handler = "idle" => ~ MoreThanHeader \/ current \in dropped
      <3> SUFFICES ASSUME handler = "idle", current \notin dropped PROVE ~ MoreThanHeader
        OBVIOUS
      <3>1. arrived - taken <= 1 /\ arrived - taken \in Nat /\ Len(Available) = arrived - taken
        BY ViewerValues, AvailableValues DEF IdleInv
      <3> QED
        BY <3>1 DEF MoreThanHeader
    <2> QED
      BY <2>1, <2>2 DEF NoMessageIsLeft
  <1> QED
    BY <1>1, <1>2, NodeStep, PTL DEF NodeSpec

================================================================================
