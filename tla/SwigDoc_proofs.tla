---------------------------- MODULE SwigDoc_proofs ----------------------------
(***************************************************************************)
(* The heap of lazy objects keeps its order, whatever is asked, in which   *)
(* order, and whatever fails: for every directory of XML files, every      *)
(* client of DoxyXml and the pass of SwigDoc that follows.                 *)
(***************************************************************************)
EXTENDS SwigDoc, BufferLemmas

(* A sequence of whatever it holds. *)
IsSequence(s) == Len(s) \in Nat /\ s = [i \in 1 .. Len(s) |-> s[i]]

LEMMA AppendAnything ==
  ASSUME NEW s, IsSequence(s), NEW e
  PROVE  /\ IsSequence(Append(s, e)) /\ Len(Append(s, e)) = Len(s) + 1
         /\ \A i \in 1 .. Len(s) : Append(s, e)[i] = s[i]
         /\ Append(s, e)[Len(s) + 1] = e
  <1>1. PICK n \in Nat : n = Len(s)
    BY DEF IsSequence
  <1>2. PICK S : S = {s[i] : i \in 1 .. n} \cup {e}
    OBVIOUS
  <1>3. s \in Seq(S) /\ e \in S
    <2>1. \A i \in 1 .. n : s[i] \in S
      BY <1>2
    <2>2. s = [i \in 1 .. n |-> s[i]]
      BY <1>1 DEF IsSequence
    <2>3. [i \in 1 .. n |-> s[i]] \in Seq(S)
      BY <2>1, IsASeq
    <2> QED
      BY <1>2, <2>2, <2>3
  <1>4. /\ Append(s, e) \in Seq(S) /\ Len(Append(s, e)) = n + 1
        /\ \A i \in 1 .. n : Append(s, e)[i] = s[i]
        /\ Append(s, e)[n + 1] = e
    BY <1>1, <1>3, AppendProperties
  <1>5. Append(s, e) = [i \in 1 .. n + 1 |-> Append(s, e)[i]]
    BY <1>4, LenProperties
  <1> QED
    BY <1>1, <1>4, <1>5 DEF IsSequence

LEMMA ReplaceOne ==
  ASSUME NEW s, IsSequence(s), NEW j \in 1 .. Len(s), NEW e
  PROVE  /\ IsSequence([s EXCEPT ![j] = e]) /\ Len([s EXCEPT ![j] = e]) = Len(s)
         /\ \A i \in 1 .. Len(s) : [s EXCEPT ![j] = e][i] = IF i = j THEN e ELSE s[i]
  <1>1. PICK n \in Nat : n = Len(s)
    BY DEF IsSequence
  <1>2. s = [i \in 1 .. n |-> s[i]]
    BY <1>1 DEF IsSequence
  <1>3. [s EXCEPT ![j] = e] = [i \in 1 .. n |-> IF i = j THEN e ELSE s[i]]
    BY <1>1, <1>2
  <1>4. PICK t : t = [i \in 1 .. n |-> IF i = j THEN e ELSE s[i]]
    OBVIOUS
  <1>5. Len(t) = n
    <2>1. PICK S : S = {s[i] : i \in 1 .. n} \cup {e}
      OBVIOUS
    <2>2. \A i \in 1 .. n : (IF i = j THEN e ELSE s[i]) \in S
      BY <2>1
    <2>3. t \in Seq(S)
      BY <1>4, <2>2, IsASeq
    <2> QED
      BY <1>4, <2>3, LenProperties
  <1>6. /\ t = [i \in 1 .. n |-> t[i]]
        /\ \A i \in 1 .. n : t[i] = IF i = j THEN e ELSE s[i]
    BY <1>4
  <1> QED
    BY <1>1, <1>3, <1>4, <1>5, <1>6 DEF IsSequence

--------------------------------------------------------------------------------
(* What holds of the heap between any two statements.                      *)

Classes == {"Function", "Class", "File", "Namespace", "Group", "Friend", "Other"}
OfFiles == {"Class", "File", "Group"}
Objects(h) == 1 .. Len(h.obj)

(* An object in a heap of n. *)
IsObject(r, n) ==
  /\ r = [cls |-> r.cls, refid |-> r.refid, key |-> r.key, name |-> r.name, parsed |-> r.parsed,
          error |-> r.error, members |-> r.members, cats |-> r.cats]
  /\ r.parsed \in BOOLEAN /\ r.error \in BOOLEAN
  /\ r.members \in Seq(0 .. n)
  /\ r.cats = [c \in Categories |-> r.cats[c]]
  /\ \A c \in Categories : r.cats[c] = Unset \/ r.cats[c] \in Seq(1 .. n)
  /\ ~ r.parsed => r.members = <<>>
  /\ r.cls \in OfFiles => r.refid \in DOMAIN xml.files

(* Members with distinct names. *)
Distinct(h, ms) ==
  \A i, j \in 1 .. Len(ms) :
    i # j /\ ms[i] # None /\ ms[j] # None => h.obj[ms[i]].name # h.obj[ms[j]].name

ObjectsInv(h) ==
  /\ h = [obj |-> h.obj, refs |-> h.refs] /\ IsSequence(h.obj)
  /\ \A o \in Objects(h) : IsObject(h.obj[o], Len(h.obj))

(* The first is the index, which alone is parsed without a file. *)
IndexInv(h) ==
  /\ 1 \in Objects(h)
  /\ h.obj[1].cls = "Index" /\ h.obj[1].refid = NoRefid /\ h.obj[1].name # NoName
  /\ ~ h.obj[1].error
  /\ \A o \in Objects(h) : o # 1 => h.obj[o].cls \in Classes
  /\ ~ h.obj[1].parsed => Len(h.obj) = 1

(* An object with a refid is the one that the index has for it. *)
RefsInv(h) ==
  /\ \A o \in Objects(h) :
       h.obj[o].refid # NoRefid => h.obj[o].refid \in DOMAIN h.refs /\ h.refs[h.obj[o].refid] = o
  /\ \A r \in DOMAIN h.refs :
       r # NoRefid /\ h.refs[r] \in Objects(h) /\ h.obj[h.refs[r]].refid = r

MembersInv(h) ==
  \A o \in Objects(h) : h.obj[o].cls \in {"Class", "File"} => Distinct(h, h.obj[o].members)

HeapInv(h) == ObjectsInv(h) /\ IndexInv(h) /\ RefsInv(h) /\ MembersInv(h)

(* What no call undoes. *)
Later(h, g) ==
  /\ Len(h.obj) <= Len(g.obj)
  /\ \A o \in Objects(h) :
       /\ g.obj[o].cls = h.obj[o].cls /\ g.obj[o].refid = h.obj[o].refid
       /\ g.obj[o].key = h.obj[o].key /\ g.obj[o].name = h.obj[o].name
       /\ h.obj[o].parsed => g.obj[o].parsed /\ g.obj[o].error = h.obj[o].error

LEMMA LaterIsReflexive ==
  ASSUME NEW h, HeapInv(h)
  PROVE  Later(h, h)
  <1>1. Len(h.obj) \in Nat
    BY DEF HeapInv, ObjectsInv, IsSequence
  <1>2. Len(h.obj) <= Len(h.obj)
    BY <1>1
  <1> QED
    BY <1>2 DEF Later

LEMMA LaterIsTransitive ==
  ASSUME NEW h, NEW g, NEW k, HeapInv(h), HeapInv(g), HeapInv(k), Later(h, g), Later(g, k)
  PROVE  Later(h, k)
  <1>1. Len(h.obj) \in Nat /\ Len(g.obj) \in Nat /\ Len(k.obj) \in Nat
    BY DEF HeapInv, ObjectsInv, IsSequence
  <1>2. Len(h.obj) <= Len(g.obj) /\ Len(g.obj) <= Len(k.obj)
    BY DEF Later
  <1>3. Len(h.obj) <= Len(k.obj) /\ \A o \in Objects(h) : o \in Objects(g)
    BY <1>1, <1>2 DEF Objects
  <1> QED
    BY <1>3 DEF Later

(* An object changes, but not what it is. *)
Replaced(h, o, r) == [h EXCEPT !.obj[o] = r]

LEMMA ReplaceObject ==
  ASSUME NEW h, HeapInv(h), NEW o \in Objects(h), NEW r, IsObject(r, Len(h.obj)),
         r.cls = h.obj[o].cls, r.refid = h.obj[o].refid,
         r.key = h.obj[o].key, r.name = h.obj[o].name,
         o = 1 => ~ r.error /\ r.parsed,
         h.obj[o].parsed => r.parsed /\ r.error = h.obj[o].error,
         r.cls \in {"Class", "File"} => Distinct(h, r.members),
         NEW g, g = Replaced(h, o, r)
  PROVE  /\ HeapInv(g) /\ Later(h, g)
         /\ Len(g.obj) = Len(h.obj) /\ g.refs = h.refs
         /\ \A p \in Objects(h) : g.obj[p] = IF p = o THEN r ELSE h.obj[p]
  <1>1. h = [obj |-> h.obj, refs |-> h.refs] /\ IsSequence(h.obj)
    BY DEF HeapInv, ObjectsInv
  <1>2. PICK s : s = [h.obj EXCEPT ![o] = r]
    OBVIOUS
  <1>3. g.obj = s /\ g.refs = h.refs /\ g = [obj |-> g.obj, refs |-> g.refs]
    BY <1>1, <1>2 DEF Replaced
  <1>4. /\ IsSequence(g.obj) /\ Len(g.obj) = Len(h.obj)
        /\ \A p \in Objects(h) : g.obj[p] = IF p = o THEN r ELSE h.obj[p]
    <2>1. o \in 1 .. Len(h.obj)
      BY DEF Objects
    <2>2. /\ IsSequence(s) /\ Len(s) = Len(h.obj)
          /\ \A p \in 1 .. Len(h.obj) : s[p] = IF p = o THEN r ELSE h.obj[p]
      <3>1. PICK t : t = h.obj
        OBVIOUS
      <3>2. IsSequence(t) /\ o \in 1 .. Len(t) /\ s = [t EXCEPT ![o] = r]
        BY <1>1, <1>2, <2>1, <3>1
      <3>3. /\ IsSequence([t EXCEPT ![o] = r]) /\ Len([t EXCEPT ![o] = r]) = Len(t)
            /\ \A p \in 1 .. Len(t) : [t EXCEPT ![o] = r][p] = IF p = o THEN r ELSE t[p]
        BY <3>2, ReplaceOne, ZenonT(30)
      <3> QED
        BY <3>1, <3>2, <3>3
    <2> QED
      BY <1>3, <2>2 DEF Objects
  <1>5. Objects(g) = Objects(h)
    BY <1>4 DEF Objects
  <1>6. /\ \A p \in Objects(h) :
             /\ g.obj[p].cls = h.obj[p].cls /\ g.obj[p].refid = h.obj[p].refid
             /\ g.obj[p].key = h.obj[p].key /\ g.obj[p].name = h.obj[p].name
             /\ h.obj[p].parsed => g.obj[p].parsed /\ g.obj[p].error = h.obj[p].error
    BY <1>4
  <1>7. ObjectsInv(g)
    <2>1. \A p \in Objects(g) : IsObject(g.obj[p], Len(g.obj))
      BY <1>4, <1>5 DEF HeapInv, ObjectsInv
    <2> QED
      BY <1>3, <1>4, <2>1 DEF ObjectsInv
  <1>8. IndexInv(g)
    <2>1. IndexInv(h)
      BY DEF HeapInv
    <2>2. g.obj[1].error = FALSE /\ (~ g.obj[1].parsed => ~ h.obj[1].parsed)
      BY <1>4, <2>1 DEF IndexInv
    <2> QED
      BY <1>4, <1>5, <1>6, <2>1, <2>2 DEF IndexInv
  <1>9. RefsInv(g)
    BY <1>3, <1>5, <1>6 DEF HeapInv, RefsInv
  <1>10. MembersInv(g)
    <2> SUFFICES ASSUME NEW p \in Objects(h), h.obj[p].cls \in {"Class", "File"}
                 PROVE  Distinct(g, g.obj[p].members)
      BY <1>5, <1>6 DEF MembersInv
    <2>1. PICK ms : ms = g.obj[p].members
      OBVIOUS
    <2>2. Distinct(h, ms) /\ ms \in Seq(0 .. Len(h.obj))
      BY <1>4, <2>1 DEF HeapInv, MembersInv, ObjectsInv, IsObject
    <2>3. \A i \in 1 .. Len(ms) : ms[i] # None => ms[i] \in Objects(h)
      <3>1. \A i \in 1 .. Len(ms) : ms[i] \in 0 .. Len(h.obj)
        BY <2>2, ElementOfSeq
      <3> QED
        BY <3>1 DEF Objects, None
    <2>4. ASSUME NEW i \in 1 .. Len(ms), NEW j \in 1 .. Len(ms), i # j,
                 ms[i] # None, ms[j] # None
          PROVE  g.obj[ms[i]].name # g.obj[ms[j]].name
      <3>1. h.obj[ms[i]].name # h.obj[ms[j]].name
        BY <2>2, <2>4 DEF Distinct
      <3> QED
        BY <1>6, <2>3, <2>4, <3>1
    <2>5. Distinct(g, ms)
      BY <2>4 DEF Distinct
    <2> QED
      BY <2>1, <2>5
  <1>11. Later(h, g)
    <2>1. Len(h.obj) <= Len(g.obj)
      BY <1>1, <1>4 DEF IsSequence
    <2> QED
      BY <1>6, <2>1 DEF Later
  <1> QED
    BY <1>3, <1>4, <1>7, <1>8, <1>9, <1>10, <1>11 DEF HeapInv

LEMMA SeqIsLarger ==
  ASSUME NEW S, NEW T, \A m : m \in S => m \in T, NEW s \in Seq(S)
  PROVE  s \in Seq(T)
  <1>1. s = [i \in 1 .. Len(s) |-> s[i]] /\ Len(s) \in Nat
    BY LenProperties
  <1>2. \A i \in 1 .. Len(s) : s[i] \in T
    BY ElementOfSeq
  <1>3. [i \in 1 .. Len(s) |-> s[i]] \in Seq(T)
    BY <1>1, <1>2, IsASeq
  <1> QED
    BY <1>1, <1>3

(* An object is made, and known by its refid, if it has one. *)
LEMMA NewInstance ==
  ASSUME NEW h, HeapInv(h), h.obj[1].parsed,
         NEW cls \in Classes, NEW refid, NEW key, NEW name,
         refid # NoRefid => refid \notin DOMAIN h.refs,
         cls \in OfFiles => refid \in DOMAIN xml.files,
         NEW g, g = Instance(h, NewObject(cls, refid, key, name))
  PROVE  /\ HeapInv(g) /\ Later(h, g)
         /\ Len(g.obj) = Len(h.obj) + 1 /\ Newest(g) \in Objects(g) /\ Newest(g) \notin Objects(h)
         /\ Newest(g) # 1
         /\ g.obj[Newest(g)] = NewObject(cls, refid, key, name)
         /\ \A p \in Objects(h) : p \in Objects(g) /\ g.obj[p] = h.obj[p]
         /\ \A p \in Objects(g) : p \in Objects(h) \/ p = Newest(g)
         /\ \A r : r \in DOMAIN g.refs => r \in DOMAIN h.refs \/ (r = refid /\ r # NoRefid)
  <1>1. h = [obj |-> h.obj, refs |-> h.refs] /\ IsSequence(h.obj)
    BY DEF HeapInv, ObjectsInv
  <1>2. PICK n \in Nat : n = Len(h.obj)
    BY <1>1 DEF IsSequence
  <1>3. PICK s : s = Append(h.obj, NewObject(cls, refid, key, name))
    OBVIOUS
  <1>4. PICK r : r = NewObject(cls, refid, key, name)
    OBVIOUS
  <1>5. /\ r.cls = cls /\ r.refid = refid /\ r.key = key /\ r.name = name /\ r.parsed = FALSE
        /\ r.error = FALSE /\ r.members = <<>> /\ r.cats = [c \in Categories |-> Unset]
        /\ r = [cls |-> r.cls, refid |-> r.refid, key |-> r.key, name |-> r.name, parsed |-> r.parsed,
                error |-> r.error, members |-> r.members, cats |-> r.cats]
    BY <1>4 DEF NewObject
  <1>6. /\ IsSequence(s) /\ Len(s) = n + 1 /\ s[n + 1] = r
        /\ \A i \in 1 .. n : s[i] = h.obj[i]
    BY <1>1, <1>2, <1>3, <1>4, AppendAnything
  <1>7. g.obj = s /\ g = [obj |-> g.obj, refs |-> g.refs]
    BY <1>3 DEF Instance
  <1>8. /\ Len(g.obj) = n + 1 /\ Objects(g) = 1 .. n + 1 /\ Objects(h) = 1 .. n
        /\ Newest(g) = n + 1
    BY <1>2, <1>6, <1>7 DEF Objects, Newest
  <1>9. n >= 1 /\ (\A p \in 1 .. n : p \in 1 .. n + 1 /\ p # n + 1)
        /\ n + 1 # 1 /\ n + 1 \in 1 .. n + 1
        /\ \A p \in 1 .. n + 1 : p \in 1 .. n \/ p = n + 1
    BY <1>8 DEF HeapInv, IndexInv
  <1>10. \A p \in 1 .. n : g.obj[p] = h.obj[p]
    BY <1>6, <1>7
  <1>11. g.obj[n + 1] = r
    BY <1>6, <1>7
  <1>12. Later(h, g)
    <2>1. n <= n + 1
      OBVIOUS
    <2> QED
      BY <1>2, <1>8, <1>10, <2>1 DEF Later
  <1>13. ObjectsInv(g)
    <2>1. \A m : m \in 0 .. n => m \in 0 .. n + 1
      OBVIOUS
    <2>2. \A m : m \in 1 .. n => m \in 1 .. n + 1
      OBVIOUS
    <2>3. ASSUME NEW x, IsObject(x, n) PROVE IsObject(x, n + 1)
      <3>1. x.members \in Seq(0 .. n + 1)
        BY <2>1, <2>3, SeqIsLarger DEF IsObject
      <3>2. \A c \in Categories : x.cats[c] = Unset \/ x.cats[c] \in Seq(1 .. n + 1)
        BY <2>2, <2>3, SeqIsLarger DEF IsObject
      <3> QED
        BY <2>3, <3>1, <3>2 DEF IsObject
    <2>4. IsObject(r, n + 1)
      BY <1>5, EmptySeq DEF IsObject
    <2>5. \A p \in 1 .. n : IsObject(h.obj[p], n)
      BY <1>2, <1>8 DEF HeapInv, ObjectsInv
    <2>6. \A p \in 1 .. n + 1 : IsObject(g.obj[p], n + 1)
      BY <1>9, <1>10, <1>11, <2>3, <2>4, <2>5
    <2> QED
      BY <1>6, <1>7, <1>8, <2>6 DEF ObjectsInv
  <1>14. IndexInv(g)
    <2>1. IndexInv(h) /\ g.obj[1] = h.obj[1] /\ 1 \in 1 .. n
      BY <1>8, <1>10 DEF HeapInv, IndexInv
    <2>2. g.obj[n + 1].cls \in Classes
      BY <1>5, <1>11
    <2> QED
      BY <1>8, <1>9, <1>10, <2>1, <2>2 DEF IndexInv
  <1>15. /\ \A q : q \in DOMAIN g.refs <=> q \in DOMAIN h.refs \/ (q = refid /\ q # NoRefid)
         /\ \A q \in DOMAIN h.refs : (q = refid /\ q # NoRefid) \/ g.refs[q] = h.refs[q]
         /\ refid # NoRefid => g.refs[refid] = n + 1
    <2>1. g.refs = IF refid = NoRefid THEN h.refs
                   ELSE [q \in DOMAIN h.refs \cup {refid} |-> IF q = refid THEN n + 1 ELSE h.refs[q]]
      BY <1>2, <1>4, <1>5 DEF Instance
    <2>2. NoRefid \notin DOMAIN h.refs
      BY DEF HeapInv, RefsInv
    <2>3. CASE refid = NoRefid
      BY <2>1, <2>2, <2>3
    <2>4. CASE refid # NoRefid
      <3>1. g.refs = [q \in DOMAIN h.refs \cup {refid} |-> IF q = refid THEN n + 1 ELSE h.refs[q]]
        BY <2>1, <2>4
      <3> QED
        BY <2>2, <2>4, <3>1
    <2> QED
      BY <2>3, <2>4
  <1>16. RefsInv(g)
    <2>1. RefsInv(h)
      BY DEF HeapInv
    <2>2. ASSUME NEW p \in 1 .. n + 1, g.obj[p].refid # NoRefid
          PROVE  g.obj[p].refid \in DOMAIN g.refs /\ g.refs[g.obj[p].refid] = p
      <3>1. CASE p = n + 1
        BY <1>5, <1>11, <1>15, <2>2, <3>1
      <3>2. CASE p \in 1 .. n
        <4>1. h.obj[p].refid \in DOMAIN h.refs /\ h.refs[h.obj[p].refid] = p
          BY <1>8, <1>10, <2>1, <2>2, <3>2 DEF RefsInv
        <4>2. h.obj[p].refid # refid
          BY <1>10, <2>2, <3>2, <4>1
        <4> QED
          BY <1>10, <1>15, <3>2, <4>1, <4>2
      <3> QED
        BY <1>9, <3>1, <3>2
    <2>3. ASSUME NEW q \in DOMAIN g.refs
          PROVE  q # NoRefid /\ g.refs[q] \in 1 .. n + 1 /\ g.obj[g.refs[q]].refid = q
      <3>1. CASE q = refid /\ q # NoRefid
        BY <1>5, <1>9, <1>11, <1>15, <3>1
      <3>2. CASE q \in DOMAIN h.refs /\ q # refid
        <4>1. q # NoRefid /\ h.refs[q] \in 1 .. n /\ h.obj[h.refs[q]].refid = q
          BY <1>8, <2>1, <3>2 DEF RefsInv
        <4>2. g.refs[q] = h.refs[q]
          BY <1>15, <3>2
        <4> QED
          BY <1>9, <1>10, <4>1, <4>2
      <3> QED
        BY <1>15, <2>1, <3>1, <3>2 DEF RefsInv
    <2> QED
      BY <1>8, <2>2, <2>3 DEF RefsInv
  <1>17. MembersInv(g)
    <2> SUFFICES ASSUME NEW p \in 1 .. n + 1, g.obj[p].cls \in {"Class", "File"}
                 PROVE  Distinct(g, g.obj[p].members)
      BY <1>8 DEF MembersInv
    <2>1. CASE p = n + 1
      <3>1. Len(g.obj[p].members) = 0
        BY <1>5, <1>11, <2>1, EmptySeq
      <3>2. 1 .. 0 = {}
        OBVIOUS
      <3> QED
        BY <3>1, <3>2 DEF Distinct
    <2>2. CASE p \in 1 .. n
      <3>1. PICK ms : ms = h.obj[p].members
        OBVIOUS
      <3>2. Distinct(h, ms) /\ ms \in Seq(0 .. n)
        BY <1>2, <1>8, <1>10, <2>2, <3>1 DEF HeapInv, MembersInv, ObjectsInv, IsObject
      <3>3. \A i \in 1 .. Len(ms) : ms[i] # None => ms[i] \in 1 .. n
        <4>1. \A i \in 1 .. Len(ms) : ms[i] \in 0 .. n
          BY <3>2, ElementOfSeq
        <4> QED
          BY <4>1 DEF None
      <3>4. ASSUME NEW i \in 1 .. Len(ms), NEW j \in 1 .. Len(ms), i # j,
                   ms[i] # None, ms[j] # None
            PROVE  g.obj[ms[i]].name # g.obj[ms[j]].name
        <4>1. h.obj[ms[i]].name # h.obj[ms[j]].name
          BY <3>2, <3>4 DEF Distinct
        <4> QED
          BY <1>10, <3>3, <3>4, <4>1
      <3>5. Distinct(g, ms)
        BY <3>4 DEF Distinct
      <3> QED
        BY <1>10, <2>2, <3>1, <3>5
    <2> QED
      BY <1>9, <2>1, <2>2
  <1> QED
    BY <1>2, <1>4, <1>8, <1>9, <1>10, <1>11, <1>12, <1>13, <1>14, <1>15, <1>16, <1>17 DEF HeapInv

(* Objects are added, and none is changed. *)
Makes(h, g) ==
  /\ HeapInv(g) /\ Later(h, g)
  /\ \A p \in Objects(h) : p \in Objects(g) /\ g.obj[p] = h.obj[p]
  /\ \A p \in Objects(g) : p \in Objects(h) \/ ~ g.obj[p].parsed

LEMMA MakesNothing ==
  ASSUME NEW h, HeapInv(h)
  PROVE  Makes(h, h)
  BY LaterIsReflexive DEF Makes

LEMMA KnownRefid ==
  ASSUME NEW h, HeapInv(h), NEW r \in DOMAIN h.refs
  PROVE  h.refs[r] \in Objects(h) /\ h.refs[r] # 1 /\ h.refs[r] # None
  <1>1. /\ r # NoRefid /\ h.refs[r] \in Objects(h) /\ h.obj[h.refs[r]].refid = r
        /\ h.obj[1].refid = NoRefid
    BY DEF HeapInv, RefsInv, IndexInv
  <1>2. 0 \notin 1 .. Len(h.obj)
    OBVIOUS
  <1> QED
    BY <1>1, <1>2 DEF Objects, None

LEMMA MadeAnew ==
  ASSUME NEW h, HeapInv(h), h.obj[1].parsed,
         NEW cls \in Classes, NEW refid, NEW key, NEW name,
         refid # NoRefid => refid \notin DOMAIN h.refs,
         cls \in OfFiles => refid \in DOMAIN xml.files,
         NEW g, g = Instance(h, NewObject(cls, refid, key, name))
  PROVE  /\ Makes(h, g)
         /\ Newest(g) \in Objects(g) /\ Newest(g) \notin Objects(h) /\ Newest(g) # 1 /\ Newest(g) # None
         /\ g.obj[Newest(g)].cls = cls /\ g.obj[Newest(g)].name = name /\ ~ g.obj[Newest(g)].parsed
         /\ \A r : r \in DOMAIN g.refs => r \in DOMAIN h.refs \/ (r = refid /\ r # NoRefid)
  <1>1. /\ HeapInv(g) /\ Later(h, g)
        /\ Newest(g) \in Objects(g) /\ Newest(g) \notin Objects(h) /\ Newest(g) # 1
        /\ g.obj[Newest(g)] = NewObject(cls, refid, key, name)
        /\ \A p \in Objects(h) : p \in Objects(g) /\ g.obj[p] = h.obj[p]
        /\ \A p \in Objects(g) : p \in Objects(h) \/ p = Newest(g)
        /\ \A r : r \in DOMAIN g.refs => r \in DOMAIN h.refs \/ (r = refid /\ r # NoRefid)
    BY NewInstance
  <1>2. /\ g.obj[Newest(g)].cls = cls /\ g.obj[Newest(g)].name = name
        /\ g.obj[Newest(g)].parsed = FALSE
    BY <1>1 DEF NewObject
  <1>3. Newest(g) # None
    <2>1. 0 \notin 1 .. Len(g.obj)
      OBVIOUS
    <2> QED
      BY <1>1, <2>1 DEF Objects, None
  <1> QED
    BY <1>1, <1>2, <1>3 DEF Makes

(* from_refid and convert_mem. *)
LEMMA FromRefidMakes ==
  ASSUME NEW h, HeapInv(h), h.obj[1].parsed,
         NEW cls \in Classes, NEW refid \in DOMAIN xml.files, NoRefid \notin DOMAIN xml.files,
         NEW out, out = FromRefid(h, cls, refid)
  PROVE  /\ out.exc = "none" /\ Makes(h, out.heap)
         /\ out.value \in Objects(out.heap)
  <1>1. CASE refid \in DOMAIN h.refs
    <2>1. out.exc = "none" /\ out.heap = h /\ out.value = h.refs[refid]
      BY <1>1 DEF FromRefid, Return
    <2> QED
      BY <1>1, <2>1, KnownRefid, MakesNothing
  <1>2. CASE refid \notin DOMAIN h.refs
    <2>1. PICK g : g = Instance(h, NewObject(cls, refid, refid, NoName))
      OBVIOUS
    <2>2. out.exc = "none" /\ out.heap = g /\ out.value = Newest(g)
      BY <1>2, <2>1 DEF FromRefid, Return
    <2> QED
      BY <1>2, <2>1, <2>2, MadeAnew
  <1> QED
    BY <1>1, <1>2

LEMMA ConvertMemMakes ==
  ASSUME NEW h, HeapInv(h), h.obj[1].parsed,
         NEW mem, ClassOf(mem.kind) \in OfFiles => mem.refid \in DOMAIN xml.files,
         NEW out, out = ConvertMem(h, mem)
  PROVE  /\ out.exc = "none" /\ Makes(h, out.heap)
         /\ out.value = None \/ out.value \in Objects(out.heap)
         /\ out.value = None <=> ClassOf(mem.kind) = "none"
         /\ out.value # 1
         /\ mem.refid \notin DOMAIN h.refs /\ out.value # None =>
              /\ out.value \notin Objects(h)
              /\ out.heap.obj[out.value].cls = ClassOf(mem.kind)
              /\ out.heap.obj[out.value].name = mem.name
              /\ ~ out.heap.obj[out.value].parsed
         /\ \A r : r \in DOMAIN out.heap.refs => r \in DOMAIN h.refs \/ (r = mem.refid /\ r # NoRefid)
  <1>1. ClassOf(mem.kind) = "none" \/ ClassOf(mem.kind) \in Classes
    BY DEF ClassOf, Classes
  <1>2. CASE ClassOf(mem.kind) = "none"
    <2>1. out.exc = "none" /\ out.heap = h /\ out.value = None
      BY <1>2 DEF ConvertMem, Return
    <2> QED
      BY <1>2, <2>1, MakesNothing DEF None
  <1>3. CASE ClassOf(mem.kind) \in Classes /\ mem.refid # NoRefid /\ mem.refid \in DOMAIN h.refs
    <2>1. ClassOf(mem.kind) # "none"
      BY <1>3 DEF Classes
    <2>2. out.exc = "none" /\ out.heap = h /\ out.value = h.refs[mem.refid]
      BY <1>3, <2>1 DEF ConvertMem, FromParseData, Return
    <2> QED
      BY <1>3, <2>1, <2>2, KnownRefid, MakesNothing
  <1>4. CASE ClassOf(mem.kind) \in Classes /\ (mem.refid # NoRefid => mem.refid \notin DOMAIN h.refs)
    <2>1. ClassOf(mem.kind) # "none"
      BY <1>4 DEF Classes
    <2>2. PICK g : g = Instance(h, NewObject(ClassOf(mem.kind), mem.refid, mem.key, mem.name))
      OBVIOUS
    <2>3. out.exc = "none" /\ out.heap = g /\ out.value = Newest(g)
      BY <1>4, <2>1, <2>2 DEF ConvertMem, FromParseData, Return
    <2> QED
      BY <1>4, <2>1, <2>2, <2>3, MadeAnew
  <1> QED
    BY <1>1, <1>2, <1>3, <1>4

(* A member is added to an object that is being parsed. *)
LEMMA WithMemberAdds ==
  ASSUME NEW h, HeapInv(h), NEW o \in Objects(h), h.obj[o].parsed, NEW m \in 0 .. Len(h.obj),
         h.obj[o].cls \in {"Class", "File"} => Distinct(h, Append(h.obj[o].members, m)),
         NEW g, g = WithMember(h, o, m)
  PROVE  /\ HeapInv(g) /\ Later(h, g)
         /\ Len(g.obj) = Len(h.obj) /\ g.refs = h.refs
         /\ \A p \in Objects(h) : /\ g.obj[p].parsed = h.obj[p].parsed
                                  /\ g.obj[p].cls = h.obj[p].cls /\ g.obj[p].name = h.obj[p].name
                                  /\ p # o => g.obj[p] = h.obj[p]
         /\ g.obj[o].members = Append(h.obj[o].members, m)
  <1>1. PICK q : q = h.obj[o]
    OBVIOUS
  <1>2. IsObject(q, Len(h.obj))
    BY <1>1 DEF HeapInv, ObjectsInv
  <1>3. PICK ms : ms = Append(q.members, m)
    OBVIOUS
  <1>4. PICK r : r = [q EXCEPT !.members = ms]
    OBVIOUS
  <1>5. /\ r.cls = q.cls /\ r.refid = q.refid /\ r.key = q.key /\ r.name = q.name
        /\ r.parsed = q.parsed /\ r.error = q.error /\ r.members = ms /\ r.cats = q.cats
        /\ r = [cls |-> r.cls, refid |-> r.refid, key |-> r.key, name |-> r.name, parsed |-> r.parsed,
                error |-> r.error, members |-> r.members, cats |-> r.cats]
    BY <1>2, <1>4 DEF IsObject
  <1>6. ms \in Seq(0 .. Len(h.obj))
    BY <1>2, <1>3, AppendProperties DEF IsObject
  <1>7. IsObject(r, Len(h.obj))
    BY <1>1, <1>2, <1>5, <1>6 DEF IsObject
  <1>8. g = Replaced(h, o, r)
    BY <1>1, <1>3, <1>4 DEF WithMember, Replaced
  <1>9. o = 1 => ~ r.error /\ r.parsed
    BY <1>1, <1>5 DEF HeapInv, IndexInv
  <1>10. /\ HeapInv(g) /\ Later(h, g)
         /\ Len(g.obj) = Len(h.obj) /\ g.refs = h.refs
         /\ \A p \in Objects(h) : g.obj[p] = IF p = o THEN r ELSE h.obj[p]
    <2>1. /\ r.cls = h.obj[o].cls /\ r.refid = h.obj[o].refid
          /\ r.key = h.obj[o].key /\ r.name = h.obj[o].name
          /\ h.obj[o].parsed => r.parsed /\ r.error = h.obj[o].error
          /\ r.cls \in {"Class", "File"} => Distinct(h, r.members)
      BY <1>1, <1>3, <1>5
    <2> QED
      BY <1>7, <1>8, <1>9, <2>1, ReplaceObject
  <1> QED
    BY <1>1, <1>3, <1>5, <1>10

--------------------------------------------------------------------------------
(* Folds over sequences.                                                   *)

LEMMA MaxOfSome ==
  ASSUME NEW n \in Nat, NEW s \in SUBSET (1 .. n), s # {}
  PROVE  Max(s) \in s /\ \A y \in s : Max(s) >= y
  <1>1. PICK D : D = {n - x : x \in s}
    OBVIOUS
  <1>2. D \in SUBSET Nat /\ D # {}
    <2>1. \A x \in 1 .. n : n - x \in Nat
      OBVIOUS
    <2> QED
      BY <1>1, <2>1
  <1>3. PICK m \in D : \A k \in D : m <= k
    BY <1>2, LeastNatural
  <1>4. PICK x \in s : m = n - x
    BY <1>1
  <1>5. ASSUME NEW y \in s PROVE x >= y
    <2>1. n - y \in D
      BY <1>1
    <2> QED
      BY <1>3, <1>4, <2>1
  <1>6. \E z \in s : \A y \in s : z >= y
    BY <1>5
  <1> QED
    BY <1>6 DEF Max

LEMMA MaxOfAll ==
  ASSUME NEW n \in Nat, NEW s \in SUBSET (1 .. n), NEW m \in s, \A y \in s : m >= y
  PROVE  Max(s) = m
  <1>1. Max(s) \in s /\ Max(s) >= m
    BY MaxOfSome
  <1>2. m >= Max(s)
    BY <1>1
  <1>3. m \in Nat /\ Max(s) \in Nat
    <2>1. \A x \in 1 .. n : x \in Nat
      OBVIOUS
    <2> QED
      BY <1>1, <2>1
  <1> QED
    BY <1>1, <1>2, <1>3

(* What each fold of DoxyXml adds, and its folds. *)
FoldStep(fold, o, what, x, y) ==
  CASE fold = "memberdefs" -> AddMemberdef(x, o, what, y)
    [] fold = "refs" -> AddRef(x, o, what, y)
    [] fold = "compounds" -> AddCompound(x, y)
    [] fold = "names" -> AskNameOf(x, y)
    [] fold = "blocks" -> AskBlock(x, y)

AllMemberdefs(h, o, defs) ==
  FoldLeft(LAMBDA g, i : AddMemberdef(g, o, defs, i), h, [i \in DOMAIN defs |-> i])
AllRefs(h, o, cls, refs) == FoldLeft(LAMBDA g, r : AddRef(g, o, cls, r), h, refs)
AllCompounds(out, index) == FoldLeft(AddCompound, out, index)
AllNames(out, ms) == FoldLeft(AskNameOf, out, ms)
AllBlocks(out, ms) == FoldLeft(AskBlock, out, ms)

(* A function by which a fold is defined, and that there is one. *)
IsFold(f, fold, o, what, base, seq, n) ==
  /\ f = [s \in SUBSET (1 .. n) |-> f[s]]
  /\ \A s \in SUBSET (1 .. n) :
       f[s] = IF s = {} THEN base ELSE FoldStep(fold, o, what, f[s \ {Max(s)}], seq[Max(s)])

LEMMA FoldExists ==
  ASSUME NEW fold, NEW o, NEW what, NEW base, NEW seq, NEW n \in Nat
  PROVE  \E f : IsFold(f, fold, o, what, base, seq, n)
  <1> DEFINE Is(f, m) == IsFold(f, fold, o, what, base, seq, m)
             I == {m \in Nat : \E f : Is(f, m)}
  <1>1. 0 \in I
    <2>1. 1 .. 0 = {} /\ \A s \in SUBSET {} : s = {}
      OBVIOUS
    <2>2. PICK f : f = [s \in SUBSET (1 .. 0) |-> base]
      OBVIOUS
    <2>3. Is(f, 0)
      BY <2>1, <2>2 DEF IsFold
    <2> QED
      BY <2>3
  <1>2. ASSUME NEW m \in Nat, NEW f, Is(f, m) PROVE \E g : Is(g, m + 1)
    <2>1. PICK g : g = [s \in SUBSET (1 .. m + 1) |->
                          IF s = {} THEN base
                          ELSE IF m + 1 \in s THEN FoldStep(fold, o, what, f[s \ {m + 1}], seq[m + 1])
                          ELSE f[s]]
      OBVIOUS
    <2>2. \A s \in SUBSET (1 .. m) : s \in SUBSET (1 .. m + 1) /\ m + 1 \notin s
      OBVIOUS
    <2>3. \A s \in SUBSET (1 .. m) : f[s] = IF s = {} THEN base
                                            ELSE FoldStep(fold, o, what, f[s \ {Max(s)}], seq[Max(s)])
      BY <1>2 DEF IsFold
    <2>4. \A s \in SUBSET (1 .. m) : g[s] = f[s]
      <3> TAKE s \in SUBSET (1 .. m)
      <3>1. s \in SUBSET (1 .. m + 1) /\ m + 1 \notin s
        BY <2>2
      <3>2. g[s] = IF s = {} THEN base ELSE f[s]
        BY <2>1, <3>1
      <3> QED
        BY <2>3, <3>2
    <2>5. ASSUME NEW s \in SUBSET (1 .. m + 1)
          PROVE  g[s] = IF s = {} THEN base
                        ELSE FoldStep(fold, o, what, g[s \ {Max(s)}], seq[Max(s)])
      <3>1. CASE s = {}
        BY <2>1, <3>1
      <3>2. CASE m + 1 \in s
        <4>1. \A y \in s : m + 1 >= y
          OBVIOUS
        <4>2. Max(s) = m + 1
          <5>1. m + 1 \in Nat
            OBVIOUS
          <5> QED
            BY <3>2, <4>1, <5>1, MaxOfAll
        <4>3. s \ {m + 1} \in SUBSET (1 .. m)
          <5>1. \A y \in 1 .. m + 1 : y = m + 1 \/ y \in 1 .. m
            OBVIOUS
          <5> QED
            BY <5>1
        <4>4. g[s] = FoldStep(fold, o, what, f[s \ {m + 1}], seq[m + 1])
          BY <2>1, <3>2
        <4> QED
          BY <2>4, <3>2, <4>2, <4>3, <4>4
      <3>3. CASE s # {} /\ m + 1 \notin s
        <4>1. s \in SUBSET (1 .. m)
          <5>1. \A y \in 1 .. m + 1 : y = m + 1 \/ y \in 1 .. m
            OBVIOUS
          <5> QED
            BY <3>3, <5>1
        <4>2. s \ {Max(s)} \in SUBSET (1 .. m)
          BY <4>1
        <4>3. f[s] = FoldStep(fold, o, what, f[s \ {Max(s)}], seq[Max(s)])
          BY <2>3, <3>3, <4>1
        <4> QED
          BY <2>4, <3>3, <4>1, <4>2, <4>3
      <3> QED
        BY <3>1, <3>2, <3>3
    <2>6. Is(g, m + 1)
      <3>1. g = [s \in SUBSET (1 .. m + 1) |-> g[s]]
        BY <2>1
      <3> QED
        BY <2>5, <3>1 DEF IsFold
    <2> QED
      BY <2>6
  <1> HIDE DEF Is
  <1>3. I = Nat
    <2>1. \A m \in I : m + 1 \in I
      BY <1>2
    <2> HIDE DEF I
    <2>2. I \in SUBSET Nat
      BY DEF I
    <2> QED
      BY <1>1, <2>1, <2>2, AllNaturals
  <1>4. \E f : Is(f, n)
    <2> HIDE DEF I
    <2>1. n \in I
      BY <1>3
    <2> QED
      BY <2>1 DEF I
  <1> QED
    BY <1>4 DEF Is

(* Such a function goes through the sequence. *)
LEMMA FoldGoes ==
  ASSUME NEW n \in Nat, NEW k \in 1 .. n
  PROVE  /\ 1 .. k \in SUBSET (1 .. n) /\ 1 .. k # {} /\ Max(1 .. k) = k
         /\ (1 .. k) \ {k} = 1 .. k - 1
  <1>1. 1 .. k \in SUBSET (1 .. n) /\ k \in 1 .. k /\ \A y \in 1 .. k : k >= y
    OBVIOUS
  <1>2. Max(1 .. k) = k
    BY <1>1, MaxOfAll
  <1> QED
    BY <1>1, <1>2

(* The values that a fold goes through. *)
IsRun(W, fold, o, what, base, seq, n) ==
  /\ W[0] = base
  /\ \A k \in 1 .. n : W[k] = FoldStep(fold, o, what, W[k - 1], seq[k])

LEMMA FoldRuns ==
  ASSUME NEW fold, NEW o, NEW what, NEW base, NEW seq, NEW n \in Nat,
         NEW f, IsFold(f, fold, o, what, base, seq, n)
  PROVE  \E W : IsRun(W, fold, o, what, base, seq, n) /\ W[n] = f[1 .. n]
  <1>1. PICK W : W = [k \in 0 .. n |-> f[1 .. k]]
    OBVIOUS
  <1>2. W[0] = base
    <2>1. 0 \in 0 .. n /\ 1 .. 0 = {} /\ {} \in SUBSET (1 .. n)
      OBVIOUS
    <2>2. f[{}] = base
      BY <2>1 DEF IsFold
    <2> QED
      BY <1>1, <2>1, <2>2
  <1>3. W[n] = f[1 .. n]
    BY <1>1
  <1>4. ASSUME NEW k \in 1 .. n PROVE W[k] = FoldStep(fold, o, what, W[k - 1], seq[k])
    <2>1. /\ 1 .. k \in SUBSET (1 .. n) /\ 1 .. k # {} /\ Max(1 .. k) = k
          /\ (1 .. k) \ {k} = 1 .. k - 1
      BY FoldGoes
    <2>2. k \in 0 .. n /\ k - 1 \in 0 .. n
      OBVIOUS
    <2>3. f[1 .. k] = FoldStep(fold, o, what, f[1 .. k - 1], seq[k])
      BY <2>1 DEF IsFold
    <2> QED
      BY <1>1, <2>2, <2>3
  <1> QED
    BY <1>2, <1>3, <1>4 DEF IsRun

(* What the folds go through. *)
MemberdefsGo(W, h, o, defs, n) ==
  /\ W[0] = h /\ W[n] = AllMemberdefs(h, o, defs)
  /\ \A k \in 1 .. n : W[k] = AddMemberdef(W[k - 1], o, defs, k)

LEMMA MemberdefsRun ==
  ASSUME NEW h, NEW o, NEW defs, NEW n \in Nat, DOMAIN defs = 1 .. n
  PROVE  \E W : MemberdefsGo(W, h, o, defs, n)
  <1> DEFINE seq == [i \in DOMAIN defs |-> i]
             Is(f) == f = [s \in SUBSET DOMAIN seq |->
                             IF s = {} THEN h ELSE AddMemberdef(f[s \ {Max(s)}], o, defs, seq[Max(s)])]
             G == CHOOSE f : Is(f)
  <1>1. DOMAIN seq = 1 .. n /\ \A k \in 1 .. n : seq[k] = k
    OBVIOUS
  <1>2. AllMemberdefs(h, o, defs) = G[DOMAIN seq]
    BY DEF AllMemberdefs, FoldLeft, MapThenFoldSet
  <1> HIDE DEF seq
  <1>3. PICK fold : fold = "memberdefs"
    OBVIOUS
  <1>4. \A x, y : FoldStep(fold, o, defs, x, y) = AddMemberdef(x, o, defs, y)
    BY <1>3 DEF FoldStep
  <1>5. \A f : IsFold(f, fold, o, defs, h, seq, n) <=> Is(f)
    <2> TAKE f
    <2>1. ASSUME IsFold(f, fold, o, defs, h, seq, n) PROVE Is(f)
      BY <1>1, <1>4, <2>1 DEF IsFold
    <2>2. ASSUME Is(f) PROVE IsFold(f, fold, o, defs, h, seq, n)
      <3>1. \A s \in SUBSET (1 .. n) : f[s] = IF s = {} THEN h ELSE AddMemberdef(f[s \ {Max(s)}], o, defs, seq[Max(s)])
        BY <1>1, <2>2
      <3>2. f = [s \in SUBSET (1 .. n) |-> f[s]]
        BY <1>1, <2>2
      <3>3. ASSUME NEW s \in SUBSET (1 .. n)
            PROVE  f[s] = IF s = {} THEN h
                          ELSE FoldStep(fold, o, defs, f[s \ {Max(s)}], seq[Max(s)])
        <4>1. FoldStep(fold, o, defs, f[s \ {Max(s)}], seq[Max(s)]) = AddMemberdef(f[s \ {Max(s)}], o, defs, seq[Max(s)])
          BY <1>4
        <4> QED
          BY <3>1, <4>1
      <3> QED
        BY <3>2, <3>3 DEF IsFold
    <2> QED
      BY <2>1, <2>2
  <1>6. \E f : Is(f)
    BY <1>5, FoldExists
  <1>7. Is(G)
    BY <1>6
  <1> HIDE DEF G
  <1>8. IsFold(G, fold, o, defs, h, seq, n)
    BY <1>5, <1>7
  <1>9. PICK W : IsRun(W, fold, o, defs, h, seq, n) /\ W[n] = G[1 .. n]
    BY <1>8, FoldRuns
  <1>10. W[0] = h /\ \A k \in 1 .. n : W[k] = AddMemberdef(W[k - 1], o, defs, k)
    BY <1>1, <1>4, <1>9 DEF IsRun
  <1>11. W[n] = AllMemberdefs(h, o, defs)
    BY <1>1, <1>2, <1>9
  <1> QED
    BY <1>10, <1>11 DEF MemberdefsGo

RefsGo(W, h, o, cls, refs, n) ==
  /\ W[0] = h /\ W[n] = AllRefs(h, o, cls, refs)
  /\ \A k \in 1 .. n : W[k] = AddRef(W[k - 1], o, cls, refs[k])

LEMMA RefsRun ==
  ASSUME NEW h, NEW o, NEW cls, NEW refs, NEW n \in Nat, DOMAIN refs = 1 .. n
  PROVE  \E W : RefsGo(W, h, o, cls, refs, n)
  <1> DEFINE Is(f) == f = [s \in SUBSET DOMAIN refs |->
                             IF s = {} THEN h ELSE AddRef(f[s \ {Max(s)}], o, cls, refs[Max(s)])]
             G == CHOOSE f : Is(f)
  <1>1. DOMAIN refs = 1 .. n
    OBVIOUS
  <1>2. AllRefs(h, o, cls, refs) = G[DOMAIN refs]
    BY DEF AllRefs, FoldLeft, MapThenFoldSet
  <1>3. PICK fold : fold = "refs"
    OBVIOUS
  <1>4. \A x, y : FoldStep(fold, o, cls, x, y) = AddRef(x, o, cls, y)
    BY <1>3 DEF FoldStep
  <1>5. \A f : IsFold(f, fold, o, cls, h, refs, n) <=> Is(f)
    <2> TAKE f
    <2>1. ASSUME IsFold(f, fold, o, cls, h, refs, n) PROVE Is(f)
      BY <1>1, <1>4, <2>1 DEF IsFold
    <2>2. ASSUME Is(f) PROVE IsFold(f, fold, o, cls, h, refs, n)
      <3>1. \A s \in SUBSET (1 .. n) : f[s] = IF s = {} THEN h ELSE AddRef(f[s \ {Max(s)}], o, cls, refs[Max(s)])
        BY <1>1, <2>2
      <3>2. f = [s \in SUBSET (1 .. n) |-> f[s]]
        BY <1>1, <2>2
      <3>3. ASSUME NEW s \in SUBSET (1 .. n)
            PROVE  f[s] = IF s = {} THEN h
                          ELSE FoldStep(fold, o, cls, f[s \ {Max(s)}], refs[Max(s)])
        <4>1. FoldStep(fold, o, cls, f[s \ {Max(s)}], refs[Max(s)]) = AddRef(f[s \ {Max(s)}], o, cls, refs[Max(s)])
          BY <1>4
        <4> QED
          BY <3>1, <4>1
      <3> QED
        BY <3>2, <3>3 DEF IsFold
    <2> QED
      BY <2>1, <2>2
  <1>6. \E f : Is(f)
    BY <1>5, FoldExists
  <1>7. Is(G)
    BY <1>6
  <1> HIDE DEF G
  <1>8. IsFold(G, fold, o, cls, h, refs, n)
    BY <1>5, <1>7
  <1>9. PICK W : IsRun(W, fold, o, cls, h, refs, n) /\ W[n] = G[1 .. n]
    BY <1>8, FoldRuns
  <1>10. W[0] = h /\ \A k \in 1 .. n : W[k] = AddRef(W[k - 1], o, cls, refs[k])
    BY <1>1, <1>4, <1>9 DEF IsRun
  <1>11. W[n] = AllRefs(h, o, cls, refs)
    BY <1>1, <1>2, <1>9
  <1> QED
    BY <1>10, <1>11 DEF RefsGo

CompoundsGo(W, out, index, n) ==
  /\ W[0] = out /\ W[n] = AllCompounds(out, index)
  /\ \A k \in 1 .. n : W[k] = AddCompound(W[k - 1], index[k])

LEMMA CompoundsRun ==
  ASSUME NEW out, NEW index, NEW n \in Nat, DOMAIN index = 1 .. n
  PROVE  \E W : CompoundsGo(W, out, index, n)
  <1> DEFINE Is(f) == f = [s \in SUBSET DOMAIN index |->
                             IF s = {} THEN out ELSE AddCompound(f[s \ {Max(s)}], index[Max(s)])]
             G == CHOOSE f : Is(f)
  <1>1. DOMAIN index = 1 .. n
    OBVIOUS
  <1>2. AllCompounds(out, index) = G[DOMAIN index]
    BY DEF AllCompounds, FoldLeft, MapThenFoldSet
  <1>3. PICK fold : fold = "compounds"
    OBVIOUS
  <1>4. \A x, y : FoldStep(fold, 0, 0, x, y) = AddCompound(x, y)
    BY <1>3 DEF FoldStep
  <1>5. \A f : IsFold(f, fold, 0, 0, out, index, n) <=> Is(f)
    <2> TAKE f
    <2>1. ASSUME IsFold(f, fold, 0, 0, out, index, n) PROVE Is(f)
      BY <1>1, <1>4, <2>1 DEF IsFold
    <2>2. ASSUME Is(f) PROVE IsFold(f, fold, 0, 0, out, index, n)
      <3>1. \A s \in SUBSET (1 .. n) : f[s] = IF s = {} THEN out ELSE AddCompound(f[s \ {Max(s)}], index[Max(s)])
        BY <1>1, <2>2
      <3>2. f = [s \in SUBSET (1 .. n) |-> f[s]]
        BY <1>1, <2>2
      <3>3. ASSUME NEW s \in SUBSET (1 .. n)
            PROVE  f[s] = IF s = {} THEN out
                          ELSE FoldStep(fold, 0, 0, f[s \ {Max(s)}], index[Max(s)])
        <4>1. FoldStep(fold, 0, 0, f[s \ {Max(s)}], index[Max(s)]) = AddCompound(f[s \ {Max(s)}], index[Max(s)])
          BY <1>4
        <4> QED
          BY <3>1, <4>1
      <3> QED
        BY <3>2, <3>3 DEF IsFold
    <2> QED
      BY <2>1, <2>2
  <1>6. \E f : Is(f)
    BY <1>5, FoldExists
  <1>7. Is(G)
    BY <1>6
  <1> HIDE DEF G
  <1>8. IsFold(G, fold, 0, 0, out, index, n)
    BY <1>5, <1>7
  <1>9. PICK W : IsRun(W, fold, 0, 0, out, index, n) /\ W[n] = G[1 .. n]
    BY <1>8, FoldRuns
  <1>10. W[0] = out /\ \A k \in 1 .. n : W[k] = AddCompound(W[k - 1], index[k])
    BY <1>1, <1>4, <1>9 DEF IsRun
  <1>11. W[n] = AllCompounds(out, index)
    BY <1>1, <1>2, <1>9
  <1> QED
    BY <1>10, <1>11 DEF CompoundsGo

NamesGo(W, out, ms, n) ==
  /\ W[0] = out /\ W[n] = AllNames(out, ms)
  /\ \A k \in 1 .. n : W[k] = AskNameOf(W[k - 1], ms[k])

LEMMA NamesRun ==
  ASSUME NEW out, NEW ms, NEW n \in Nat, DOMAIN ms = 1 .. n
  PROVE  \E W : NamesGo(W, out, ms, n)
  <1> DEFINE Is(f) == f = [s \in SUBSET DOMAIN ms |->
                             IF s = {} THEN out ELSE AskNameOf(f[s \ {Max(s)}], ms[Max(s)])]
             G == CHOOSE f : Is(f)
  <1>1. DOMAIN ms = 1 .. n
    OBVIOUS
  <1>2. AllNames(out, ms) = G[DOMAIN ms]
    BY DEF AllNames, FoldLeft, MapThenFoldSet
  <1>3. PICK fold : fold = "names"
    OBVIOUS
  <1>4. \A x, y : FoldStep(fold, 0, 0, x, y) = AskNameOf(x, y)
    BY <1>3 DEF FoldStep
  <1>5. \A f : IsFold(f, fold, 0, 0, out, ms, n) <=> Is(f)
    <2> TAKE f
    <2>1. ASSUME IsFold(f, fold, 0, 0, out, ms, n) PROVE Is(f)
      BY <1>1, <1>4, <2>1 DEF IsFold
    <2>2. ASSUME Is(f) PROVE IsFold(f, fold, 0, 0, out, ms, n)
      <3>1. \A s \in SUBSET (1 .. n) : f[s] = IF s = {} THEN out ELSE AskNameOf(f[s \ {Max(s)}], ms[Max(s)])
        BY <1>1, <2>2
      <3>2. f = [s \in SUBSET (1 .. n) |-> f[s]]
        BY <1>1, <2>2
      <3>3. ASSUME NEW s \in SUBSET (1 .. n)
            PROVE  f[s] = IF s = {} THEN out
                          ELSE FoldStep(fold, 0, 0, f[s \ {Max(s)}], ms[Max(s)])
        <4>1. FoldStep(fold, 0, 0, f[s \ {Max(s)}], ms[Max(s)]) = AskNameOf(f[s \ {Max(s)}], ms[Max(s)])
          BY <1>4
        <4> QED
          BY <3>1, <4>1
      <3> QED
        BY <3>2, <3>3 DEF IsFold
    <2> QED
      BY <2>1, <2>2
  <1>6. \E f : Is(f)
    BY <1>5, FoldExists
  <1>7. Is(G)
    BY <1>6
  <1> HIDE DEF G
  <1>8. IsFold(G, fold, 0, 0, out, ms, n)
    BY <1>5, <1>7
  <1>9. PICK W : IsRun(W, fold, 0, 0, out, ms, n) /\ W[n] = G[1 .. n]
    BY <1>8, FoldRuns
  <1>10. W[0] = out /\ \A k \in 1 .. n : W[k] = AskNameOf(W[k - 1], ms[k])
    BY <1>1, <1>4, <1>9 DEF IsRun
  <1>11. W[n] = AllNames(out, ms)
    BY <1>1, <1>2, <1>9
  <1> QED
    BY <1>10, <1>11 DEF NamesGo

BlocksGo(W, out, ms, n) ==
  /\ W[0] = out /\ W[n] = AllBlocks(out, ms)
  /\ \A k \in 1 .. n : W[k] = AskBlock(W[k - 1], ms[k])

LEMMA BlocksRun ==
  ASSUME NEW out, NEW ms, NEW n \in Nat, DOMAIN ms = 1 .. n
  PROVE  \E W : BlocksGo(W, out, ms, n)
  <1> DEFINE Is(f) == f = [s \in SUBSET DOMAIN ms |->
                             IF s = {} THEN out ELSE AskBlock(f[s \ {Max(s)}], ms[Max(s)])]
             G == CHOOSE f : Is(f)
  <1>1. DOMAIN ms = 1 .. n
    OBVIOUS
  <1>2. AllBlocks(out, ms) = G[DOMAIN ms]
    BY DEF AllBlocks, FoldLeft, MapThenFoldSet
  <1>3. PICK fold : fold = "blocks"
    OBVIOUS
  <1>4. \A x, y : FoldStep(fold, 0, 0, x, y) = AskBlock(x, y)
    BY <1>3 DEF FoldStep
  <1>5. \A f : IsFold(f, fold, 0, 0, out, ms, n) <=> Is(f)
    <2> TAKE f
    <2>1. ASSUME IsFold(f, fold, 0, 0, out, ms, n) PROVE Is(f)
      BY <1>1, <1>4, <2>1 DEF IsFold
    <2>2. ASSUME Is(f) PROVE IsFold(f, fold, 0, 0, out, ms, n)
      <3>1. \A s \in SUBSET (1 .. n) : f[s] = IF s = {} THEN out ELSE AskBlock(f[s \ {Max(s)}], ms[Max(s)])
        BY <1>1, <2>2
      <3>2. f = [s \in SUBSET (1 .. n) |-> f[s]]
        BY <1>1, <2>2
      <3>3. ASSUME NEW s \in SUBSET (1 .. n)
            PROVE  f[s] = IF s = {} THEN out
                          ELSE FoldStep(fold, 0, 0, f[s \ {Max(s)}], ms[Max(s)])
        <4>1. FoldStep(fold, 0, 0, f[s \ {Max(s)}], ms[Max(s)]) = AskBlock(f[s \ {Max(s)}], ms[Max(s)])
          BY <1>4
        <4> QED
          BY <3>1, <4>1
      <3> QED
        BY <3>2, <3>3 DEF IsFold
    <2> QED
      BY <2>1, <2>2
  <1>6. \E f : Is(f)
    BY <1>5, FoldExists
  <1>7. Is(G)
    BY <1>6
  <1> HIDE DEF G
  <1>8. IsFold(G, fold, 0, 0, out, ms, n)
    BY <1>5, <1>7
  <1>9. PICK W : IsRun(W, fold, 0, 0, out, ms, n) /\ W[n] = G[1 .. n]
    BY <1>8, FoldRuns
  <1>10. W[0] = out /\ \A k \in 1 .. n : W[k] = AskBlock(W[k - 1], ms[k])
    BY <1>1, <1>4, <1>9 DEF IsRun
  <1>11. W[n] = AllBlocks(out, ms)
    BY <1>1, <1>2, <1>9
  <1> QED
    BY <1>10, <1>11 DEF BlocksGo


--------------------------------------------------------------------------------
(* Members are added while an object is parsed.                            *)

LEMMA AddRefAdds ==
  ASSUME NEW h, HeapInv(h), h.obj[1].parsed, NoRefid \notin DOMAIN xml.files,
         NEW o \in Objects(h), h.obj[o].parsed, h.obj[o].cls = "Group",
         NEW cls \in Classes, NEW refid \in DOMAIN xml.files,
         NEW g, g = AddRef(h, o, cls, refid)
  PROVE  HeapInv(g) /\ Later(h, g)
  <1>1. PICK out : out = FromRefid(h, cls, refid)
    OBVIOUS
  <1>2. out.exc = "none" /\ Makes(h, out.heap) /\ out.value \in Objects(out.heap)
    BY <1>1, FromRefidMakes
  <1>3. PICK k : k = out.heap
    OBVIOUS
  <1>4. PICK m : m = out.value
    OBVIOUS
  <1>5. g = WithMember(k, o, m)
    BY <1>1, <1>2, <1>3, <1>4 DEF AddRef, Then, Return
  <1>6. /\ HeapInv(k) /\ Later(h, k) /\ o \in Objects(k) /\ m \in Objects(k)
        /\ k.obj[o].parsed /\ k.obj[o].cls = "Group"
    BY <1>2, <1>3, <1>4 DEF Makes
  <1>7. m \in 0 .. Len(k.obj)
    BY <1>6 DEF Objects
  <1>8. k.obj[o].cls \in {"Class", "File"} => Distinct(k, Append(k.obj[o].members, m))
    BY <1>6
  <1>9. HeapInv(g) /\ Later(k, g)
    BY <1>5, <1>6, <1>7, <1>8, WithMemberAdds
  <1> QED
    BY <1>6, <1>9, LaterIsTransitive

(* The members of a class or of a file have names of its first memberdefs. *)
NamesOfFirst(h, o, defs, k) ==
  h.obj[o].cls \in {"Class", "File"} =>
    \A i \in 1 .. Len(h.obj[o].members) :
      h.obj[o].members[i] # None => \E j \in 1 .. k : h.obj[h.obj[o].members[i]].name = defs[j].name

LEMMA AddMemberdefAdds ==
  ASSUME NEW h, HeapInv(h), h.obj[1].parsed, NEW o \in Objects(h), h.obj[o].parsed,
         NEW defs, NEW n \in Nat,
         \A j \in 1 .. n : defs[j].refid = NoRefid /\ ClassOf(defs[j].kind) \notin OfFiles,
         NEW k \in 1 .. n, NamesOfFirst(h, o, defs, k - 1),
         NEW g, g = AddMemberdef(h, o, defs, k)
  PROVE  /\ HeapInv(g) /\ Later(h, g) /\ NamesOfFirst(g, o, defs, k)
         /\ \A r : r \in DOMAIN g.refs => r \in DOMAIN h.refs
  <1>1. \A j \in 1 .. k - 1 : j \in 1 .. k
    OBVIOUS
  <1>2. CASE ~ FirstOfItsName(defs, k)
    <2>1. g = h
      BY <1>2 DEF AddMemberdef
    <2>2. NamesOfFirst(h, o, defs, k)
      BY <1>1 DEF NamesOfFirst
    <2> QED
      BY <2>1, <2>2, LaterIsReflexive
  <1>3. CASE FirstOfItsName(defs, k)
    <2>1. PICK out : out = ConvertMem(h, defs[k])
      OBVIOUS
    <2>2. PICK x : x = out.heap
      OBVIOUS
    <2>3. PICK m : m = out.value
      OBVIOUS
    <2>4. /\ out.exc = "none" /\ Makes(h, x)
          /\ m = None \/ m \in Objects(x)
          /\ m # None => m \notin Objects(h) /\ x.obj[m].name = defs[k].name
          /\ \A r : r \in DOMAIN x.refs => r \in DOMAIN h.refs
      <3>1. ClassOf(defs[k].kind) \in OfFiles => defs[k].refid \in DOMAIN xml.files
        OBVIOUS
      <3>2. defs[k].refid \notin DOMAIN h.refs
        BY DEF HeapInv, RefsInv
      <3>3. /\ out.exc = "none" /\ Makes(h, out.heap)
            /\ out.value = None \/ out.value \in Objects(out.heap)
            /\ defs[k].refid \notin DOMAIN h.refs /\ out.value # None =>
                 /\ out.value \notin Objects(h)
                 /\ out.heap.obj[out.value].name = defs[k].name
            /\ \A r : r \in DOMAIN out.heap.refs => r \in DOMAIN h.refs \/ (r = defs[k].refid /\ r # NoRefid)
        BY <2>1, <3>1, ConvertMemMakes
      <3> QED
        BY <2>2, <2>3, <3>2, <3>3
    <2>5. g = WithMember(x, o, m)
      BY <1>3, <2>1, <2>2, <2>3, <2>4 DEF AddMemberdef, Then, Return
    <2>6. /\ HeapInv(x) /\ Later(h, x) /\ o \in Objects(x) /\ x.obj[o] = h.obj[o]
          /\ \A p \in Objects(h) : x.obj[p] = h.obj[p]
      BY <2>4 DEF Makes
    <2>7. PICK ms : ms = h.obj[o].members
      OBVIOUS
    <2>8. /\ ms \in Seq(0 .. Len(h.obj)) /\ x.obj[o].members = ms
          /\ \A i \in 1 .. Len(ms) : ms[i] # None => ms[i] \in Objects(h)
      <3>1. ms \in Seq(0 .. Len(h.obj)) /\ x.obj[o].members = ms
        BY <2>6, <2>7 DEF HeapInv, ObjectsInv, IsObject
      <3>2. \A i \in 1 .. Len(ms) : ms[i] \in 0 .. Len(h.obj)
        BY <3>1, ElementOfSeq
      <3> QED
        BY <3>1, <3>2 DEF Objects, None
    <2>9. PICK l \in Nat : l = Len(ms)
      BY <2>8, LenProperties
    <2>10. PICK more : more = Append(ms, m)
      OBVIOUS
    <2>11. /\ Len(more) = l + 1 /\ more[l + 1] = m
           /\ \A i \in 1 .. l : more[i] = ms[i]
           /\ \A i \in 1 .. l + 1 : i \in 1 .. l \/ i = l + 1
      <3>1. m \in 0 .. Len(x.obj) /\ ms \in Seq(0 .. Len(x.obj))
        <4>1. ms \in Seq(0 .. Len(x.obj))
          BY <2>6, <2>8 DEF HeapInv, ObjectsInv, IsObject
        <4>2. Len(x.obj) \in Nat
          BY <2>6 DEF HeapInv, ObjectsInv, IsSequence
        <4> QED
          BY <2>4, <4>1, <4>2 DEF Objects, None
      <3>2. /\ Len(more) = l + 1 /\ more[l + 1] = m
            /\ \A i \in 1 .. l : more[i] = ms[i]
        BY <2>9, <2>10, <3>1, AppendProperties
      <3> QED
        BY <3>2
    <2>12. ASSUME h.obj[o].cls \in {"Class", "File"}, NEW i \in 1 .. l, ms[i] # None, m # None
           PROVE  x.obj[ms[i]].name # x.obj[m].name
      <3>1. PICK j \in 1 .. k - 1 : h.obj[ms[i]].name = defs[j].name
        BY <2>7, <2>9, <2>12 DEF NamesOfFirst
      <3>2. defs[j].name # defs[k].name
        BY <1>3 DEF FirstOfItsName
      <3> QED
        BY <2>4, <2>6, <2>8, <2>9, <2>12, <3>1, <3>2
    <2>13. ASSUME h.obj[o].cls \in {"Class", "File"} PROVE Distinct(x, more)
      <3> SUFFICES ASSUME NEW i \in 1 .. l + 1, NEW j \in 1 .. l + 1, i # j,
                          more[i] # None, more[j] # None
                   PROVE  x.obj[more[i]].name # x.obj[more[j]].name
        BY <2>11 DEF Distinct
      <3>1. CASE i \in 1 .. l /\ j \in 1 .. l
        <4>1. Distinct(h, ms)
          BY <2>7, <2>13 DEF HeapInv, MembersInv
        <4>2. h.obj[ms[i]].name # h.obj[ms[j]].name
          <5>1. more[i] = ms[i] /\ more[j] = ms[j]
            BY <2>11, <3>1
          <5> QED
            BY <2>9, <3>1, <4>1, <5>1 DEF Distinct
        <4>3. more[i] = ms[i] /\ more[j] = ms[j] /\ ms[i] # None /\ ms[j] # None
          BY <2>11, <3>1
        <4>4. ms[i] \in Objects(h) /\ ms[j] \in Objects(h)
          BY <2>8, <2>9, <3>1, <4>3
        <4>5. x.obj[ms[i]] = h.obj[ms[i]] /\ x.obj[ms[j]] = h.obj[ms[j]]
          BY <2>6, <4>4
        <4> QED
          BY <4>2, <4>3, <4>5
      <3>2. CASE i = l + 1 /\ j \in 1 .. l
        BY <2>11, <2>12, <2>13, <3>2
      <3>3. CASE i \in 1 .. l /\ j = l + 1
        BY <2>11, <2>12, <2>13, <3>3
      <3> QED
        BY <2>11, <3>1, <3>2, <3>3
    <2>14. /\ HeapInv(g) /\ Later(x, g) /\ g.refs = x.refs
           /\ \A p \in Objects(x) : g.obj[p].name = x.obj[p].name /\ g.obj[p].cls = x.obj[p].cls
           /\ g.obj[o].members = more
      <3>1. m \in 0 .. Len(x.obj)
        <4>1. Len(x.obj) \in Nat
          BY <2>6 DEF HeapInv, ObjectsInv, IsSequence
        <4> QED
          BY <2>4, <4>1 DEF Objects, None
      <3>2. x.obj[o].cls \in {"Class", "File"} => Distinct(x, Append(x.obj[o].members, m))
        BY <2>6, <2>8, <2>10, <2>13
      <3>3. x.obj[o].parsed
        BY <2>6
      <3>4. Append(x.obj[o].members, m) = more
        BY <2>8, <2>10
      <3>5. /\ HeapInv(g) /\ Later(x, g)
            /\ g.refs = x.refs
            /\ \A p \in Objects(x) : g.obj[p].cls = x.obj[p].cls /\ g.obj[p].name = x.obj[p].name
            /\ g.obj[o].members = Append(x.obj[o].members, m)
        <4>1. HeapInv(x) /\ o \in Objects(x)
          BY <2>6
        <4> QED
          BY <2>5, <3>1, <3>2, <3>3, <4>1, WithMemberAdds, SMTT(30)
      <3> QED
        BY <3>4, <3>5
    <2>15. NamesOfFirst(g, o, defs, k)
      <3> SUFFICES ASSUME g.obj[o].cls \in {"Class", "File"}, NEW i \in 1 .. l + 1, more[i] # None
                   PROVE  \E j \in 1 .. k : g.obj[more[i]].name = defs[j].name
        BY <2>11, <2>14 DEF NamesOfFirst
      <3>1. h.obj[o].cls \in {"Class", "File"}
        BY <2>6, <2>14
      <3>2. CASE i \in 1 .. l
        <4>1. PICK j \in 1 .. k - 1 : h.obj[ms[i]].name = defs[j].name
          BY <2>7, <2>9, <2>11, <3>1, <3>2 DEF NamesOfFirst
        <4>2. ms[i] \in Objects(h) /\ ms[i] \in Objects(x)
          BY <2>4, <2>8, <2>9, <2>11, <3>2 DEF Makes
        <4>3. g.obj[ms[i]].name = h.obj[ms[i]].name
          BY <2>6, <2>14, <4>2
        <4> QED
          BY <1>1, <2>11, <3>2, <4>1, <4>3
      <3>3. CASE i = l + 1
        <4>1. g.obj[m].name = x.obj[m].name
          BY <2>4, <2>11, <2>14, <3>3
        <4> QED
          BY <2>4, <2>11, <3>3, <4>1
      <3> QED
        BY <2>11, <3>2, <3>3
    <2> QED
      BY <2>4, <2>6, <2>14, <2>15, LaterIsTransitive
  <1> QED
    BY <1>2, <1>3

LEMMA UpTo ==
  ASSUME NEW n \in Nat, NEW I, 0 \in I, \A k \in 1 .. n : k - 1 \in I => k \in I
  PROVE  n \in I
  <1>1. PICK J : J = {m \in Nat : m <= n => m \in I}
    OBVIOUS
  <1>2. J \in SUBSET Nat /\ 0 \in J
    BY <1>1
  <1>3. ASSUME NEW m \in J PROVE m + 1 \in J
    <2>1. m \in Nat /\ (m <= n => m \in I)
      BY <1>1
    <2>2. m + 1 <= n => m <= n /\ m + 1 \in 1 .. n /\ (m + 1) - 1 = m
      BY <2>1
    <2> QED
      BY <1>1, <2>1, <2>2
  <1>4. J = Nat
    BY <1>2, <1>3, AllNaturals
  <1> QED
    BY <1>1, <1>4

LEMMA MemberdefsAdd ==
  ASSUME NEW h, HeapInv(h), h.obj[1].parsed, NEW o \in Objects(h), h.obj[o].parsed,
         NEW defs, NEW n \in Nat, DOMAIN defs = 1 .. n,
         \A j \in 1 .. n : defs[j].refid = NoRefid /\ ClassOf(defs[j].kind) \notin OfFiles,
         h.obj[o].cls \in {"Class", "File"} => h.obj[o].members = <<>>,
         NEW g, g = AllMemberdefs(h, o, defs)
  PROVE  /\ HeapInv(g) /\ Later(h, g)
         /\ \A r : r \in DOMAIN g.refs => r \in DOMAIN h.refs
  <1>1. PICK W : /\ W[0] = h /\ W[n] = AllMemberdefs(h, o, defs)
                 /\ \A k \in 1 .. n : W[k] = AddMemberdef(W[k - 1], o, defs, k)
    <2>1. PICK W : MemberdefsGo(W, h, o, defs, n)
      BY MemberdefsRun
    <2> QED
      BY <2>1 DEF MemberdefsGo
  <1>2. PICK I : I = {k \in 0 .. n : /\ HeapInv(W[k]) /\ Later(h, W[k]) /\ NamesOfFirst(W[k], o, defs, k)
                                     /\ \A r : r \in DOMAIN W[k].refs => r \in DOMAIN h.refs}
    OBVIOUS
  <1>3. 0 \in I
    <2>1. NamesOfFirst(h, o, defs, 0)
      <3>1. h.obj[o].cls \in {"Class", "File"} => Len(h.obj[o].members) = 0
        BY EmptySeq
      <3>2. 1 .. 0 = {}
        OBVIOUS
      <3> QED
        BY <3>1, <3>2 DEF NamesOfFirst
    <2> QED
      BY <1>1, <1>2, <2>1, LaterIsReflexive
  <1>4. ASSUME NEW k \in 1 .. n, k - 1 \in I PROVE k \in I
    <2>1. PICK x : x = W[k - 1]
      OBVIOUS
    <2>2. PICK y : y = W[k]
      OBVIOUS
    <2>3. /\ HeapInv(x) /\ Later(h, x) /\ NamesOfFirst(x, o, defs, k - 1)
          /\ \A r : r \in DOMAIN x.refs => r \in DOMAIN h.refs
      BY <1>2, <1>4, <2>1
    <2>4. x.obj[1].parsed /\ o \in Objects(x) /\ x.obj[o].parsed
      <3>1. 1 \in Objects(h)
        BY DEF HeapInv, IndexInv
      <3>2. Len(h.obj) \in Nat /\ Len(x.obj) \in Nat /\ Len(h.obj) <= Len(x.obj)
        BY <2>3 DEF Later, HeapInv, ObjectsInv, IsSequence
      <3> QED
        BY <2>3, <3>1, <3>2 DEF Later, Objects
    <2>5. y = AddMemberdef(x, o, defs, k)
      BY <1>1, <2>1, <2>2
    <2>6. /\ HeapInv(y) /\ Later(x, y) /\ NamesOfFirst(y, o, defs, k)
          /\ \A r : r \in DOMAIN y.refs => r \in DOMAIN x.refs
      BY <2>3, <2>4, <2>5, AddMemberdefAdds
    <2>7. Later(h, y)
      BY <2>3, <2>6, LaterIsTransitive
    <2> QED
      BY <1>2, <2>2, <2>3, <2>6, <2>7
  <1>5. n \in I
    BY <1>3, <1>4, UpTo
  <1> QED
    BY <1>1, <1>2, <1>5

LEMMA RefsAdd ==
  ASSUME NEW h, HeapInv(h), h.obj[1].parsed, NoRefid \notin DOMAIN xml.files,
         NEW o \in Objects(h), h.obj[o].parsed, h.obj[o].cls = "Group",
         NEW cls \in Classes, NEW refs, NEW n \in Nat, DOMAIN refs = 1 .. n,
         \A k \in 1 .. n : refs[k] \in DOMAIN xml.files,
         NEW g, g = AllRefs(h, o, cls, refs)
  PROVE  HeapInv(g) /\ Later(h, g)
  <1>1. PICK W : /\ W[0] = h /\ W[n] = AllRefs(h, o, cls, refs)
                 /\ \A k \in 1 .. n : W[k] = AddRef(W[k - 1], o, cls, refs[k])
    <2>1. PICK W : RefsGo(W, h, o, cls, refs, n)
      BY RefsRun
    <2> QED
      BY <2>1 DEF RefsGo
  <1>2. PICK I : I = {k \in 0 .. n : HeapInv(W[k]) /\ Later(h, W[k])}
    OBVIOUS
  <1>3. 0 \in I
    BY <1>1, <1>2, LaterIsReflexive
  <1>4. ASSUME NEW k \in 1 .. n, k - 1 \in I PROVE k \in I
    <2>1. PICK x : x = W[k - 1]
      OBVIOUS
    <2>2. PICK y : y = W[k]
      OBVIOUS
    <2>3. HeapInv(x) /\ Later(h, x)
      BY <1>2, <1>4, <2>1
    <2>4. x.obj[1].parsed /\ o \in Objects(x) /\ x.obj[o].parsed /\ x.obj[o].cls = "Group"
      <3>1. 1 \in Objects(h)
        BY DEF HeapInv, IndexInv
      <3>2. Len(h.obj) \in Nat /\ Len(x.obj) \in Nat /\ Len(h.obj) <= Len(x.obj)
        BY <2>3 DEF Later, HeapInv, ObjectsInv, IsSequence
      <3> QED
        BY <2>3, <3>1, <3>2 DEF Later, Objects
    <2>5. y = AddRef(x, o, cls, refs[k]) /\ refs[k] \in DOMAIN xml.files
      BY <1>1, <2>1, <2>2
    <2>6. HeapInv(y) /\ Later(x, y)
      BY <2>3, <2>4, <2>5, AddRefAdds
    <2>7. Later(h, y)
      BY <2>3, <2>6, LaterIsTransitive
    <2> QED
      BY <1>2, <2>2, <2>6, <2>7
  <1>5. n \in I
    BY <1>3, <1>4, UpTo
  <1> QED
    BY <1>1, <1>2, <1>5

(* What a directory of XML files holds. *)
LEMMA FilesHold ==
  ASSUME xml \in Xml, NEW r \in DOMAIN xml.files
  PROVE  /\ NoRefid \notin DOMAIN xml.files
         /\ \E n \in Nat : /\ DOMAIN FlattenSeq(xml.files[r].sections) = 1 .. n
                           /\ \A j \in 1 .. n :
                                /\ FlattenSeq(xml.files[r].sections)[j].refid = NoRefid
                                /\ ClassOf(FlattenSeq(xml.files[r].sections)[j].kind) \notin OfFiles
         /\ \E n \in Nat : /\ DOMAIN xml.files[r].groups = 1 .. n
                           /\ \A j \in 1 .. n : xml.files[r].groups[j] \in DOMAIN xml.files
         /\ \E n \in Nat : /\ DOMAIN xml.files[r].classes = 1 .. n
                           /\ \A j \in 1 .. n : xml.files[r].classes[j] \in DOMAIN xml.files
  <1>1. PICK S : S = [kind : STRING \ {"class", "file", "group"}, refid : {NoRefid},
                      key : STRING, name : STRING]
    OBVIOUS
  <1>2. /\ NoRefid \notin DOMAIN xml.files
        /\ xml.files[r].sections \in Seq(Seq(S))
        /\ xml.files[r].groups \in Seq(DOMAIN xml.files) /\ xml.files[r].classes \in Seq(DOMAIN xml.files)
    BY <1>1, XmlAssumption
  <1>3. PICK defs : defs = FlattenSeq(xml.files[r].sections)
    OBVIOUS
  <1>4. defs \in Seq(S)
    BY <1>2, <1>3, FlattenType
  <1>5. PICK n \in Nat : n = Len(defs)
    BY <1>4, LenProperties
  <1>6. DOMAIN defs = 1 .. n /\ \A j \in 1 .. n : defs[j] \in S
    BY <1>4, <1>5, LenProperties, ElementOfSeq
  <1>7. \A d \in S : d.refid = NoRefid /\ ClassOf(d.kind) \notin OfFiles
    BY <1>1 DEF ClassOf, OfFiles
  <1>8. \A s \in Seq(DOMAIN xml.files) :
          /\ Len(s) \in Nat /\ DOMAIN s = 1 .. Len(s)
          /\ \A j \in 1 .. Len(s) : s[j] \in DOMAIN xml.files
    BY LenProperties, ElementOfSeq
  <1> QED
    BY <1>2, <1>3, <1>6, <1>7, <1>8

--------------------------------------------------------------------------------
(* _parse                                                                   *)

LEMMA ParsedBegins ==
  ASSUME NEW h, HeapInv(h), NEW o \in Objects(h), ~ h.obj[o].parsed,
         NEW g, g = Parsed(h, o)
  PROVE  /\ HeapInv(g) /\ Later(h, g) /\ o \in Objects(g)
         /\ Len(g.obj) = Len(h.obj) /\ g.refs = h.refs
         /\ g.obj[o].parsed /\ g.obj[o].members = <<>>
         /\ g.obj[o].cls = h.obj[o].cls /\ g.obj[o].refid = h.obj[o].refid
         /\ g.obj[o].error = h.obj[o].error
  <1>1. PICK q : q = h.obj[o]
    OBVIOUS
  <1>2. IsObject(q, Len(h.obj)) /\ q.members = <<>>
    BY <1>1 DEF HeapInv, ObjectsInv, IsObject
  <1>3. PICK r : r = [q EXCEPT !.parsed = TRUE]
    OBVIOUS
  <1>4. /\ r.cls = q.cls /\ r.refid = q.refid /\ r.key = q.key /\ r.name = q.name
        /\ r.parsed = TRUE /\ r.error = q.error /\ r.members = q.members /\ r.cats = q.cats
        /\ r = [cls |-> r.cls, refid |-> r.refid, key |-> r.key, name |-> r.name, parsed |-> r.parsed,
                error |-> r.error, members |-> r.members, cats |-> r.cats]
    BY <1>2, <1>3 DEF IsObject
  <1>5. IsObject(r, Len(h.obj))
    BY <1>2, <1>4 DEF IsObject
  <1>6. g = Replaced(h, o, r)
    BY <1>1, <1>3 DEF Parsed, Replaced
  <1>7. o = 1 => ~ r.error /\ r.parsed
    BY <1>1, <1>4 DEF HeapInv, IndexInv
  <1>8. /\ r.cls = h.obj[o].cls /\ r.refid = h.obj[o].refid
        /\ r.key = h.obj[o].key /\ r.name = h.obj[o].name
        /\ h.obj[o].parsed => r.parsed /\ r.error = h.obj[o].error
    BY <1>1, <1>4
  <1>9. r.cls \in {"Class", "File"} => Distinct(h, r.members)
    <2>1. Len(r.members) = 0 /\ 1 .. 0 = {}
      BY <1>2, <1>4, EmptySeq
    <2> QED
      BY <2>1 DEF Distinct
  <1>10. /\ HeapInv(g) /\ Later(h, g)
         /\ Len(g.obj) = Len(h.obj) /\ g.refs = h.refs
         /\ \A p \in Objects(h) : g.obj[p] = IF p = o THEN r ELSE h.obj[p]
    BY <1>5, <1>6, <1>7, <1>8, <1>9, ReplaceObject
  <1>11. g.obj[o] = r /\ o \in Objects(g)
    BY <1>10 DEF Objects
  <1> QED
    BY <1>1, <1>2, <1>4, <1>10, <1>11

LEMMA RetrievalFails ==
  ASSUME NEW h, HeapInv(h), NEW o \in Objects(h), ~ h.obj[o].parsed, o # 1,
         NEW g, g = FailedRetrieval(h, o)
  PROVE  /\ HeapInv(g) /\ Later(h, g) /\ g.refs = h.refs /\ g.obj[o].parsed /\ g.obj[o].error
         /\ Len(g.obj) = Len(h.obj)
  <1>1. PICK q : q = h.obj[o]
    OBVIOUS
  <1>2. IsObject(q, Len(h.obj)) /\ q.members = <<>>
    BY <1>1 DEF HeapInv, ObjectsInv, IsObject
  <1>3. PICK r : r = [q EXCEPT !.parsed = TRUE, !.error = TRUE]
    OBVIOUS
  <1>4. /\ r.cls = q.cls /\ r.refid = q.refid /\ r.key = q.key /\ r.name = q.name
        /\ r.parsed = TRUE /\ r.error = TRUE /\ r.members = q.members /\ r.cats = q.cats
        /\ r = [cls |-> r.cls, refid |-> r.refid, key |-> r.key, name |-> r.name, parsed |-> r.parsed,
                error |-> r.error, members |-> r.members, cats |-> r.cats]
    BY <1>2, <1>3 DEF IsObject
  <1>5. IsObject(r, Len(h.obj))
    BY <1>2, <1>4 DEF IsObject
  <1>6. g = Replaced(h, o, r)
    <2>1. IsSequence(h.obj)
      BY DEF HeapInv, ObjectsInv
    <2>2. h = [obj |-> h.obj, refs |-> h.refs] /\ h.obj = [i \in 1 .. Len(h.obj) |-> h.obj[i]]
      BY <2>1 DEF HeapInv, ObjectsInv, IsSequence
    <2>3. PICK s : s = h.obj
      OBVIOUS
    <2>4. s = [i \in 1 .. Len(s) |-> s[i]] /\ o \in 1 .. Len(s) /\ q = s[o]
      BY <1>1, <2>2, <2>3 DEF Objects
    <2>5. PICK u : u = [s EXCEPT ![o] = [q EXCEPT !.parsed = TRUE]]
      OBVIOUS
    <2>6. u[o] = [q EXCEPT !.parsed = TRUE]
      BY <2>4, <2>5
    <2>7. [u[o] EXCEPT !.error = TRUE] = r
      BY <1>2, <1>3, <2>6 DEF IsObject
    <2>8. [u EXCEPT ![o] = r] = [s EXCEPT ![o] = r]
      BY <2>4, <2>5
    <2>9. PICK t : t = h.refs
      OBVIOUS
    <2>10. h = [obj |-> s, refs |-> t]
      BY <2>2, <2>3, <2>9
    <2>11. \A x, y : [[obj |-> x, refs |-> t] EXCEPT !.obj = y] = [obj |-> y, refs |-> t]
      OBVIOUS
    <2>12. Parsed(h, o) = [obj |-> u, refs |-> t]
      <3>1. Parsed(h, o) = [h EXCEPT !.obj = [s EXCEPT ![o] = [q EXCEPT !.parsed = TRUE]]]
        BY <1>1, <2>3 DEF Parsed
      <3>2. Parsed(h, o) = [h EXCEPT !.obj = u]
        BY <2>5, <3>1
      <3> QED
        BY <2>10, <2>11, <3>2
    <2>13. PICK k : k = Parsed(h, o)
      OBVIOUS
    <2>14. k = [obj |-> u, refs |-> t] /\ k.obj = u
      BY <2>12, <2>13
    <2>15. g = [k EXCEPT !.obj = [k.obj EXCEPT ![o] = [(k.obj)[o] EXCEPT !.error = TRUE]]]
      BY <2>13 DEF FailedRetrieval
    <2>16. g = [obj |-> [u EXCEPT ![o] = r], refs |-> t]
      BY <2>7, <2>11, <2>14, <2>15
    <2>17. Replaced(h, o, r) = [obj |-> [s EXCEPT ![o] = r], refs |-> t]
      BY <2>3, <2>10, <2>11 DEF Replaced
    <2> QED
      BY <2>8, <2>16, <2>17
  <1>7. o = 1 => ~ r.error /\ r.parsed
    OBVIOUS
  <1>8. /\ r.cls = h.obj[o].cls /\ r.refid = h.obj[o].refid
        /\ r.key = h.obj[o].key /\ r.name = h.obj[o].name
        /\ h.obj[o].parsed => r.parsed /\ r.error = h.obj[o].error
    BY <1>1, <1>4
  <1>9. r.cls \in {"Class", "File"} => Distinct(h, r.members)
    <2>1. Len(r.members) = 0 /\ 1 .. 0 = {}
      BY <1>2, <1>4, EmptySeq
    <2> QED
      BY <2>1 DEF Distinct
  <1>10. /\ HeapInv(g) /\ Later(h, g)
         /\ Len(g.obj) = Len(h.obj) /\ g.refs = h.refs
         /\ \A p \in Objects(h) : g.obj[p] = IF p = o THEN r ELSE h.obj[p]
    BY <1>5, <1>6, <1>7, <1>8, <1>9, ReplaceObject
  <1> QED
    BY <1>4, <1>10

LEMMA ProcessMemberdefsAdds ==
  ASSUME xml \in Xml, NEW h, HeapInv(h), h.obj[1].parsed, NEW o \in Objects(h), h.obj[o].parsed,
         h.obj[o].cls \in OfFiles,
         h.obj[o].cls \in {"Class", "File"} => h.obj[o].members = <<>>,
         NEW g, g = ProcessMemberdefs(h, o)
  PROVE  /\ HeapInv(g) /\ Later(h, g)
         /\ \A r : r \in DOMAIN g.refs => r \in DOMAIN h.refs
  <1>1. h.obj[o].refid \in DOMAIN xml.files
    BY DEF HeapInv, ObjectsInv, IsObject
  <1>2. PICK defs : defs = FlattenSeq(xml.files[h.obj[o].refid].sections)
    OBVIOUS
  <1>3. PICK n \in Nat : /\ DOMAIN defs = 1 .. n
                         /\ \A j \in 1 .. n : defs[j].refid = NoRefid /\ ClassOf(defs[j].kind) \notin OfFiles
    BY <1>1, <1>2, FilesHold
  <1>4. g = AllMemberdefs(h, o, defs)
    <2>1. File(o, h) = xml.files[h.obj[o].refid]
      BY DEF File
    <2>2. PICK ds : ds = FlattenSeq(File(o, h).sections)
      OBVIOUS
    <2>3. g = AllMemberdefs(h, o, FlattenSeq(File(o, h).sections))
      BY DEF ProcessMemberdefs, AllMemberdefs
    <2> QED
      BY <1>2, <2>1, <2>3
  <1> QED
    BY <1>3, <1>4, MemberdefsAdd

LEMMA MembersParsed ==
  ASSUME xml \in Xml, NEW h, HeapInv(h), h.obj[1].parsed, NEW o \in Objects(h), o # 1,
         ~ h.obj[o].parsed, h.obj[o].cls \in {"Class", "File"},
         NEW g, \/ g = FailedRetrieval(h, o)
                \/ g = ProcessMemberdefs(Parsed(h, o), o)
  PROVE  /\ HeapInv(g) /\ Later(h, g) /\ g.obj[o].parsed
         /\ \A r : r \in DOMAIN g.refs => r \in DOMAIN h.refs
  <1>1. CASE g = FailedRetrieval(h, o)
    BY <1>1, RetrievalFails
  <1>2. CASE g = ProcessMemberdefs(Parsed(h, o), o)
    <2>1. PICK k : k = Parsed(h, o)
      OBVIOUS
    <2>2. /\ HeapInv(k) /\ Later(h, k) /\ o \in Objects(k) /\ k.refs = h.refs
          /\ k.obj[o].parsed /\ k.obj[o].members = <<>> /\ k.obj[o].cls = h.obj[o].cls
      BY <2>1, ParsedBegins
    <2>3. k.obj[1].parsed
      BY <2>2 DEF Later, HeapInv, IndexInv
    <2>4. k.obj[o].cls \in OfFiles
      BY <2>2 DEF OfFiles
    <2>5. g = ProcessMemberdefs(k, o)
      BY <1>2, <2>1
    <2>6. /\ HeapInv(g) /\ Later(k, g)
          /\ \A r : r \in DOMAIN g.refs => r \in DOMAIN k.refs
      BY <2>2, <2>3, <2>4, <2>5, ProcessMemberdefsAdds
    <2> QED
      BY <2>2, <2>6, LaterIsTransitive DEF Later
  <1> QED
    BY <1>1, <1>2

LEMMA GroupParsed ==
  ASSUME xml \in Xml, NEW h, HeapInv(h), h.obj[1].parsed, NEW o \in Objects(h),
         ~ h.obj[o].parsed, h.obj[o].cls = "Group",
         NEW refs, refs = xml.files[h.obj[o].refid],
         NEW g, g = ProcessMemberdefs(AllRefs(AllRefs(Parsed(h, o), o, "Group", refs.groups),
                                              o, "Class", refs.classes), o)
  PROVE  HeapInv(g) /\ Later(h, g) /\ g.obj[o].parsed
  <1>1. PICK k : k = Parsed(h, o)
    OBVIOUS
  <1>2. /\ HeapInv(k) /\ Later(h, k) /\ o \in Objects(k)
        /\ k.obj[o].parsed /\ k.obj[o].cls = "Group"
    BY <1>1, ParsedBegins
  <1>3. 1 \in Objects(h) /\ 1 \in Objects(k) /\ k.obj[1].parsed
    BY <1>2 DEF Later, HeapInv, IndexInv
  <1>4. h.obj[o].refid \in DOMAIN xml.files
    BY DEF HeapInv, ObjectsInv, IsObject, OfFiles
  <1>5. NoRefid \notin DOMAIN xml.files
    BY XmlAssumption
  <1>6. PICK n \in Nat : DOMAIN refs.groups = 1 .. n /\ \A j \in 1 .. n : refs.groups[j] \in DOMAIN xml.files
    BY <1>4, FilesHold
  <1>7. PICK m \in Nat : DOMAIN refs.classes = 1 .. m /\ \A j \in 1 .. m : refs.classes[j] \in DOMAIN xml.files
    BY <1>4, FilesHold
  <1>8. "Group" \in Classes /\ "Class" \in Classes
    BY DEF Classes
  <1>9. PICK x : x = AllRefs(k, o, "Group", refs.groups)
    OBVIOUS
  <1>10. HeapInv(x) /\ Later(k, x)
    BY <1>2, <1>3, <1>5, <1>6, <1>8, <1>9, RefsAdd
  <1>11. ASSUME NEW z, HeapInv(z), Later(k, z)
         PROVE  z.obj[1].parsed /\ o \in Objects(z) /\ z.obj[o].parsed /\ z.obj[o].cls = "Group"
    <2>1. Len(k.obj) \in Nat /\ Len(z.obj) \in Nat /\ Len(k.obj) <= Len(z.obj)
      BY <1>2, <1>11 DEF Later, HeapInv, ObjectsInv, IsSequence
    <2>2. \A p \in Objects(k) : /\ p \in Objects(z)
                                /\ z.obj[p].cls = k.obj[p].cls
                                /\ k.obj[p].parsed => z.obj[p].parsed
      BY <1>11, <2>1 DEF Later, Objects
    <2>3. z.obj[1].parsed
      BY <1>3, <2>2
    <2>4. o \in Objects(z) /\ z.obj[o].parsed /\ z.obj[o].cls = "Group"
      BY <1>2, <2>2
    <2> QED
      BY <2>3, <2>4
  <1>12. PICK y : y = AllRefs(x, o, "Class", refs.classes)
    OBVIOUS
  <1>13. HeapInv(y) /\ Later(x, y)
    <2>1. x.obj[1].parsed /\ o \in Objects(x) /\ x.obj[o].parsed /\ x.obj[o].cls = "Group"
      BY <1>10, <1>11
    <2> QED
      BY <1>5, <1>7, <1>8, <1>10, <1>12, <2>1, RefsAdd
  <1>14. Later(k, y)
    BY <1>2, <1>10, <1>13, LaterIsTransitive
  <1>15. HeapInv(g) /\ Later(y, g)
    <2>1. y.obj[1].parsed /\ o \in Objects(y) /\ y.obj[o].parsed /\ y.obj[o].cls = "Group"
      BY <1>11, <1>13, <1>14
    <2>2. y.obj[o].cls \in OfFiles /\ y.obj[o].cls \notin {"Class", "File"}
      BY <2>1 DEF OfFiles
    <2>3. g = ProcessMemberdefs(y, o)
      BY <1>1, <1>9, <1>12
    <2> QED
      BY <1>13, <2>1, <2>2, <2>3, ProcessMemberdefsAdds
  <1>16. Later(k, g)
    BY <1>2, <1>13, <1>14, <1>15, LaterIsTransitive
  <1>17. g.obj[o].parsed /\ Later(h, g)
    BY <1>2, <1>11, <1>15, <1>16, LaterIsTransitive
  <1> QED
    BY <1>15, <1>17

LEMMA ParseFileWorks ==
  ASSUME xml \in Xml, NEW h, HeapInv(h), h.obj[1].parsed, NEW o \in Objects(h), o # 1,
         ~ h.obj[o].parsed, h.obj[o].cls = "File",
         NEW out, out = ParseFile(h, o)
  PROVE  /\ out.exc \in {"none", "AttributeError"}
         /\ HeapInv(out.heap) /\ Later(h, out.heap) /\ out.heap.obj[o].parsed
         /\ \A r : r \in DOMAIN out.heap.refs => r \in DOMAIN h.refs
  <1>1. PICK g : g = out.heap
    OBVIOUS
  <1>2. /\ out.exc \in {"none", "AttributeError"}
        /\ g = FailedRetrieval(h, o) \/ g = ProcessMemberdefs(Parsed(h, o), o)
    BY <1>1 DEF ParseFile, Return, Raise
  <1>3. h.obj[o].cls \in {"Class", "File"}
    OBVIOUS
  <1> QED
    BY <1>1, <1>2, <1>3, MembersParsed

LEMMA ParseOtherWorks ==
  ASSUME xml \in Xml, NEW h, HeapInv(h), h.obj[1].parsed, NEW o \in Objects(h), o # 1,
         ~ h.obj[o].parsed,
         NEW out, out = ParseOther(h, o)
  PROVE  /\ out.exc \in {"none", "AttributeError"}
         /\ HeapInv(out.heap) /\ Later(h, out.heap) /\ out.heap.obj[o].parsed
  <1>1. PICK g : g = out.heap
    OBVIOUS
  <1>2. CASE h.obj[o].cls = "Class"
    <2>1. /\ out.exc = "none"
          /\ g = FailedRetrieval(h, o) \/ g = ProcessMemberdefs(Parsed(h, o), o)
      BY <1>1, <1>2 DEF ParseOther, ParseClass, Return
    <2>2. h.obj[o].cls \in {"Class", "File"}
      BY <1>2
    <2> QED
      BY <1>1, <2>1, <2>2, MembersParsed
  <1>3. CASE h.obj[o].cls = "File"
    <2>1. out = ParseFile(h, o)
      BY <1>3 DEF ParseOther
    <2> QED
      BY <1>3, <2>1, ParseFileWorks
  <1>4. CASE h.obj[o].cls = "Group"
    <2>1. out = ParseGroup(h, o)
      BY <1>4 DEF ParseOther
    <2>2. CASE out = Return(FailedRetrieval(h, o), <<>>)
      <3>1. out.exc = "none" /\ g = FailedRetrieval(h, o)
        BY <1>1, <2>2 DEF Return
      <3> QED
        BY <1>1, <3>1, RetrievalFails
    <2>3. CASE out # Return(FailedRetrieval(h, o), <<>>)
      <3>1. PICK refs : refs = xml.files[h.obj[o].refid]
        OBVIOUS
      <3>2. File(o, h) = refs
        BY <3>1 DEF File
      <3>3. out = Return(ProcessMemberdefs(AllRefs(AllRefs(Parsed(h, o), o, "Group", File(o, h).groups),
                                                   o, "Class", File(o, h).classes), o), <<>>)
        BY <2>1, <2>3 DEF ParseGroup, AllRefs
      <3>4. out.exc = "none"
        BY <3>3 DEF Return
      <3>5. g = ProcessMemberdefs(AllRefs(AllRefs(Parsed(h, o), o, "Group", refs.groups),
                                          o, "Class", refs.classes), o)
        BY <1>1, <3>2, <3>3 DEF Return
      <3> QED
        BY <1>1, <1>4, <3>1, <3>4, <3>5, GroupParsed
    <2> QED
      BY <2>2, <2>3
  <1>5. CASE h.obj[o].cls \notin {"Class", "File", "Group"}
    <2>1. out.exc = "none" /\ g = Parsed(h, o)
      BY <1>1, <1>5 DEF ParseOther, Return
    <2> QED
      BY <1>1, <2>1, ParsedBegins
  <1> QED
    BY <1>2, <1>3, <1>4, <1>5

(* The members of the index change, once it is being parsed. *)
LEMMA IndexTakes ==
  ASSUME NEW h, HeapInv(h), h.obj[1].parsed, NEW ms \in Seq(0 .. Len(h.obj)),
         NEW g, g = [h EXCEPT !.obj[1].members = ms]
  PROVE  /\ HeapInv(g) /\ Later(h, g) /\ g.refs = h.refs
  <1>1. PICK q : q = h.obj[1]
    OBVIOUS
  <1>2. 1 \in Objects(h) /\ q.cls = "Index" /\ q.error = FALSE /\ q.parsed
    BY <1>1 DEF HeapInv, IndexInv, ObjectsInv, IsObject
  <1>3. IsObject(q, Len(h.obj))
    BY <1>1, <1>2 DEF HeapInv, ObjectsInv
  <1>4. PICK r : r = [q EXCEPT !.members = ms]
    OBVIOUS
  <1>5. /\ r.cls = q.cls /\ r.refid = q.refid /\ r.key = q.key /\ r.name = q.name
        /\ r.parsed = q.parsed /\ r.error = q.error /\ r.members = ms /\ r.cats = q.cats
        /\ r = [cls |-> r.cls, refid |-> r.refid, key |-> r.key, name |-> r.name, parsed |-> r.parsed,
                error |-> r.error, members |-> r.members, cats |-> r.cats]
    BY <1>3, <1>4 DEF IsObject
  <1>6. IsObject(r, Len(h.obj))
    BY <1>2, <1>3, <1>5 DEF IsObject
  <1>7. g = Replaced(h, 1, r)
    BY <1>1, <1>4 DEF Replaced
  <1>8. PICK o : o = 1
    OBVIOUS
  <1>9. /\ o \in Objects(h) /\ g = Replaced(h, o, r) /\ (o = 1 => ~ r.error /\ r.parsed)
        /\ r.cls = h.obj[o].cls /\ r.refid = h.obj[o].refid
        /\ r.key = h.obj[o].key /\ r.name = h.obj[o].name
        /\ h.obj[o].parsed => r.parsed /\ r.error = h.obj[o].error
        /\ r.cls \in {"Class", "File"} => Distinct(h, r.members)
    BY <1>1, <1>2, <1>5, <1>7, <1>8
  <1> QED
    BY <1>6, <1>9, ReplaceObject, SMTT(30)

LEMMA KeepCompoundWorks ==
  ASSUME xml \in Xml, NEW h, HeapInv(h), h.obj[1].parsed, NEW o, NEW mem, mem.header \in BOOLEAN,
         o = None <=> ClassOf(mem.kind) = "none",
         o # None => o \in Objects(h) /\ o # 1 /\ ~ h.obj[o].parsed /\ h.obj[o].cls = ClassOf(mem.kind),
         NEW out, out = KeepCompound(h, o, mem)
  PROVE  /\ out.exc \in {"none", "AttributeError", "StandardError"}
         /\ HeapInv(out.heap) /\ Later(h, out.heap)
         /\ \A r : r \in DOMAIN out.heap.refs => r \in DOMAIN h.refs
  <1>1. CASE o = None
    <2>1. out.exc = "StandardError" /\ out.heap = h
      BY <1>1 DEF KeepCompound, Raise
    <2> QED
      BY <2>1, LaterIsReflexive
  <1>2. CASE o # None /\ ClassOf(mem.kind) = "File" /\ mem.header = TRUE
    <2>1. PICK res : res = ParseFile(h, o)
      OBVIOUS
    <2>2. /\ res.exc \in {"none", "AttributeError"}
          /\ HeapInv(res.heap) /\ Later(h, res.heap)
          /\ \A r : r \in DOMAIN res.heap.refs => r \in DOMAIN h.refs
      BY <1>2, <2>1, ParseFileWorks
    <2>3. CASE res.exc # "none"
      <3>1. out = res
        BY <1>2, <2>1, <2>3 DEF KeepCompound, Then
      <3> QED
        BY <2>2, <3>1
    <2>4. CASE res.exc = "none"
      <3>1. PICK k : k = res.heap
        OBVIOUS
      <3>2. PICK ms : ms = (k.obj[1].members \o k.obj[o].members) \o << o >>
        OBVIOUS
      <3>3. /\ HeapInv(k) /\ Later(h, k) /\ 1 \in Objects(k) /\ o \in Objects(k) /\ k.obj[1].parsed
        <4>1. HeapInv(k) /\ Later(h, k)
          BY <2>2, <3>1
        <4>2. Len(k.obj) \in Nat /\ Len(h.obj) \in Nat /\ Len(h.obj) <= Len(k.obj)
          BY <4>1 DEF Later, HeapInv, ObjectsInv, IsSequence
        <4>3. 1 \in Objects(h) /\ o \in Objects(h)
          BY <1>2 DEF HeapInv, IndexInv
        <4> QED
          BY <4>1, <4>2, <4>3 DEF Objects, Later
      <3>4. ms \in Seq(0 .. Len(k.obj))
        <4>1. /\ k.obj[1].members \in Seq(0 .. Len(k.obj))
              /\ k.obj[o].members \in Seq(0 .. Len(k.obj))
          BY <3>3 DEF HeapInv, ObjectsInv, IsObject
        <4>2. o \in 0 .. Len(k.obj)
          BY <3>3 DEF Objects
        <4>3. << o >> \in Seq(0 .. Len(k.obj))
          BY <4>2
        <4>4. PICK S : S = 0 .. Len(k.obj)
          OBVIOUS
        <4>5. PICK a, b, c : a = k.obj[1].members /\ b = k.obj[o].members /\ c = << o >>
          OBVIOUS
        <4>6. a \in Seq(S) /\ b \in Seq(S) /\ c \in Seq(S)
          BY <4>1, <4>3, <4>4, <4>5
        <4>7. a \o b \in Seq(S)
          BY <4>6, ConcatProperties
        <4>8. (a \o b) \o c \in Seq(S)
          BY <4>6, <4>7, ConcatProperties
        <4> QED
          BY <3>2, <4>4, <4>5, <4>8
      <3>5. out = Return([k EXCEPT !.obj[1].members = ms], <<>>)
        BY <1>2, <2>1, <2>4, <3>1, <3>2 DEF KeepCompound, Then
      <3>6. PICK g : g = [k EXCEPT !.obj[1].members = ms]
        OBVIOUS
      <3>7. out.exc = "none" /\ out.heap = g
        BY <3>5, <3>6 DEF Return
      <3>8. HeapInv(g) /\ Later(k, g) /\ g.refs = k.refs
        BY <3>3, <3>4, <3>6, IndexTakes
      <3>9. Later(h, g)
        BY <3>3, <3>8, LaterIsTransitive
      <3> QED
        BY <2>2, <3>1, <3>7, <3>8, <3>9
    <2> QED
      BY <2>3, <2>4
  <1>3. CASE o # None /\ ClassOf(mem.kind) = "File" /\ mem.header = FALSE
    <2>1. out.exc = "none" /\ out.heap = h
      BY <1>3 DEF KeepCompound, Return
    <2> QED
      BY <2>1, LaterIsReflexive
  <1>4. CASE o # None /\ ClassOf(mem.kind) # "File"
    <2>1. PICK g : g = WithMember(h, 1, o)
      OBVIOUS
    <2>2. out.exc = "none" /\ out.heap = g
      BY <1>4, <2>1 DEF KeepCompound, Return
    <2>3. /\ 1 \in Objects(h) /\ o \in 0 .. Len(h.obj)
          /\ h.obj[1].cls \in {"Class", "File"} => Distinct(h, Append(h.obj[1].members, o))
      <3>1. 1 \in Objects(h) /\ h.obj[1].cls = "Index"
        BY DEF HeapInv, IndexInv
      <3>2. o \in 0 .. Len(h.obj)
        BY <1>4 DEF Objects
      <3> QED
        BY <3>1, <3>2
    <2>4. HeapInv(g) /\ Later(h, g) /\ g.refs = h.refs
      BY <2>1, <2>3, WithMemberAdds
    <2> QED
      BY <2>2, <2>4
  <1> QED
    BY <1>1, <1>2, <1>3, <1>4

LEMMA AddCompoundWorks ==
  ASSUME xml \in Xml, NEW out, out.exc = "none", HeapInv(out.heap), out.heap.obj[1].parsed,
         NEW mem, mem.header \in BOOLEAN, mem.refid \in DOMAIN xml.files,
         mem.refid \notin DOMAIN out.heap.refs,
         NEW res, res = AddCompound(out, mem)
  PROVE  /\ res.exc \in {"none", "AttributeError", "StandardError"}
         /\ HeapInv(res.heap) /\ Later(out.heap, res.heap)
         /\ \A r : r \in DOMAIN res.heap.refs => r \in DOMAIN out.heap.refs \/ r = mem.refid
  <1>1. PICK h : h = out.heap
    OBVIOUS
  <1>2. PICK made : made = ConvertMem(h, mem)
    OBVIOUS
  <1>3. PICK k : k = made.heap
    OBVIOUS
  <1>4. PICK o : o = made.value
    OBVIOUS
  <1>5. HeapInv(h) /\ h.obj[1].parsed /\ mem.refid \notin DOMAIN h.refs
    BY <1>1
  <1>6. /\ made.exc = "none" /\ Makes(h, k)
        /\ o = None \/ o \in Objects(k)
        /\ o = None <=> ClassOf(mem.kind) = "none"
        /\ o # 1
        /\ o # None => ~ k.obj[o].parsed /\ k.obj[o].cls = ClassOf(mem.kind)
        /\ \A r : r \in DOMAIN k.refs => r \in DOMAIN h.refs \/ r = mem.refid
    <2>1. ClassOf(mem.kind) \in OfFiles => mem.refid \in DOMAIN xml.files
      OBVIOUS
    <2>2. /\ made.exc = "none" /\ Makes(h, made.heap)
          /\ made.value = None \/ made.value \in Objects(made.heap)
          /\ made.value = None <=> ClassOf(mem.kind) = "none"
          /\ made.value # 1
          /\ mem.refid \notin DOMAIN h.refs /\ made.value # None =>
               /\ made.heap.obj[made.value].cls = ClassOf(mem.kind)
               /\ ~ made.heap.obj[made.value].parsed
          /\ \A r : r \in DOMAIN made.heap.refs => r \in DOMAIN h.refs \/ (r = mem.refid /\ r # NoRefid)
      BY <1>2, <1>5, <2>1, ConvertMemMakes
    <2> QED
      BY <1>3, <1>4, <1>5, <2>2
  <1>7. res = KeepCompound(k, o, mem)
    BY <1>1, <1>2, <1>3, <1>4, <1>6 DEF AddCompound, Then
  <1>8. HeapInv(k) /\ Later(h, k) /\ k.obj[1].parsed
    BY <1>5, <1>6 DEF Makes, HeapInv, IndexInv
  <1>9. /\ res.exc \in {"none", "AttributeError", "StandardError"}
        /\ HeapInv(res.heap) /\ Later(k, res.heap)
        /\ \A r : r \in DOMAIN res.heap.refs => r \in DOMAIN k.refs
    BY <1>6, <1>7, <1>8, KeepCompoundWorks
  <1>10. Later(h, res.heap)
    BY <1>5, <1>8, <1>9, LaterIsTransitive
  <1> QED
    BY <1>1, <1>6, <1>9, <1>10

(* The exceptions of a parse. *)
Parses == {"none", "AttributeError", "StandardError"}

LEMMA ParseIndexWorks ==
  ASSUME xml \in Xml, NEW h, HeapInv(h), ~ h.obj[1].parsed,
         NEW out, out = ParseIndex(h)
  PROVE  /\ out.exc \in Parses
         /\ HeapInv(out.heap) /\ Later(h, out.heap) /\ out.heap.obj[1].parsed
  <1>1. PICK k : k = Parsed(h, 1)
    OBVIOUS
  <1>2. /\ HeapInv(k) /\ Later(h, k) /\ k.refs = h.refs /\ k.obj[1].parsed
    <2>1. PICK o : o = 1
      OBVIOUS
    <2>2. o \in Objects(h) /\ ~ h.obj[o].parsed /\ k = Parsed(h, o)
      BY <1>1, <2>1 DEF HeapInv, IndexInv
    <2>3. HeapInv(k) /\ Later(h, k) /\ k.refs = h.refs /\ k.obj[o].parsed
      BY <2>2, ParsedBegins
    <2> QED
      BY <2>1, <2>3
  <1>3. \A r : r \notin DOMAIN k.refs
    <2>1. ASSUME NEW r \in DOMAIN h.refs PROVE FALSE
      <3>1. Len(h.obj) = 1
        BY DEF HeapInv, IndexInv
      <3>2. h.refs[r] \in Objects(h) /\ h.refs[r] # 1
        BY KnownRefid
      <3> QED
        BY <3>1, <3>2 DEF Objects
    <2> QED
      BY <1>2, <2>1
  <1>4. PICK index : index = xml.index
    OBVIOUS
  <1>5. PICK n \in Nat :
          /\ DOMAIN index = 1 .. n
          /\ \A i \in 1 .. n : index[i].header \in BOOLEAN /\ index[i].refid \in DOMAIN xml.files
          /\ \A i, j \in 1 .. n : index[i].refid = index[j].refid => i = j
    <2>1. PICK S : S = [kind : STRING, refid : DOMAIN xml.files, key : STRING, name : STRING, header : BOOLEAN]
      OBVIOUS
    <2>2. index \in Seq(S)
      BY <1>4, <2>1, XmlAssumption
    <2>3. Len(index) \in Nat /\ DOMAIN index = 1 .. Len(index)
      BY <2>2, LenProperties
    <2>4. \A i \in 1 .. Len(index) : index[i] \in S
      BY <2>2, ElementOfSeq
    <2>5. \A i \in 1 .. Len(index) : index[i].header \in BOOLEAN /\ index[i].refid \in DOMAIN xml.files
      BY <2>1, <2>4
    <2>6. \A i, j \in DOMAIN index : index[i].refid = index[j].refid => i = j
      BY <1>4, XmlAssumption
    <2> QED
      BY <2>3, <2>5, <2>6
  <1>6. PICK base : base = Return(k, <<>>)
    OBVIOUS
  <1>7. base.exc = "none" /\ base.heap = k
    BY <1>6 DEF Return
  <1>8. out = AllCompounds(base, index)
    BY <1>1, <1>4, <1>6 DEF ParseIndex, AllCompounds
  <1>9. PICK W : /\ W[0] = base /\ W[n] = AllCompounds(base, index)
                 /\ \A j \in 1 .. n : W[j] = AddCompound(W[j - 1], index[j])
    <2>1. PICK W : CompoundsGo(W, base, index, n)
      BY <1>5, CompoundsRun
    <2> QED
      BY <2>1 DEF CompoundsGo
  <1>10. PICK I : I = {j \in 0 .. n :
                         /\ W[j].exc \in Parses /\ HeapInv(W[j].heap) /\ Later(k, W[j].heap)
                         /\ \A r : r \in DOMAIN W[j].heap.refs => \E i \in 1 .. j : r = index[i].refid}
    OBVIOUS
  <1>11. 0 \in I
    BY <1>2, <1>3, <1>7, <1>9, <1>10, LaterIsReflexive DEF Parses
  <1>12. ASSUME NEW j \in 1 .. n, j - 1 \in I PROVE j \in I
    <2>1. PICK x : x = W[j - 1]
      OBVIOUS
    <2>2. PICK y : y = W[j]
      OBVIOUS
    <2>3. /\ x.exc \in Parses /\ HeapInv(x.heap) /\ Later(k, x.heap)
          /\ \A r : r \in DOMAIN x.heap.refs => \E i \in 1 .. j - 1 : r = index[i].refid
      BY <1>10, <1>12, <2>1
    <2>4. y = AddCompound(x, index[j])
      BY <1>9, <2>1, <2>2
    <2>5. \A i \in 1 .. j - 1 : i \in 1 .. j
      OBVIOUS
    <2>6. CASE x.exc # "none"
      <3>1. y = x
        BY <2>4, <2>6 DEF AddCompound, Then
      <3>2. \A r : r \in DOMAIN y.heap.refs => \E i \in 1 .. j : r = index[i].refid
        BY <2>3, <2>5, <3>1
      <3>3. y.exc \in Parses /\ HeapInv(y.heap) /\ Later(k, y.heap)
        BY <2>3, <3>1
      <3> QED
        BY <1>10, <2>2, <3>2, <3>3
    <2>7. CASE x.exc = "none"
      <3>1. PICK mem : mem = index[j]
        OBVIOUS
      <3>2. mem.header \in BOOLEAN /\ mem.refid \in DOMAIN xml.files
        BY <1>5, <3>1
      <3>3. mem.refid \notin DOMAIN x.heap.refs
        <4>1. \A i \in 1 .. j - 1 : i \in 1 .. n /\ i # j
          OBVIOUS
        <4> QED
          BY <1>5, <2>3, <3>1, <4>1
      <3>4. x.heap.obj[1].parsed
        BY <1>2, <2>3 DEF HeapInv, IndexInv, Later
      <3>5. /\ y.exc \in Parses /\ HeapInv(y.heap) /\ Later(x.heap, y.heap)
            /\ \A r : r \in DOMAIN y.heap.refs => r \in DOMAIN x.heap.refs \/ r = mem.refid
        BY <2>3, <2>4, <2>7, <3>1, <3>2, <3>3, <3>4, AddCompoundWorks DEF Parses
      <3>6. Later(k, y.heap)
        BY <1>2, <2>3, <3>5, LaterIsTransitive
      <3>7. \A r : r \in DOMAIN y.heap.refs => \E i \in 1 .. j : r = index[i].refid
        BY <2>3, <2>5, <3>1, <3>5
      <3> QED
        BY <1>10, <2>2, <3>5, <3>6, <3>7
    <2> QED
      BY <2>6, <2>7
  <1>13. n \in I
    BY <1>11, <1>12, UpTo
  <1>14. out.exc \in Parses /\ HeapInv(out.heap) /\ Later(k, out.heap)
    BY <1>8, <1>9, <1>10, <1>13
  <1>15. out.heap.obj[1].parsed
    BY <1>2, <1>14 DEF HeapInv, IndexInv, Later
  <1> QED
    BY <1>2, <1>14, <1>15, LaterIsTransitive

--------------------------------------------------------------------------------
(* The questions                                                            *)

LEMMA CheckParsedWorks ==
  ASSUME xml \in Xml, NEW h, HeapInv(h), NEW o \in Objects(h),
         NEW out, out = CheckParsed(h, o)
  PROVE  /\ out.exc \in Parses
         /\ HeapInv(out.heap) /\ Later(h, out.heap) /\ o \in Objects(out.heap)
         /\ out.heap.obj[o].parsed
  <1>1. CASE h.obj[o].parsed
    <2>1. out.exc = "none" /\ out.heap = h
      BY <1>1 DEF CheckParsed, Return
    <2> QED
      BY <1>1, <2>1, LaterIsReflexive DEF Parses
  <1>2. CASE ~ h.obj[o].parsed
    <2>1. out = Parse(h, o)
      BY <1>2 DEF CheckParsed
    <2>2. out.exc \in Parses /\ HeapInv(out.heap) /\ Later(h, out.heap) /\ out.heap.obj[o].parsed
      <3>1. CASE o = 1
        <4>1. out = ParseIndex(h)
          BY <2>1, <3>1 DEF Parse
        <4> QED
          BY <1>2, <3>1, <4>1, ParseIndexWorks
      <3>2. CASE o # 1
        <4>1. out = ParseOther(h, o)
          BY <2>1, <3>2 DEF Parse
        <4>2. h.obj[1].parsed
          BY <3>2 DEF HeapInv, IndexInv, Objects
        <4> QED
          BY <1>2, <3>2, <4>1, <4>2, ParseOtherWorks DEF Parses
      <3> QED
        BY <3>1, <3>2
    <2>3. o \in Objects(out.heap)
      <3>1. Len(h.obj) \in Nat /\ Len(out.heap.obj) \in Nat /\ Len(h.obj) <= Len(out.heap.obj)
        BY <2>2 DEF Later, HeapInv, ObjectsInv, IsSequence
      <3> QED
        BY <3>1 DEF Objects
    <2> QED
      BY <2>2, <2>3
  <1> QED
    BY <1>1, <1>2

LEMMA ConfirmNoErrorWorks ==
  ASSUME xml \in Xml, NEW h, HeapInv(h), NEW o \in Objects(h),
         NEW out, out = ConfirmNoError(h, o)
  PROVE  /\ out.exc \in Parses \cup {"ParsingError"}
         /\ HeapInv(out.heap) /\ Later(h, out.heap) /\ o \in Objects(out.heap)
         /\ out.heap.obj[o].parsed
         /\ o = 1 \/ (h.obj[o].parsed /\ ~ h.obj[o].error) => out.exc # "ParsingError"
         /\ h.obj[o].parsed /\ ~ h.obj[o].error => out.exc = "none"
  <1>1. PICK res : res = CheckParsed(h, o)
    OBVIOUS
  <1>2. /\ res.exc \in Parses
        /\ HeapInv(res.heap) /\ Later(h, res.heap) /\ o \in Objects(res.heap)
        /\ res.heap.obj[o].parsed
    BY <1>1, CheckParsedWorks
  <1>3. out.heap = res.heap
    BY <1>1 DEF ConfirmNoError, Then, Raise, Return
  <1>4. \/ out.exc \in Parses
        \/ out.exc = "ParsingError" /\ res.heap.obj[o].error
    BY <1>1, <1>2 DEF ConfirmNoError, Then, Raise, Return, Parses
  <1>5. o = 1 \/ (h.obj[o].parsed /\ ~ h.obj[o].error) => ~ res.heap.obj[o].error
    <2>1. o = 1 => ~ res.heap.obj[o].error
      BY <1>2 DEF HeapInv, IndexInv
    <2>2. h.obj[o].parsed => res.heap.obj[o].error = h.obj[o].error
      BY <1>2 DEF Later
    <2> QED
      BY <2>1, <2>2
  <1>6. "ParsingError" \notin Parses
    BY DEF Parses
  <1>7. h.obj[o].parsed /\ ~ h.obj[o].error => out.exc = "none"
    BY DEF ConfirmNoError, CheckParsed, Then, Return
  <1> QED
    BY <1>2, <1>3, <1>4, <1>5, <1>6, <1>7

LEMMA NameWorks ==
  ASSUME xml \in Xml, NEW h, HeapInv(h), NEW o \in Objects(h),
         NEW out, out = Name(h, o)
  PROVE  out.exc \in Parses /\ HeapInv(out.heap) /\ Later(h, out.heap)
  <1>1. CASE h.obj[o].name # NoName
    <2>1. out.exc = "none" /\ out.heap = h
      BY <1>1 DEF Name, Return
    <2> QED
      BY <2>1, LaterIsReflexive DEF Parses
  <1>2. CASE h.obj[o].name = NoName
    <2>1. PICK res : res = CheckParsed(h, o)
      OBVIOUS
    <2>2. res.exc \in Parses /\ HeapInv(res.heap) /\ Later(h, res.heap)
      BY <2>1, CheckParsedWorks
    <2>3. out.heap = res.heap /\ (out.exc = res.exc \/ out.exc = "AttributeError")
      BY <1>2, <2>1 DEF Name, Then, Raise
    <2> QED
      BY <2>2, <2>3 DEF Parses
  <1> QED
    BY <1>1, <1>2

LEMMA ErrorWorks ==
  ASSUME xml \in Xml, NEW h, HeapInv(h), NEW o \in Objects(h),
         NEW out, out = Error(h, o)
  PROVE  /\ out.exc \in Parses
         /\ HeapInv(out.heap) /\ Later(h, out.heap) /\ o \in Objects(out.heap)
         /\ out.heap.obj[o].parsed
         /\ out.exc = "none" => out.value = out.heap.obj[o].error
  <1>1. PICK res : res = CheckParsed(h, o)
    OBVIOUS
  <1>2. /\ res.exc \in Parses
        /\ HeapInv(res.heap) /\ Later(h, res.heap) /\ o \in Objects(res.heap)
        /\ res.heap.obj[o].parsed
    BY <1>1, CheckParsedWorks
  <1>3. /\ out.heap = res.heap /\ out.exc = res.exc
        /\ out.exc = "none" => out.value = out.heap.obj[o].error
    BY <1>1 DEF Error, Then, Return
  <1> QED
    BY <1>2, <1>3

LEMMA MembersWorks ==
  ASSUME xml \in Xml, NEW h, HeapInv(h), NEW o \in Objects(h)
  PROVE  HeapInv(Members(h, o).heap)
  <1>1. PICK res : res = ConfirmNoError(h, o)
    OBVIOUS
  <1>2. HeapInv(res.heap)
    BY <1>1, ConfirmNoErrorWorks
  <1>3. Members(h, o).heap = res.heap
    BY <1>1 DEF Members, Then, Return
  <1> QED
    BY <1>2, <1>3

LEMMA ChosenType ==
  ASSUME NEW S, NEW T, NEW ms \in Seq(S)
  PROVE  Chosen(ms, T) \in Seq(T)
  <1>1. PICK n \in Nat : n = Len(ms) /\ DOMAIN ms = 1 .. n
    BY LenProperties
  <1>2. PICK ss : ss = [i \in 1 .. n |-> IF ms[i] \in T THEN << ms[i] >> ELSE <<>>]
    OBVIOUS
  <1>3. \A i \in 1 .. n : (IF ms[i] \in T THEN << ms[i] >> ELSE <<>>) \in Seq(T)
    <2>1. \A m \in T : << m >> \in Seq(T)
      OBVIOUS
    <2> QED
      BY <2>1, EmptySeq
  <1>4. ss \in Seq(Seq(T))
    BY <1>2, <1>3, IsASeq
  <1>5. Chosen(ms, T) = FlattenSeq(ss)
    BY <1>1, <1>2 DEF Chosen
  <1> QED
    BY <1>4, <1>5, FlattenType

LEMMA LaterObjects ==
  ASSUME NEW h, NEW g, HeapInv(h), HeapInv(g), Later(h, g)
  PROVE  /\ \A o : o \in Objects(h) => o \in Objects(g)
         /\ \A s : s \in Seq(Objects(h)) => s \in Seq(Objects(g))
  <1>1. Len(h.obj) \in Nat /\ Len(g.obj) \in Nat /\ Len(h.obj) <= Len(g.obj)
    BY DEF Later, HeapInv, ObjectsInv, IsSequence
  <1>2. \A o : o \in Objects(h) => o \in Objects(g)
    BY <1>1 DEF Objects
  <1> QED
    BY <1>2, SeqIsLarger

(* A category that was computed is kept. *)
LEMMA CachedKeeps ==
  ASSUME NEW h, HeapInv(h), NEW o \in Objects(h), h.obj[o].parsed,
         NEW cat \in Categories, NEW found \in Seq(Objects(h)),
         NEW out, out = Cached(h, o, cat, found)
  PROVE  /\ out.exc = "none" /\ out.value = found
         /\ HeapInv(out.heap) /\ Later(h, out.heap)
  <1>1. PICK q : q = h.obj[o]
    OBVIOUS
  <1>2. IsObject(q, Len(h.obj))
    BY <1>1 DEF HeapInv, ObjectsInv
  <1>3. PICK cats : cats = [q.cats EXCEPT ![cat] = found]
    OBVIOUS
  <1>4. PICK r : r = [q EXCEPT !.cats = cats]
    OBVIOUS
  <1>5. /\ r.cls = q.cls /\ r.refid = q.refid /\ r.key = q.key /\ r.name = q.name
        /\ r.parsed = q.parsed /\ r.error = q.error /\ r.members = q.members /\ r.cats = cats
        /\ r = [cls |-> r.cls, refid |-> r.refid, key |-> r.key, name |-> r.name, parsed |-> r.parsed,
                error |-> r.error, members |-> r.members, cats |-> r.cats]
    BY <1>2, <1>4 DEF IsObject
  <1>6. /\ cats = [c \in Categories |-> cats[c]]
        /\ \A c \in Categories : cats[c] = Unset \/ cats[c] \in Seq(1 .. Len(h.obj))
    <2>1. PICK old : old = q.cats
      OBVIOUS
    <2>2. old = [c \in Categories |-> old[c]] /\ cats = [old EXCEPT ![cat] = found]
      BY <1>2, <1>3, <2>1 DEF IsObject
    <2>3. cats = [c \in Categories |-> IF c = cat THEN found ELSE old[c]]
      BY <2>2
    <2>4. found \in Seq(1 .. Len(h.obj))
      BY DEF Objects
    <2>5. \A c \in Categories : old[c] = Unset \/ old[c] \in Seq(1 .. Len(h.obj))
      BY <1>2, <2>1 DEF IsObject
    <2>6. \A c \in Categories : cats[c] = IF c = cat THEN found ELSE old[c]
      BY <2>3
    <2>7. \A c \in Categories : cats[c] = Unset \/ cats[c] \in Seq(1 .. Len(h.obj))
      BY <2>4, <2>5, <2>6
    <2> QED
      BY <2>3, <2>7
  <1>7. IsObject(r, Len(h.obj))
    BY <1>2, <1>5, <1>6 DEF IsObject
  <1>8. PICK g : g = [h EXCEPT !.obj[o].cats[cat] = found]
    OBVIOUS
  <1>9. g = Replaced(h, o, r)
    BY <1>1, <1>3, <1>4, <1>8 DEF Replaced
  <1>10. o = 1 => ~ r.error /\ r.parsed
    BY <1>1, <1>5 DEF HeapInv, IndexInv
  <1>11. /\ r.cls = h.obj[o].cls /\ r.refid = h.obj[o].refid
         /\ r.key = h.obj[o].key /\ r.name = h.obj[o].name
         /\ h.obj[o].parsed => r.parsed /\ r.error = h.obj[o].error
    BY <1>1, <1>5
  <1>12. r.cls \in {"Class", "File"} => Distinct(h, r.members)
    BY <1>1, <1>5 DEF HeapInv, MembersInv
  <1>13. HeapInv(g) /\ Later(h, g)
    BY <1>7, <1>9, <1>10, <1>11, <1>12, ReplaceObject
  <1>14. out.exc = "none" /\ out.value = found /\ out.heap = g
    BY <1>8 DEF Cached, Return
  <1> QED
    BY <1>13, <1>14

LEMMA InClassWorks ==
  ASSUME xml \in Xml, NEW h, HeapInv(h), NEW o \in Objects(h), NEW cls \in Categories,
         NEW out, out = InClass(h, o, cls)
  PROVE  /\ out.exc \in Parses \cup {"ParsingError"}
         /\ HeapInv(out.heap) /\ Later(h, out.heap)
         /\ out.heap.obj[o].parsed
         /\ o = 1 \/ (h.obj[o].parsed /\ ~ h.obj[o].error) => out.exc # "ParsingError"
         /\ h.obj[o].parsed /\ ~ h.obj[o].error => out.exc = "none"
         /\ out.exc = "none" => out.value \in Seq(Objects(out.heap))
  <1>1. PICK res : res = ConfirmNoError(h, o)
    OBVIOUS
  <1>2. /\ res.exc \in Parses \cup {"ParsingError"}
        /\ HeapInv(res.heap) /\ Later(h, res.heap) /\ o \in Objects(res.heap)
        /\ res.heap.obj[o].parsed
        /\ o = 1 \/ (h.obj[o].parsed /\ ~ h.obj[o].error) => res.exc # "ParsingError"
        /\ h.obj[o].parsed /\ ~ h.obj[o].error => res.exc = "none"
    BY <1>1, ConfirmNoErrorWorks
  <1>3. CASE res.exc # "none"
    <2>1. out = res
      BY <1>1, <1>3 DEF InClass, Then
    <2> QED
      BY <1>2, <1>3, <2>1
  <1>4. CASE res.exc = "none"
    <2>1. PICK g : g = res.heap
      OBVIOUS
    <2>2. IsObject(g.obj[o], Len(g.obj)) /\ DOMAIN g.obj = 1 .. Len(g.obj)
      BY <1>2, <2>1 DEF HeapInv, ObjectsInv, IsSequence
    <2>3. CASE g.obj[o].cats[cls] # Unset
      <3>1. out.exc = "none" /\ out.heap = g /\ out.value = g.obj[o].cats[cls]
        BY <1>1, <1>4, <2>1, <2>3 DEF InClass, Then, Return
      <3>2. out.value \in Seq(Objects(g))
        BY <2>2, <2>3, <3>1 DEF IsObject, Objects
      <3> QED
        BY <1>2, <2>1, <3>1, <3>2 DEF Parses
    <2>4. CASE g.obj[o].cats[cls] = Unset
      <3>1. PICK found : found = OfClass(g, g.obj[o].members, cls)
        OBVIOUS
      <3>2. found \in Seq(Objects(g))
        <4>1. PICK T : T = {m \in DOMAIN g.obj : g.obj[m].cls = cls}
          OBVIOUS
        <4>2. PICK ms : ms = g.obj[o].members
          OBVIOUS
        <4>3. ms \in Seq(0 .. Len(g.obj))
          BY <2>2, <4>2 DEF IsObject
        <4>4. found = Chosen(ms, T)
          BY <3>1, <4>1, <4>2 DEF OfClass
        <4>5. found \in Seq(T)
          BY <4>3, <4>4, ChosenType
        <4>6. \A m : m \in T => m \in Objects(g)
          BY <2>2, <4>1 DEF Objects
        <4> QED
          BY <4>5, <4>6, SeqIsLarger
      <3>3. out = Cached(g, o, cls, found)
        BY <1>1, <1>4, <2>1, <2>4, <3>1 DEF InClass, Then
      <3>4. HeapInv(g) /\ o \in Objects(g) /\ g.obj[o].parsed
        BY <1>2, <2>1
      <3>5. /\ out.exc = "none" /\ out.value = found
            /\ HeapInv(out.heap) /\ Later(g, out.heap)
        BY <3>2, <3>3, <3>4, CachedKeeps
      <3>6. out.value \in Seq(Objects(out.heap))
        BY <3>2, <3>4, <3>5, LaterObjects
      <3>7. Later(h, out.heap)
        BY <1>2, <2>1, <3>4, <3>5, LaterIsTransitive
      <3>8. out.heap.obj[o].parsed
        BY <3>4, <3>5 DEF Later
      <3> QED
        BY <3>5, <3>6, <3>7, <3>8 DEF Parses
    <2> QED
      BY <2>3, <2>4
  <1> QED
    BY <1>3, <1>4

LEMMA NamesOfWorks ==
  ASSUME xml \in Xml, NEW h, HeapInv(h), NEW ms \in Seq(Objects(h)),
         NEW out, out = NamesOf(h, ms)
  PROVE  out.exc \in Parses /\ HeapInv(out.heap) /\ Later(h, out.heap)
  <1>1. PICK n \in Nat : n = Len(ms) /\ DOMAIN ms = 1 .. n
    BY LenProperties
  <1>2. PICK base : base = Return(h, <<>>)
    OBVIOUS
  <1>3. base.exc = "none" /\ base.heap = h
    BY <1>2 DEF Return
  <1>4. out = AllNames(base, ms)
    BY <1>2 DEF NamesOf, AllNames
  <1>5. PICK W : /\ W[0] = base /\ W[n] = AllNames(base, ms)
                 /\ \A j \in 1 .. n : W[j] = AskNameOf(W[j - 1], ms[j])
    <2>1. PICK W : NamesGo(W, base, ms, n)
      BY <1>1, NamesRun
    <2> QED
      BY <2>1 DEF NamesGo
  <1>6. PICK I : I = {j \in 0 .. n : W[j].exc \in Parses /\ HeapInv(W[j].heap) /\ Later(h, W[j].heap)}
    OBVIOUS
  <1>7. 0 \in I
    BY <1>3, <1>5, <1>6, LaterIsReflexive DEF Parses
  <1>8. ASSUME NEW j \in 1 .. n, j - 1 \in I PROVE j \in I
    <2>1. PICK x : x = W[j - 1]
      OBVIOUS
    <2>2. PICK y : y = W[j]
      OBVIOUS
    <2>3. x.exc \in Parses /\ HeapInv(x.heap) /\ Later(h, x.heap)
      BY <1>6, <1>8, <2>1
    <2>4. PICK m : m = ms[j]
      OBVIOUS
    <2>5. y = AskNameOf(x, m) /\ m \in Objects(h)
      <3>1. \A i \in 1 .. Len(ms) : ms[i] \in Objects(h)
        BY ElementOfSeq
      <3> QED
        BY <1>1, <1>5, <2>1, <2>2, <2>4, <3>1
    <2>6. CASE x.exc # "none"
      <3>1. y = x
        BY <2>5, <2>6 DEF AskNameOf, Then
      <3>2. y.exc \in Parses /\ HeapInv(y.heap) /\ Later(h, y.heap)
        BY <2>3, <3>1
      <3> QED
        BY <1>6, <2>2, <3>2
    <2>7. CASE x.exc = "none"
      <3>1. m \in Objects(x.heap) /\ m # None
        <4>1. 0 \notin 1 .. Len(h.obj)
          OBVIOUS
        <4> QED
          BY <2>3, <2>5, <4>1, LaterObjects DEF Objects, None
      <3>2. PICK res : res = Name(x.heap, m)
        OBVIOUS
      <3>3. res.exc \in Parses /\ HeapInv(res.heap) /\ Later(x.heap, res.heap)
        BY <2>3, <3>1, <3>2, NameWorks
      <3>4. y.exc = res.exc /\ y.heap = res.heap
        BY <2>5, <2>7, <3>1, <3>2 DEF AskNameOf, Then, Return
      <3>5. Later(h, y.heap)
        BY <2>3, <3>3, <3>4, LaterIsTransitive
      <3> QED
        BY <1>6, <2>2, <3>3, <3>4, <3>5
    <2> QED
      BY <2>6, <2>7
  <1>9. n \in I
    BY <1>7, <1>8, UpTo
  <1> QED
    BY <1>4, <1>5, <1>6, <1>9

Searches == Parses \cup {"NoSuchMember", "Duplicate"}

LEMMA FindWorks ==
  ASSUME xml \in Xml, NEW h, HeapInv(h), NEW ms \in Seq(Objects(h)), NEW n,
         NEW out, out = Find(h, ms, n)
  PROVE  out.exc \in Searches /\ HeapInv(out.heap) /\ Later(h, out.heap)
  <1> DEFINE names == NamesOf(h, ms)
             places == SelectSeq([i \in DOMAIN ms |-> i], LAMBDA i : names.value[i] = n)
             found == [i \in DOMAIN places |-> ms[places[i]]]
  <1>1. out = IF names.exc = "none" THEN TheOnly(names.heap, found) ELSE names
    BY DEF Find, Then
  <1> HIDE DEF found, names
  <1>2. names.exc \in Parses /\ HeapInv(names.heap) /\ Later(h, names.heap)
    BY NamesOfWorks DEF names
  <1>3. \A g : TheOnly(g, found).exc \in Searches /\ TheOnly(g, found).heap = g
    BY DEF TheOnly, Raise, Return, Searches, Parses
  <1> QED
    BY <1>1, <1>2, <1>3 DEF Searches

LEMMA GetMemberWorks ==
  ASSUME xml \in Xml, NEW h, HeapInv(h), NEW o \in Objects(h), NEW n, NEW cls \in Categories,
         NEW out, out = GetMember(h, o, n, cls)
  PROVE  /\ out.exc \in Searches \cup {"ParsingError"}
         /\ HeapInv(out.heap) /\ Later(h, out.heap)
         /\ o = 1 \/ (h.obj[o].parsed /\ ~ h.obj[o].error) => out.exc # "ParsingError"
  <1>1. PICK res : res = InClass(h, o, cls)
    OBVIOUS
  <1>2. /\ res.exc \in Parses \cup {"ParsingError"}
        /\ HeapInv(res.heap) /\ Later(h, res.heap)
        /\ o = 1 \/ (h.obj[o].parsed /\ ~ h.obj[o].error) => res.exc # "ParsingError"
        /\ res.exc = "none" => res.value \in Seq(Objects(res.heap))
    BY <1>1, InClassWorks
  <1>3. CASE res.exc # "none"
    <2>1. out = res
      BY <1>1, <1>3 DEF GetMember, Then
    <2> QED
      BY <1>2, <2>1 DEF Searches
  <1>4. CASE res.exc = "none"
    <2>1. PICK k : k = res.heap
      OBVIOUS
    <2>2. PICK ms : ms = res.value
      OBVIOUS
    <2>3. HeapInv(k) /\ Later(h, k) /\ ms \in Seq(Objects(k))
      BY <1>2, <1>4, <2>1, <2>2
    <2>4. out = Find(k, ms, n)
      BY <1>1, <1>4, <2>1, <2>2 DEF GetMember, Then
    <2>5. out.exc \in Searches /\ HeapInv(out.heap) /\ Later(k, out.heap)
      BY <2>3, <2>4, FindWorks
    <2>6. "ParsingError" \notin Searches
      BY DEF Searches, Parses
    <2> QED
      BY <2>3, <2>5, <2>6, LaterIsTransitive
  <1> QED
    BY <1>3, <1>4

LEMMA HasMemberWorks ==
  ASSUME xml \in Xml, NEW h, HeapInv(h), NEW o \in Objects(h), NEW n, NEW cls \in Categories,
         NEW out, out = HasMember(h, o, n, cls)
  PROVE  /\ HeapInv(out.heap) /\ Later(h, out.heap)
         /\ o = 1 \/ (h.obj[o].parsed /\ ~ h.obj[o].error) => out.exc # "ParsingError"
  <1>1. PICK res : res = GetMember(h, o, n, cls)
    OBVIOUS
  <1>2. /\ HeapInv(res.heap) /\ Later(h, res.heap)
        /\ o = 1 \/ (h.obj[o].parsed /\ ~ h.obj[o].error) => res.exc # "ParsingError"
    BY <1>1, GetMemberWorks
  <1>3. out = IsFound(res)
    BY <1>1 DEF HasMember
  <1>4. /\ out.heap = res.heap
        /\ out.exc = "none" \/ out.exc = res.exc
    BY <1>3 DEF IsFound, Return
  <1> QED
    BY <1>2, <1>4

(* The parsing error of a class is asked for before anything else of it. *)
LEMMA IsBlockWorks ==
  ASSUME xml \in Xml, NEW h, HeapInv(h), NEW m \in 0 .. Len(h.obj),
         NEW out, out = IsBlock(h, m)
  PROVE  /\ out.exc # "ParsingError"
         /\ HeapInv(out.heap) /\ Later(h, out.heap)
         /\ m = None => out.exc = "none" /\ out.value = FALSE
  <1>1. CASE ~ IsClass(h, m)
    <2>1. out.exc = "none" /\ out.value = FALSE /\ out.heap = h
      BY <1>1 DEF IsBlock, Return
    <2> QED
      BY <2>1, LaterIsReflexive
  <1>2. CASE IsClass(h, m)
    <2>1. m # None /\ m \in Objects(h)
      BY <1>2 DEF IsClass, Objects, None
    <2>2. PICK asked : asked = Error(h, m)
      OBVIOUS
    <2>3. /\ asked.exc \in Parses
          /\ HeapInv(asked.heap) /\ Later(h, asked.heap) /\ m \in Objects(asked.heap)
          /\ asked.heap.obj[m].parsed
          /\ asked.exc = "none" => asked.value = asked.heap.obj[m].error
      BY <2>1, <2>2, ErrorWorks
    <2>4. "ParsingError" \notin Parses
      BY DEF Parses
    <2>5. CASE asked.exc # "none"
      <3>1. out = asked
        BY <1>2, <2>2, <2>5 DEF IsBlock, Then
      <3> QED
        BY <2>1, <2>3, <2>4, <3>1
    <2>6. CASE asked.exc = "none" /\ asked.value
      <3>1. out.exc = "none" /\ out.heap = asked.heap
        BY <1>2, <2>2, <2>6 DEF IsBlock, Then, Return
      <3> QED
        BY <2>1, <2>3, <3>1
    <2>7. CASE asked.exc = "none" /\ ~ asked.value
      <3>1. PICK g : g = asked.heap
        OBVIOUS
      <3>2. HeapInv(g) /\ Later(h, g) /\ m \in Objects(g) /\ g.obj[m].parsed /\ ~ g.obj[m].error
        BY <2>3, <2>7, <3>1
      <3>3. PICK named : named = Name(g, m)
        OBVIOUS
      <3>4. named.exc \in Parses /\ HeapInv(named.heap) /\ Later(g, named.heap)
        BY <3>2, <3>3, NameWorks
      <3>5. Later(h, named.heap)
        BY <3>2, <3>4, LaterIsTransitive
      <3>6. CASE named.exc # "none"
        <4>1. out = named
          BY <1>2, <2>2, <2>7, <3>1, <3>3, <3>6 DEF IsBlock, Then
        <4> QED
          BY <2>1, <2>4, <3>4, <3>5, <4>1
      <3>7. CASE named.exc = "none"
        <4>1. PICK k : k = named.heap
          OBVIOUS
        <4>2. PICK n : n = MakeName[named.value]
          OBVIOUS
        <4>3. PICK cls : cls = "Friend"
          OBVIOUS
        <4>4. cls \in Categories
          BY <4>3 DEF Categories
        <4>5. out = HasMember(k, m, n, cls)
          BY <1>2, <2>2, <2>7, <3>1, <3>3, <3>7, <4>1, <4>2, <4>3 DEF IsBlock, Then
        <4>6. HeapInv(k) /\ m \in Objects(k) /\ k.obj[m].parsed /\ ~ k.obj[m].error
          <5>1. HeapInv(k) /\ Later(g, k)
            BY <3>4, <4>1
          <5>2. m \in Objects(k)
            BY <3>2, <5>1, LaterObjects
          <5> QED
            BY <3>2, <5>1, <5>2 DEF Later
        <4>7. HeapInv(out.heap) /\ Later(k, out.heap) /\ out.exc # "ParsingError"
          BY <4>4, <4>5, <4>6, HasMemberWorks
        <4>8. Later(h, out.heap)
          BY <3>5, <4>1, <4>6, <4>7, LaterIsTransitive
        <4> QED
          BY <2>1, <4>7, <4>8
      <3> QED
        BY <3>6, <3>7
    <2>8. asked.exc = "none" => asked.value \in BOOLEAN
      <3>1. IsObject(asked.heap.obj[m], Len(asked.heap.obj))
        BY <2>3 DEF HeapInv, ObjectsInv
      <3> QED
        BY <2>3, <3>1 DEF IsObject
    <2> QED
      BY <2>5, <2>6, <2>7, <2>8
  <1> QED
    BY <1>1, <1>2

LEMMA AskBlockWorks ==
  ASSUME xml \in Xml, NEW x, x.exc = "none", HeapInv(x.heap), x.value \in Seq(Objects(x.heap)),
         NEW m \in 0 .. Len(x.heap.obj), NEW y, y = AskBlock(x, m)
  PROVE  /\ y.exc # "ParsingError" /\ HeapInv(y.heap) /\ Later(x.heap, y.heap)
         /\ y.exc = "none" => y.value \in Seq(Objects(y.heap))
  <1>1. PICK h : h = x.heap
    OBVIOUS
  <1>2. PICK blocks : blocks = x.value
    OBVIOUS
  <1>3. PICK res : res = IsBlock(h, m)
    OBVIOUS
  <1>4. /\ res.exc # "ParsingError" /\ HeapInv(res.heap) /\ Later(h, res.heap)
        /\ m = None => res.exc = "none" /\ res.value = FALSE
    BY <1>1, <1>3, IsBlockWorks
  <1>5. CASE res.exc # "none"
    <2>1. y = res
      BY <1>1, <1>2, <1>3, <1>5 DEF AskBlock, Then
    <2> QED
      BY <1>1, <1>4, <1>5, <2>1
  <1>6. CASE res.exc = "none"
    <2>1. y.exc = "none" /\ y.heap = res.heap /\ y.value = IF res.value THEN Append(blocks, m) ELSE blocks
      BY <1>1, <1>2, <1>3, <1>6 DEF AskBlock, Then, Return
    <2>2. blocks \in Seq(Objects(res.heap))
      BY <1>1, <1>2, <1>4, LaterObjects
    <2>3. CASE res.value /\ m # None
      <3>1. m \in Objects(h)
        BY <1>1, <2>3 DEF Objects, None
      <3>2. m \in Objects(res.heap)
        BY <1>1, <1>4, <3>1, LaterObjects
      <3>3. Append(blocks, m) \in Seq(Objects(res.heap))
        BY <2>2, <3>2, AppendProperties
      <3> QED
        BY <1>1, <1>4, <2>1, <2>3, <3>3
    <2>4. CASE ~ (res.value /\ m # None)
      <3>1. y.value = blocks
        BY <1>4, <2>1, <2>4
      <3> QED
        BY <1>1, <1>4, <2>1, <2>2, <3>1
    <2> QED
      BY <2>3, <2>4
  <1> QED
    BY <1>5, <1>6

LEMMA BlocksAreAsked ==
  ASSUME xml \in Xml, NEW h, HeapInv(h), NEW ms, NEW n \in Nat, DOMAIN ms = 1 .. n,
         \A j \in 1 .. n : ms[j] \in 0 .. Len(h.obj),
         NEW base, base = Return(h, <<>>), NEW out, out = AllBlocks(base, ms)
  PROVE  /\ out.exc # "ParsingError" /\ HeapInv(out.heap) /\ Later(h, out.heap)
         /\ out.exc = "none" => out.value \in Seq(Objects(out.heap))
  <1>2. base.exc = "none" /\ base.heap = h /\ base.value = <<>>
    BY DEF Return
  <1>3. PICK W : /\ W[0] = base /\ W[n] = AllBlocks(base, ms)
                 /\ \A j \in 1 .. n : W[j] = AskBlock(W[j - 1], ms[j])
    <2>1. PICK W : BlocksGo(W, base, ms, n)
      BY BlocksRun
    <2> QED
      BY <2>1 DEF BlocksGo
  <1>4. PICK I : I = {j \in 0 .. n :
                        /\ W[j].exc # "ParsingError" /\ HeapInv(W[j].heap) /\ Later(h, W[j].heap)
                        /\ W[j].exc = "none" => W[j].value \in Seq(Objects(W[j].heap))}
    OBVIOUS
  <1>5. 0 \in I
    <2>1. base.value \in Seq(Objects(base.heap))
      BY <1>2, EmptySeq
    <2> QED
      BY <1>2, <1>3, <1>4, <2>1, LaterIsReflexive
  <1>6. ASSUME NEW j \in 1 .. n, j - 1 \in I PROVE j \in I
    <2>1. PICK x : x = W[j - 1]
      OBVIOUS
    <2>2. PICK y : y = W[j]
      OBVIOUS
    <2>3. /\ x.exc # "ParsingError" /\ HeapInv(x.heap) /\ Later(h, x.heap)
          /\ x.exc = "none" => x.value \in Seq(Objects(x.heap))
      BY <1>4, <1>6, <2>1
    <2>4. PICK m : m = ms[j]
      OBVIOUS
    <2>5. y = AskBlock(x, m) /\ m \in 0 .. Len(h.obj)
      BY <1>3, <2>1, <2>2, <2>4
    <2>6. /\ y.exc # "ParsingError" /\ HeapInv(y.heap) /\ Later(h, y.heap)
          /\ y.exc = "none" => y.value \in Seq(Objects(y.heap))
      <3>1. CASE x.exc # "none"
        <4>1. y = x
          BY <2>5, <3>1 DEF AskBlock, Then
        <4> QED
          BY <2>3, <4>1
      <3>2. CASE x.exc = "none"
        <4>1. m \in 0 .. Len(x.heap.obj)
          <5>1. m \in 0 .. Len(h.obj) /\ Len(h.obj) \in Nat /\ Len(x.heap.obj) \in Nat /\ Len(h.obj) <= Len(x.heap.obj)
            BY <2>3, <2>5 DEF Later, HeapInv, ObjectsInv, IsSequence
          <5> QED
            BY <5>1
        <4>2. /\ y.exc # "ParsingError" /\ HeapInv(y.heap) /\ Later(x.heap, y.heap)
              /\ y.exc = "none" => y.value \in Seq(Objects(y.heap))
          BY <2>3, <2>5, <3>2, <4>1, AskBlockWorks
        <4> QED
          BY <2>3, <4>2, LaterIsTransitive
      <3> QED
        BY <3>1, <3>2
    <2> QED
      BY <1>4, <2>2, <2>6
  <1>7. n \in I
    BY <1>5, <1>6, UpTo
  <1> QED
    BY <1>3, <1>4, <1>7

LEMMA BlocksWorks ==
  ASSUME xml \in Xml, NEW h, HeapInv(h), NEW o \in Objects(h),
         NEW out, out = Blocks(h, o)
  PROVE  /\ HeapInv(out.heap) /\ Later(h, out.heap) /\ out.heap.obj[o].parsed
         /\ o = 1 => out.exc # "ParsingError"
         /\ out.exc = "none" => out.value \in Seq(Objects(out.heap))
  <1>1. PICK res : res = ConfirmNoError(h, o)
    OBVIOUS
  <1>2. /\ HeapInv(res.heap) /\ Later(h, res.heap) /\ o \in Objects(res.heap)
        /\ res.heap.obj[o].parsed
        /\ o = 1 => res.exc # "ParsingError"
    BY <1>1, ConfirmNoErrorWorks
  <1>3. CASE res.exc # "none"
    <2>1. out = res
      BY <1>1, <1>3 DEF Blocks, Then
    <2> QED
      BY <1>2, <1>3, <2>1
  <1>4. CASE res.exc = "none"
    <2>1. PICK g : g = res.heap
      OBVIOUS
    <2>2. IsObject(g.obj[o], Len(g.obj)) /\ HeapInv(g) /\ Later(h, g) /\ o \in Objects(g)
      BY <1>2, <2>1 DEF HeapInv, ObjectsInv
    <2>3. PICK cat : cat = "Block"
      OBVIOUS
    <2>4. cat \in Categories
      BY <2>3 DEF Categories
    <2>5. CASE g.obj[o].cats[cat] # Unset
      <3>1. out.exc = "none" /\ out.heap = g /\ out.value = g.obj[o].cats[cat]
        BY <1>1, <1>4, <2>1, <2>3, <2>5 DEF Blocks, Then, Return
      <3>2. out.value \in Seq(Objects(g))
        BY <2>2, <2>4, <2>5, <3>1 DEF IsObject, Objects
      <3> QED
        BY <1>2, <2>1, <3>1, <3>2
    <2>6. CASE g.obj[o].cats[cat] = Unset
      <3>1. PICK ms : ms = g.obj[o].members
        OBVIOUS
      <3>2. PICK base : base = Return(g, <<>>)
        OBVIOUS
      <3>3. PICK asked : asked = AllBlocks(base, ms)
        OBVIOUS
      <3>4. ms \in Seq(0 .. Len(g.obj))
        BY <2>2, <3>1 DEF IsObject
      <3>ms. /\ Len(ms) \in Nat /\ DOMAIN ms = 1 .. Len(ms)
             /\ \A j \in 1 .. Len(ms) : ms[j] \in 0 .. Len(g.obj)
        BY <3>4, LenProperties, ElementOfSeq
      <3>5. /\ asked.exc # "ParsingError" /\ HeapInv(asked.heap) /\ Later(g, asked.heap)
            /\ asked.exc = "none" => asked.value \in Seq(Objects(asked.heap))
        BY <2>2, <3>2, <3>3, <3>ms, BlocksAreAsked
      <3>6. /\ asked.heap.obj[o].parsed /\ o \in Objects(asked.heap) /\ Later(h, asked.heap)
        <4>1. PICK k : k = asked.heap
          OBVIOUS
        <4>2. HeapInv(k) /\ Later(g, k)
          BY <3>5, <4>1
        <4>3. Later(h, k)
          BY <2>2, <4>2, LaterIsTransitive
        <4>4. o \in Objects(k)
          BY <2>2, <4>2, LaterObjects
        <4>5. k.obj[o].parsed
          BY <1>2, <2>1, <2>2, <4>2 DEF Later
        <4> QED
          BY <4>1, <4>3, <4>4, <4>5
      <3>7. out = IF asked.exc = "none" THEN Cached(asked.heap, o, cat, asked.value) ELSE asked
        BY <1>1, <1>4, <2>1, <2>3, <2>6, <3>1, <3>2, <3>3 DEF Blocks, Then, AllBlocks
      <3>8. CASE asked.exc # "none"
        BY <3>5, <3>6, <3>7, <3>8
      <3>9. CASE asked.exc = "none"
        <4>1. PICK k : k = asked.heap
          OBVIOUS
        <4>2. PICK found : found = asked.value
          OBVIOUS
        <4>3. /\ HeapInv(k) /\ Later(h, k) /\ o \in Objects(k) /\ k.obj[o].parsed
              /\ found \in Seq(Objects(k)) /\ out = Cached(k, o, cat, found)
          BY <3>5, <3>6, <3>7, <3>9, <4>1, <4>2
        <4>4. /\ out.exc = "none" /\ out.value = found
              /\ HeapInv(out.heap) /\ Later(k, out.heap)
          BY <2>4, <4>3, CachedKeeps
        <4>5. out.value \in Seq(Objects(out.heap)) /\ out.heap.obj[o].parsed
          BY <4>3, <4>4, LaterObjects DEF Later
        <4>6. Later(h, out.heap)
          BY <4>3, <4>4, LaterIsTransitive
        <4> QED
          BY <4>4, <4>5, <4>6
      <3> QED
        BY <3>8, <3>9
    <2> QED
      BY <2>5, <2>6
  <1> QED
    BY <1>3, <1>4

LEMMA InCategoryWorks ==
  ASSUME xml \in Xml, NEW h, HeapInv(h), NEW o \in Objects(h), NEW cat \in Categories,
         NEW out, out = InCategory(h, o, cat)
  PROVE  /\ HeapInv(out.heap) /\ Later(h, out.heap) /\ out.heap.obj[o].parsed
         /\ o = 1 => out.exc # "ParsingError"
         /\ out.exc = "none" => out.value \in Seq(Objects(out.heap))
         /\ cat # "Block" /\ h.obj[o].parsed /\ ~ h.obj[o].error => out.exc = "none"
  <1>1. CASE cat = "Block"
    <2>1. out = Blocks(h, o)
      BY <1>1 DEF InCategory
    <2> QED
      BY <1>1, <2>1, BlocksWorks
  <1>2. CASE cat # "Block"
    <2>1. out = InClass(h, o, cat)
      BY <1>2 DEF InCategory
    <2> QED
      BY <1>2, <2>1, InClassWorks
  <1> QED
    BY <1>1, <1>2

--------------------------------------------------------------------------------
(* The pass of SwigDoc                                                      *)

LEMMA FunctionIsACategory == "Function" \in Categories /\ "File" \in Categories /\ "Class" \in Categories
  BY DEF Categories

LEMMA ClassEntryWorks ==
  ASSUME xml \in Xml, NEW h, HeapInv(h), NEW k \in Objects(h), NEW about,
         NEW out, out = ClassEntry(h, k, about)
  PROVE  HeapInv(out.heap) /\ Later(h, out.heap)
  <1>1. PICK cls : cls = "Function"
    OBVIOUS
  <1>2. PICK res : res = InClass(h, k, cls)
    OBVIOUS
  <1>3. HeapInv(res.heap) /\ Later(h, res.heap)
    BY <1>1, <1>2, FunctionIsACategory, InClassWorks
  <1>4. out.heap = res.heap
    BY <1>1, <1>2 DEF ClassEntry, Then, Return
  <1> QED
    BY <1>3, <1>4

LEMMA MakeFunctionWorks ==
  ASSUME xml \in Xml, NEW h, HeapInv(h), NEW b, NEW out, out = MakeFunction(h, b)
  PROVE  HeapInv(out.heap) /\ Later(h, out.heap)
  <1>1. PICK o : o = 1
    OBVIOUS
  <1>2. PICK cls : cls = "Function"
    OBVIOUS
  <1>3. out = GetMember(h, o, MakeName[h.obj[b].name], cls) /\ o \in Objects(h)
    BY <1>1, <1>2 DEF MakeFunction, HeapInv, IndexInv
  <1> QED
    BY <1>2, <1>3, FunctionIsACategory, GetMemberWorks

LEMMA HeaderOfWorks ==
  ASSUME xml \in Xml, NEW h, HeapInv(h), NEW b, NEW out, out = HeaderOf(h, b)
  PROVE  HeapInv(out.heap) /\ Later(h, out.heap)
  <1>1. PICK o : o = 1
    OBVIOUS
  <1>2. PICK cls : cls = "File"
    OBVIOUS
  <1>3. PICK res : res = GetMember(h, o, HeaderName[h.obj[b].name], cls)
    OBVIOUS
  <1>4. o \in Objects(h)
    BY <1>1 DEF HeapInv, IndexInv
  <1>5. HeapInv(res.heap) /\ Later(h, res.heap)
    BY <1>2, <1>3, <1>4, FunctionIsACategory, GetMemberWorks
  <1>6. out.heap = res.heap
    BY <1>1, <1>2, <1>3 DEF HeaderOf, Return
  <1> QED
    BY <1>5, <1>6

LEMMA BlockEntryWorks ==
  ASSUME xml \in Xml, NEW h, HeapInv(h), NEW b \in Objects(h),
         NEW out, out = BlockEntry(h, b)
  PROVE  HeapInv(out.heap) /\ Later(h, out.heap)
  <1>1. PICK make : make = MakeFunction(h, b)
    OBVIOUS
  <1>2. HeapInv(make.heap) /\ Later(h, make.heap)
    BY <1>1, MakeFunctionWorks
  <1>3. CASE make.exc # "none"
    <2>1. out = make
      BY <1>1, <1>3 DEF BlockEntry, Then
    <2> QED
      BY <1>2, <2>1
  <1>4. CASE make.exc = "none"
    <2>1. PICK h1 : h1 = make.heap
      OBVIOUS
    <2>2. PICK header : header = HeaderOf(h1, b)
      OBVIOUS
    <2>3. PICK h2 : h2 = header.heap
      OBVIOUS
    <2>4. HeapInv(h2) /\ Later(h, h2)
      <3>1. HeapInv(h1) /\ Later(h, h1)
        BY <1>2, <2>1
      <3>2. HeapInv(h2) /\ Later(h1, h2)
        BY <2>2, <2>3, <3>1, HeaderOfWorks
      <3> QED
        BY <3>1, <3>2, LaterIsTransitive
    <2>5. CASE header.exc # "none"
      <3>1. out = header
        BY <1>1, <1>4, <2>1, <2>2, <2>5 DEF BlockEntry, Then
      <3> QED
        BY <2>3, <2>4, <3>1
    <2>6. CASE header.exc = "none"
      <3>1. PICK about : about = Description(h2, b) \o Description(h2, make.value)
                                   \o IF header.value = None THEN <<>> ELSE Description(h2, header.value)
        OBVIOUS
      <3>2. PICK class : class = ClassEntry(h2, b, about)
        OBVIOUS
      <3>3. PICK h3 : h3 = class.heap
        OBVIOUS
      <3>4. HeapInv(h3) /\ Later(h, h3)
        <4>1. b \in Objects(h2)
          BY <2>4, LaterObjects
        <4>2. HeapInv(h3) /\ Later(h2, h3)
          BY <2>4, <3>2, <3>3, <4>1, ClassEntryWorks
        <4> QED
          BY <2>4, <4>2, LaterIsTransitive
      <3>5. CASE class.exc # "none"
        <4>1. out = class
          BY <1>1, <1>4, <2>1, <2>2, <2>3, <2>6, <3>1, <3>2, <3>5 DEF BlockEntry, Then
        <4> QED
          BY <3>3, <3>4, <4>1
      <3>6. CASE class.exc = "none"
        <4>1. PICK cls : cls = "Function"
          OBVIOUS
        <4>2. PICK creator : creator = GetMember(h3, b, h3.obj[b].name, cls)
          OBVIOUS
        <4>3. HeapInv(creator.heap) /\ Later(h3, creator.heap)
          <5>1. b \in Objects(h3)
            BY <3>4, LaterObjects
          <5> QED
            BY <3>4, <4>1, <4>2, <5>1, FunctionIsACategory, GetMemberWorks
        <4>4. out.heap = creator.heap
          BY <1>1, <1>4, <2>1, <2>2, <2>3, <2>6, <3>1, <3>2, <3>3, <3>6, <4>1, <4>2 DEF BlockEntry, Then, Return
        <4> QED
          BY <3>4, <4>3, <4>4, LaterIsTransitive
      <3> QED
        BY <3>5, <3>6
    <2> QED
      BY <2>5, <2>6
  <1> QED
    BY <1>3, <1>4

LEMMA HeapInvStays ==
  ASSUME HeapInv(heap'), xml' = xml
  PROVE  HeapInv(heap)'
  <1>1. ObjectsInv(heap)'
    BY DEF HeapInv, ObjectsInv, IsObject, Objects, IsSequence
  <1>2. IndexInv(heap)'
    BY DEF HeapInv, IndexInv, Objects
  <1>3. RefsInv(heap)'
    BY DEF HeapInv, RefsInv, Objects
  <1>4. MembersInv(heap)'
    BY DEF HeapInv, MembersInv, Objects, Distinct
  <1> QED
    BY <1>1, <1>2, <1>3, <1>4 DEF HeapInv

(* Between two steps of the pass.                                          *)
GenInv ==
  /\ gen = [phase |-> gen.phase, todo |-> gen.todo, blocks |-> gen.blocks, made |-> gen.made,
            exc |-> gen.exc]
  /\ gen.exc # "ParsingError"
  /\ gen.phase \in {"blocks", "functions", "classes"} => heap.obj[1].parsed
  /\ gen.phase \in {"blocks", "classes"} => gen.todo \in Seq(Objects(heap))

SwigInv == xml \in Xml /\ HeapInv(heap) /\ GenInv

LEMMA SwigInvStays ==
  ASSUME SwigInv, xml' = xml, HeapInv(heap'), GenInv'
  PROVE  SwigInv'
  BY HeapInvStays DEF SwigInv

LEMMA SwigInvHolds ==
  ASSUME SwigInit
  PROVE  SwigInv
  <1>1. PICK r : r = NewObject("Index", NoRefid, "index", "index")
    OBVIOUS
  <1>2. /\ r.cls = "Index" /\ r.refid = NoRefid /\ r.key = "index" /\ r.name = "index"
        /\ r.parsed = FALSE /\ r.error = FALSE /\ r.members = <<>> /\ r.cats = [c \in Categories |-> Unset]
        /\ r = [cls |-> r.cls, refid |-> r.refid, key |-> r.key, name |-> r.name, parsed |-> r.parsed,
                error |-> r.error, members |-> r.members, cats |-> r.cats]
    BY <1>1 DEF NewObject
  <1>3. heap = [obj |-> << r >>, refs |-> <<>>]
    BY <1>1 DEF SwigInit, Init
  <1>4. /\ heap.obj = << r >> /\ heap.refs = <<>>
        /\ heap = [obj |-> heap.obj, refs |-> heap.refs]
    BY <1>3
  <1>5. /\ Len(heap.obj) = 1 /\ heap.obj[1] = r
        /\ heap.obj = [i \in 1 .. 1 |-> heap.obj[i]] /\ Objects(heap) = {1}
    <2>1. PICK s : s = << r >>
      OBVIOUS
    <2>2. Len(s) = 1 /\ s[1] = r /\ s \in Seq({r})
      BY <2>1
    <2>3. s = [i \in 1 .. Len(s) |-> s[i]]
      BY <2>2, LenProperties
    <2>4. 1 .. 1 = {1}
      OBVIOUS
    <2> QED
      BY <1>4, <2>1, <2>2, <2>3, <2>4 DEF Objects
  <1>6. IsObject(r, 1)
    BY <1>2, EmptySeq DEF IsObject, OfFiles
  <1>7. ObjectsInv(heap)
    BY <1>4, <1>5, <1>6 DEF ObjectsInv, IsSequence
  <1>8. IndexInv(heap)
    BY <1>2, <1>5 DEF IndexInv, NoName
  <1>9. RefsInv(heap)
    <2>1. \A q : q \notin DOMAIN heap.refs
      BY <1>4
    <2> QED
      BY <1>2, <1>5, <2>1 DEF RefsInv
  <1>10. MembersInv(heap)
    BY <1>2, <1>5 DEF MembersInv
  <1>11. GenInv
    BY DEF SwigInit, GenInv
  <1> QED
    BY <1>7, <1>8, <1>9, <1>10, <1>11 DEF SwigInv, HeapInv, SwigInit, Init

LEMMA AskedBeforeStep ==
  ASSUME SwigInv, AskedBefore
  PROVE  SwigInv'
  <1>1. xml' = xml /\ gen' = gen /\ gen.phase = "start"
    BY DEF AskedBefore, Next
  <1>2. xml \in Xml /\ HeapInv(heap) /\ GenInv
    BY DEF SwigInv
  <1>3. HeapInv(heap')
    <2>1. PICK o \in Compounds : \/ AskMembers(o)
                                 \/ AskError(o)
                                 \/ AskName(o)
                                 \/ \E cat \in Asked : AskCategory(o, cat)
      BY DEF AskedBefore, Next
    <2>2. o \in Objects(heap)
      BY <1>2 DEF Compounds, Objects, HeapInv, ObjectsInv, IsSequence
    <2>3. CASE AskMembers(o)
      BY <1>2, <2>2, <2>3, MembersWorks DEF AskMembers
    <2>4. CASE AskError(o)
      BY <1>2, <2>2, <2>4, ErrorWorks DEF AskError
    <2>5. CASE AskName(o)
      BY <1>2, <2>2, <2>5, NameWorks DEF AskName
    <2>6. CASE \E cat \in Asked : AskCategory(o, cat)
      <3>1. PICK cat \in Asked : AskCategory(o, cat)
        BY <2>6
      <3>2. cat \in Categories
        BY AskedAssumption
      <3> QED
        BY <1>2, <2>2, <3>1, <3>2, InCategoryWorks DEF AskCategory
    <2> QED
      BY <2>1, <2>3, <2>4, <2>5, <2>6
  <1>4. GenInv'
    BY <1>1, <1>2 DEF GenInv
  <1> QED
    BY <1>1, <1>3, <1>4, SwigInvStays

(* A call that may raise an exception, which ends the pass.               *)
LEMMA AbortStep ==
  ASSUME SwigInv, NEW out, HeapInv(out.heap), out.exc # "ParsingError", Abort(out)
  PROVE  SwigInv'
  <1>1. heap' = out.heap /\ xml' = xml /\ gen' = [gen EXCEPT !.phase = "raised", !.exc = out.exc]
    BY DEF Abort
  <1>2. GenInv'
    BY <1>1 DEF SwigInv, GenInv
  <1> QED
    BY <1>1, <1>2, SwigInvStays

LEMMA CollectBlocksStep ==
  ASSUME SwigInv, CollectBlocks
  PROVE  SwigInv'
  <1>1. PICK o : o = 1
    OBVIOUS
  <1>2. PICK cat : cat = "Block"
    OBVIOUS
  <1>3. PICK bs : bs = InCategory(heap, o, cat)
    OBVIOUS
  <1>4. /\ xml \in Xml /\ HeapInv(heap) /\ GenInv /\ o \in Objects(heap) /\ cat \in Categories
    BY <1>1, <1>2 DEF SwigInv, HeapInv, IndexInv, Categories
  <1>5. /\ HeapInv(bs.heap) /\ bs.heap.obj[o].parsed
        /\ bs.exc # "ParsingError"
        /\ bs.exc = "none" => bs.value \in Seq(Objects(bs.heap))
    BY <1>1, <1>3, <1>4, InCategoryWorks
  <1>6. \/ bs.exc # "none" /\ Abort(bs)
        \/ /\ bs.exc = "none" /\ heap' = bs.heap /\ xml' = xml
           /\ gen' = [Phase("blocks", bs.value) EXCEPT !.blocks = bs.value]
    BY <1>1, <1>2, <1>3 DEF CollectBlocks
  <1>7. CASE bs.exc # "none" /\ Abort(bs)
    BY <1>5, <1>7, AbortStep
  <1>8. CASE /\ bs.exc = "none" /\ heap' = bs.heap /\ xml' = xml
             /\ gen' = [Phase("blocks", bs.value) EXCEPT !.blocks = bs.value]
    <2>1. GenInv'
      BY <1>1, <1>4, <1>5, <1>8 DEF GenInv, Phase
    <2> QED
      BY <1>5, <1>8, <2>1, SwigInvStays
  <1> QED
    BY <1>6, <1>7, <1>8

LEMMA AttemptStep ==
  ASSUME SwigInv, NEW out, HeapInv(out.heap), Later(heap, out.heap), NEW made, Attempt(out, made)
  PROVE  SwigInv'
  <1>1. CASE out.exc \notin {"none", "ParsingError"} /\ Abort(out)
    BY <1>1, AbortStep
  <1>2. CASE /\ heap' = out.heap /\ xml' = xml
             /\ gen' = [gen EXCEPT !.todo = Tail(@), !.made = @ \cup made]
    <2>1. HeapInv(heap) /\ GenInv /\ gen.todo # <<>>
      BY DEF SwigInv, Attempt
    <2>2. heap.obj[1].parsed => out.heap.obj[1].parsed
      BY <2>1 DEF Later, HeapInv, IndexInv
    <2>3. ASSUME gen.todo \in Seq(Objects(heap)) PROVE Tail(gen.todo) \in Seq(Objects(out.heap))
      <3>1. gen.todo \in Seq(Objects(out.heap))
        BY <2>1, <2>3, LaterObjects
      <3> QED
        BY <2>1, <3>1, HeadTailProperties
    <2>4. GenInv'
      BY <1>2, <2>1, <2>2, <2>3 DEF GenInv
    <2> QED
      BY <1>2, <2>4, SwigInvStays
  <1> QED
    BY <1>1, <1>2 DEF Attempt

LEMMA DocumentBlockStep ==
  ASSUME SwigInv, DocumentBlock
  PROVE  SwigInv'
  <1>1. PICK b : b = Head(gen.todo)
    OBVIOUS
  <1>2. PICK out : out = BlockEntry(heap, b)
    OBVIOUS
  <1>3. xml \in Xml /\ HeapInv(heap) /\ b \in Objects(heap)
    BY <1>1, HeadTailProperties DEF SwigInv, GenInv, DocumentBlock
  <1>4. HeapInv(out.heap) /\ Later(heap, out.heap)
    BY <1>2, <1>3, BlockEntryWorks
  <1>5. Attempt(out, MadeBy(heap, b))
    BY <1>1, <1>2 DEF DocumentBlock
  <1> QED
    BY <1>4, <1>5, AttemptStep

LEMMA DocumentFunctionStep ==
  ASSUME SwigInv, DocumentFunction
  PROVE  SwigInv'
  <1>1. PICK out : out = Return(heap, FuncEntry(heap, Head(gen.todo), Description(heap, Head(gen.todo))))
    OBVIOUS
  <1>2. out.heap = heap /\ Attempt(out, {})
    BY <1>1 DEF Return, DocumentFunction
  <1>3. HeapInv(out.heap) /\ Later(heap, out.heap)
    BY <1>2, LaterIsReflexive DEF SwigInv
  <1> QED
    BY <1>2, <1>3, AttemptStep

LEMMA DocumentClassStep ==
  ASSUME SwigInv, DocumentClass
  PROVE  SwigInv'
  <1>1. PICK k : k = Head(gen.todo)
    OBVIOUS
  <1>2. PICK out : out = ClassEntry(heap, k, Description(heap, k))
    OBVIOUS
  <1>3. xml \in Xml /\ HeapInv(heap) /\ k \in Objects(heap)
    BY <1>1, HeadTailProperties DEF SwigInv, GenInv, DocumentClass
  <1>4. HeapInv(out.heap) /\ Later(heap, out.heap)
    BY <1>2, <1>3, ClassEntryWorks
  <1>5. Attempt(out, {})
    BY <1>1, <1>2 DEF DocumentClass
  <1> QED
    BY <1>4, <1>5, AttemptStep

(* The index was parsed by then, so that its categories are not refused.  *)
LEMMA IndexAnswers ==
  ASSUME SwigInv, heap.obj[1].parsed, NEW cat \in Categories, cat # "Block",
         NEW out, out = InCategory(heap, 1, cat)
  PROVE  /\ HeapInv(out.heap) /\ out.heap.obj[1].parsed
         /\ out.value \in Seq(Objects(out.heap))
  <1>1. PICK o : o = 1
    OBVIOUS
  <1>2. /\ xml \in Xml /\ HeapInv(heap) /\ o \in Objects(heap)
        /\ heap.obj[o].parsed /\ ~ heap.obj[o].error /\ out = InCategory(heap, o, cat)
    BY <1>1 DEF SwigInv, HeapInv, IndexInv
  <1>3. /\ HeapInv(out.heap) /\ out.heap.obj[o].parsed
        /\ out.exc = "none"
        /\ out.exc = "none" => out.value \in Seq(Objects(out.heap))
    BY <1>2, InCategoryWorks
  <1> QED
    BY <1>1, <1>3

LEMMA CollectFunctionsStep ==
  ASSUME SwigInv, CollectFunctions
  PROVE  SwigInv'
  <1>1. PICK cat : cat = "Function"
    OBVIOUS
  <1>2. PICK fs : fs = InCategory(heap, 1, cat)
    OBVIOUS
  <1>3. heap.obj[1].parsed /\ cat \in Categories /\ cat # "Block"
    BY <1>1, FunctionIsACategory DEF SwigInv, GenInv, CollectFunctions
  <1>4. HeapInv(fs.heap) /\ fs.heap.obj[1].parsed
    BY <1>2, <1>3, IndexAnswers
  <1>5. PICK todo : gen' = Phase("functions", todo)
    BY <1>1, <1>2 DEF CollectFunctions
  <1>6. heap' = fs.heap /\ xml' = xml
    BY <1>1, <1>2 DEF CollectFunctions
  <1>7. GenInv'
    BY <1>4, <1>5, <1>6 DEF SwigInv, GenInv, Phase
  <1> QED
    BY <1>4, <1>6, <1>7, SwigInvStays

LEMMA CollectClassesStep ==
  ASSUME SwigInv, CollectClasses
  PROVE  SwigInv'
  <1>1. PICK cat : cat = "Class"
    OBVIOUS
  <1>2. PICK ks : ks = InCategory(heap, 1, cat)
    OBVIOUS
  <1>3. heap.obj[1].parsed /\ cat \in Categories /\ cat # "Block"
    BY <1>1, FunctionIsACategory DEF SwigInv, GenInv, CollectClasses
  <1>4. HeapInv(ks.heap) /\ ks.heap.obj[1].parsed /\ ks.value \in Seq(Objects(ks.heap))
    BY <1>2, <1>3, IndexAnswers
  <1>5. PICK T : /\ gen' = Phase("classes", Chosen(ks.value, T))
                 /\ \A k \in T : k \in DOMAIN ks.heap.obj
    BY <1>1, <1>2 DEF CollectClasses
  <1>6. heap' = ks.heap /\ xml' = xml
    BY <1>1, <1>2 DEF CollectClasses
  <1>7. Chosen(ks.value, T) \in Seq(Objects(ks.heap))
    <2>1. Chosen(ks.value, T) \in Seq(T)
      BY <1>4, ChosenType
    <2>2. \A k : k \in T => k \in Objects(ks.heap)
      BY <1>4, <1>5 DEF Objects, HeapInv, ObjectsInv, IsSequence
    <2> QED
      BY <2>1, <2>2, SeqIsLarger
  <1>8. GenInv'
    BY <1>4, <1>5, <1>6, <1>7 DEF SwigInv, GenInv, Phase
  <1> QED
    BY <1>4, <1>6, <1>8, SwigInvStays

LEMMA WriteStep ==
  ASSUME SwigInv, Write
  PROVE  SwigInv'
  <1>1. heap' = heap /\ xml' = xml /\ gen' = Phase("done", <<>>)
    BY DEF Write
  <1>2. GenInv'
    BY <1>1 DEF SwigInv, GenInv, Phase
  <1> QED
    BY <1>1, <1>2, SwigInvStays DEF SwigInv

LEMMA SwigInvStutters ==
  ASSUME SwigInv, UNCHANGED genVars
  PROVE  SwigInv'
  <1>1. heap' = heap /\ xml' = xml /\ gen' = gen
    BY DEF genVars
  <1>2. GenInv'
    BY <1>1 DEF SwigInv, GenInv
  <1> QED
    BY <1>1, <1>2, SwigInvStays DEF SwigInv

(* The order of the heap is kept by every question of a client and by every *)
(* step of the pass, whether it succeeds or raises.                         *)
THEOREM SwigInvariance == SwigSpec => []SwigInv
  <1>1. SwigInit => SwigInv
    BY SwigInvHolds
  <1>2. SwigInv /\ [SwigNext]_genVars => SwigInv'
    BY AskedBeforeStep, CollectBlocksStep, DocumentBlockStep, CollectFunctionsStep, DocumentFunctionStep,
       CollectClassesStep, DocumentClassStep, WriteStep, SwigInvStutters DEF SwigNext
  <1> QED
    BY <1>1, <1>2, PTL DEF SwigSpec

(* Whatever was asked and whatever failed, a refid stands for one object.  *)
THEOREM RefidsStandForOneObject == SwigSpec => []OneObjectPerRefid
  <1>1. SwigInv => OneObjectPerRefid
    <2> SUFFICES ASSUME SwigInv, NEW i \in DOMAIN heap.obj, NEW j \in DOMAIN heap.obj,
                        heap.obj[i].refid = heap.obj[j].refid, heap.obj[i].refid # NoRefid
                 PROVE  i = j
      BY DEF OneObjectPerRefid
    <2>1. i \in Objects(heap) /\ j \in Objects(heap)
      BY DEF SwigInv, HeapInv, ObjectsInv, IsSequence, Objects
    <2> QED
      BY <2>1 DEF SwigInv, HeapInv, RefsInv
  <1> QED
    BY <1>1, SwigInvariance, PTL

(* process_memberdefs keeps one member of each name, for every file that a *)
(* class or a header may have.                                             *)
THEOREM MemberNamesAreUnique == SwigSpec => []NamesAreUnique
  <1>1. SwigInv => NamesAreUnique
    <2> SUFFICES ASSUME SwigInv, NEW o \in DOMAIN heap.obj, heap.obj[o].cls \in {"Class", "File"},
                        NEW i \in DOMAIN heap.obj[o].members, NEW j \in DOMAIN heap.obj[o].members,
                        i # j, heap.obj[o].members[i] # None, heap.obj[o].members[j] # None
                 PROVE  heap.obj[heap.obj[o].members[i]].name # heap.obj[heap.obj[o].members[j]].name
      BY DEF NamesAreUnique
    <2>1. PICK ms : ms = heap.obj[o].members
      OBVIOUS
    <2>2. o \in Objects(heap) /\ HeapInv(heap)
      BY DEF SwigInv, HeapInv, ObjectsInv, IsSequence, Objects
    <2>3. Distinct(heap, ms) /\ ms \in Seq(0 .. Len(heap.obj))
      BY <2>1, <2>2 DEF HeapInv, MembersInv, ObjectsInv, IsObject
    <2>4. DOMAIN ms = 1 .. Len(ms)
      BY <2>3, LenProperties
    <2> QED
      BY <2>1, <2>3, <2>4 DEF Distinct
  <1> QED
    BY <1>1, SwigInvariance, PTL

(* No ParsingError ends the pass, which is the first part of                *)
(* ParsingErrorsAreContained: a class that cannot be read is asked for its  *)
(* error before it is taken for a block, and is caught otherwise.           *)
THEOREM ParsingErrorsNeverEscape == SwigSpec => []ParsingErrorsAreCaught
  <1>1. SwigInv => ParsingErrorsAreCaught
    BY DEF SwigInv, GenInv, ParsingErrorsAreCaught
  <1> QED
    BY <1>1, SwigInvariance, PTL
================================================================================
