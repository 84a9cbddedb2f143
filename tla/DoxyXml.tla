-------------------------------- MODULE DoxyXml --------------------------------
(***************************************************************************)
(* The lazy objects of doxyxml (base.py, doxyindex.py): each parses what   *)
(* it stands for when it is first asked something, keeps the members it    *)
(* found, and remembers what it computed from them.  A call is one step;   *)
(* what matters is the order of the calls, and what one that raises an     *)
(* exception leaves behind.                                                *)
(*                                                                         *)
(* The heap is a sequence of Python objects, the first being the index;    *)
(* operators take it and return an outcome: the heap they leave, and the   *)
(* value or the exception.                                                 *)
(***************************************************************************)
EXTENDS Naturals, Sequences, FiniteSets, SequencesExt, Functions, TLC

CONSTANTS
  Xml,            \* the XML directories that are documented
  Asked,          \* bound: the categories the client asks for
  MakeName        \* swig_doc.make_name, as a function of the class name

NoRefid == "no refid"

\* Doxygen's output: the index names each compound once, and each has its file;
\* memberdefs have no refid, and none is a compound.
ASSUME XmlAssumption ==
  \A x \in Xml :
    /\ x.index \in Seq([kind : STRING, refid : DOMAIN x.files, key : STRING, name : STRING, header : BOOLEAN])
    /\ \A i, j \in DOMAIN x.index : x.index[i].refid = x.index[j].refid => i = j
    /\ NoRefid \notin DOMAIN x.files
    /\ \A r \in DOMAIN x.files :
         /\ x.files[r].sections \in Seq(Seq([kind : STRING \ {"class", "file", "group"}, refid : {NoRefid},
                                            key : STRING, name : STRING]))
         /\ x.files[r].groups \in Seq(DOMAIN x.files) /\ x.files[r].classes \in Seq(DOMAIN x.files)

VARIABLES
  xml,            \* the directory: its index and, by refid, its other files
  heap            \* obj: the objects; refs: the index's _refs

xmlVars == <<xml, heap>>

None == 0           \* the None that convert_mem returns, among members
NoName == "no name" \* of an object made from a refid, without parse data
Unset == <<None>>   \* a category that is not cached
Crashes == {"AttributeError", "StandardError"}

Return(h, v) == [heap |-> h, value |-> v, exc |-> "none"]
Raise(h, e) == [heap |-> h, value |-> <<>>, exc |-> e]

\* A list comprehension: those that are in the set.
Chosen(ms, set) == FlattenSeq([i \in DOMAIN ms |-> IF ms[i] \in set THEN << ms[i] >> ELSE <<>>])

\* What follows a call, unless it raised.
Then(out, F(_, _)) == IF out.exc = "none" THEN F(out.heap, out.value) ELSE out

Categories == {"Function", "Class", "File", "Friend", "Block"}

ASSUME AskedAssumption == Asked \subseteq Categories

--------------------------------------------------------------------------------
(* base.py: instances and their references *)

\* can_parse of mem_classes, in the order in which they are registered.
ClassOf(kind) ==
  CASE kind = "function" -> "Function"
    [] kind = "class" -> "Class"
    [] kind = "file" -> "File"
    [] kind = "namespace" -> "Namespace"
    [] kind = "group" -> "Group"
    [] kind = "friend" -> "Friend"
    [] kind \in {"variable", "struct", "union", "define", "typedef", "enum", "dir", "page"} -> "Other"
    [] OTHER -> "none"

NewObject(cls, refid, key, name) ==
  [cls |-> cls, refid |-> refid, key |-> key, name |-> name, parsed |-> FALSE, error |-> FALSE,
   members |-> <<>>, cats |-> [c \in Categories |-> Unset]]

\* __init__ and add_ref
Instance(h, o) ==
  [obj |-> Append(h.obj, o),
   refs |-> IF o.refid = NoRefid THEN h.refs
            ELSE [r \in DOMAIN h.refs \cup {o.refid} |->
                    IF r = o.refid THEN Len(h.obj) + 1 ELSE h.refs[r]]]

Newest(h) == Len(h.obj)

\* mutant: from_refid does not look whether the object exists
FromRefidAlways(h, cls, refid) ==
  LET h2 == Instance(h, NewObject(cls, refid, refid, NoName))
  IN  Return(h2, Newest(h2))

FromRefid(h, cls, refid) ==
  IF refid \in DOMAIN h.refs THEN Return(h, h.refs[refid])
  ELSE LET h2 == Instance(h, NewObject(cls, refid, refid, NoName))
       IN  Return(h2, Newest(h2))

\* from_parse_data on a compound of the index, which has a refid, or on a
\* memberdef, which has none.
FromParseData(h, cls, mem) ==
  IF mem.refid # NoRefid /\ mem.refid \in DOMAIN h.refs THEN Return(h, h.refs[mem.refid])
  ELSE LET h2 == Instance(h, NewObject(cls, mem.refid, mem.key, mem.name))
       IN  Return(h2, Newest(h2))

\* convert_mem prints the exception of get_cls and returns None
ConvertMem(h, mem) ==
  IF ClassOf(mem.kind) = "none" THEN Return(h, None)
  ELSE FromParseData(h, ClassOf(mem.kind), mem)

--------------------------------------------------------------------------------
(* _parse *)

Parsed(h, o) == [h EXCEPT !.obj[o].parsed = TRUE]
WithMember(h, o, m) == [h EXCEPT !.obj[o].members = Append(@, m)]

File(o, h) == xml.files[h.obj[o].refid]

\* mutant: a memberdef is a duplicate when its name and its kind were met
FirstOfItsKind(defs, i) ==
  \A j \in 1..(i - 1) : defs[j].name # defs[i].name \/ defs[j].kind # defs[i].kind

\* The pairs of process_memberdefs: all memberdefs have the same __class__.
FirstOfItsName(defs, i) == \A j \in 1..(i - 1) : defs[j].name # defs[i].name

AddMemberdef(h, o, defs, i) ==
  IF FirstOfItsName(defs, i)
  THEN Then(ConvertMem(h, defs[i]), LAMBDA g, m : Return(WithMember(g, o, m), <<>>)).heap
  ELSE h

ProcessMemberdefs(h, o) ==
  LET defs == FlattenSeq(File(o, h).sections)
  IN  FoldLeft(LAMBDA g, i : AddMemberdef(g, o, defs, i), h, [i \in DOMAIN defs |-> i])

FailedRetrieval(h, o) == [Parsed(h, o) EXCEPT !.obj[o].error = TRUE]

ParseClass(h, o) ==
  IF ~File(o, h).wellFormed THEN Return(FailedRetrieval(h, o), <<>>)
  ELSE Return(ProcessMemberdefs(Parsed(h, o), o), <<>>)

\* set_descriptions comes before the test of _error, and fails on None
ParseFile(h, o) ==
  IF ~File(o, h).wellFormed THEN Raise(FailedRetrieval(h, o), "AttributeError")
  ELSE Return(ProcessMemberdefs(Parsed(h, o), o), <<>>)

AddRef(h, o, cls, refid) ==
  Then(FromRefid(h, cls, refid), LAMBDA g, m : Return(WithMember(g, o, m), <<>>)).heap

ParseGroup(h, o) ==
  IF ~File(o, h).wellFormed THEN Return(FailedRetrieval(h, o), <<>>)
  ELSE LET groups == FoldLeft(LAMBDA g, r : AddRef(g, o, "Group", r), Parsed(h, o), File(o, h).groups)
           classes == FoldLeft(LAMBDA g, r : AddRef(g, o, "Class", r), groups, File(o, h).classes)
       IN  Return(ProcessMemberdefs(classes, o), <<>>)

ParseOther(h, o) ==
  CASE h.obj[o].cls = "Class" -> ParseClass(h, o)
    [] h.obj[o].cls = "File" -> ParseFile(h, o)
    [] h.obj[o].cls = "Group" -> ParseGroup(h, o)
    [] OTHER -> Return(Parsed(h, o), <<>>)

\* One compound of the index, converted to o: the members of a header become members
\* of the index, other files are left out, and get_cls raises what convert_mem printed.
KeepCompound(h, o, mem) ==
  CASE o = None -> Raise(h, "StandardError")
    [] ClassOf(mem.kind) = "File" /\ mem.header ->
         Then(ParseFile(h, o), LAMBDA g, v :
           Return([g EXCEPT !.obj[1].members = (@ \o g.obj[o].members) \o <<o>>], <<>>))
    [] ClassOf(mem.kind) = "File" /\ ~mem.header -> Return(h, <<>>)
    [] OTHER -> Return(WithMember(h, 1, o), <<>>)

AddCompound(out, mem) ==
  Then(out, LAMBDA h, v : Then(ConvertMem(h, mem), LAMBDA g, o : KeepCompound(g, o, mem)))

ParseIndex(h) == FoldLeft(AddCompound, Return(Parsed(h, 1), <<>>), xml.index)

Parse(h, o) == IF o = 1 THEN ParseIndex(h) ELSE ParseOther(h, o)

--------------------------------------------------------------------------------
(* base.py: the questions *)

\* mutant: what was parsed before is parsed again
CheckParsedAgain(h, o) == Parse(h, o)

CheckParsed(h, o) == IF h.obj[o].parsed THEN Return(h, <<>>) ELSE Parse(h, o)

ConfirmNoError(h, o) ==
  Then(CheckParsed(h, o), LAMBDA g, v :
    IF g.obj[o].error THEN Raise(g, "ParsingError") ELSE Return(g, <<>>))

\* name() finds no attribute `name' in a compounddef, parsed or not
Name(h, o) ==
  IF h.obj[o].name # NoName THEN Return(h, h.obj[o].name)
  ELSE Then(CheckParsed(h, o), LAMBDA g, v : Raise(g, "AttributeError"))

Error(h, o) == Then(CheckParsed(h, o), LAMBDA g, v : Return(g, g.obj[o].error))

Members(h, o) == Then(ConfirmNoError(h, o), LAMBDA g, v : Return(g, g.obj[o].members))

\* The names of members, asked one after the other, as _get_dict_members does.
AskNameOf(out, m) ==
  Then(out, LAMBDA h, names :
    IF m = None THEN Raise(h, "AttributeError")
    ELSE Then(Name(h, m), LAMBDA g, n : Return(g, Append(names, n))))

NamesOf(h, ms) == FoldLeft(AskNameOf, Return(h, <<>>), ms)

\* get_member among the members of a category: exactly one of this name.
TheOnly(h, found) ==
  CASE found = <<>> -> Raise(h, "NoSuchMember")
    [] Len(found) = 1 -> Return(h, found[1])
    [] OTHER -> Raise(h, "Duplicate")

Find(h, ms, n) ==
  Then(NamesOf(h, ms), LAMBDA g, names :
    LET places == SelectSeq([i \in DOMAIN ms |-> i], LAMBDA i : names[i] = n)
    IN  TheOnly(g, [i \in DOMAIN places |-> ms[places[i]]]))

OfClass(h, ms, cls) == Chosen(ms, {m \in DOMAIN h.obj : h.obj[m].cls = cls})

Cached(h, o, cat, found) == Return([h EXCEPT !.obj[o].cats[cat] = found], found)

\* in_category for the categories that are classes of doxyxml.
InClass(h, o, cls) ==
  Then(ConfirmNoError(h, o), LAMBDA g, v :
    IF g.obj[o].cats[cls] # Unset THEN Return(g, g.obj[o].cats[cls])
    ELSE Cached(g, o, cls, OfClass(g, g.obj[o].members, cls)))

GetMember(h, o, n, cls) == Then(InClass(h, o, cls), LAMBDA g, ms : Find(g, ms, n))

IsFound(out) ==
  CASE out.exc = "NoSuchMember" -> Return(out.heap, FALSE)
    [] out.exc = "none" -> Return(out.heap, TRUE)
    [] OTHER -> out

HasMember(h, o, n, cls) == IsFound(GetMember(h, o, n, cls))

IsClass(h, m) == m # None /\ h.obj[m].cls = "Class"

\* mutant: the parsing error is not asked for
IsBlockUnchecked(h, m) ==
  IF ~IsClass(h, m) THEN Return(h, FALSE)
  ELSE Then(Name(h, m), LAMBDA g, n : HasMember(g, m, MakeName[n], "Friend"))

\* swig_doc.Block.includes: a class without parsing error whose friend is its
\* make function.
IsBlock(h, m) ==
  IF ~IsClass(h, m) THEN Return(h, FALSE)
  ELSE Then(Error(h, m), LAMBDA g, failed :
         IF failed THEN Return(g, FALSE)
         ELSE Then(Name(g, m), LAMBDA k, n : HasMember(k, m, MakeName[n], "Friend")))

AskBlock(out, m) ==
  Then(out, LAMBDA h, blocks :
    Then(IsBlock(h, m), LAMBDA g, is : Return(g, IF is THEN Append(blocks, m) ELSE blocks)))

Blocks(h, o) ==
  Then(ConfirmNoError(h, o), LAMBDA g, v :
    IF g.obj[o].cats["Block"] # Unset THEN Return(g, g.obj[o].cats["Block"])
    ELSE Then(FoldLeft(AskBlock, Return(g, <<>>), g.obj[o].members),
              LAMBDA k, blocks : Cached(k, o, "Block", blocks)))

InCategory(h, o, cat) == IF cat = "Block" THEN Blocks(h, o) ELSE InClass(h, o, cat)

--------------------------------------------------------------------------------
(* A client that asks anything in any order *)

Init ==
  /\ xml \in Xml
  /\ heap = [obj |-> << NewObject("Index", NoRefid, "index", "index") >>, refs |-> <<>>]

AskMembers(o) == heap' = Members(heap, o).heap
AskError(o) == heap' = Error(heap, o).heap
AskName(o) == heap' = Name(heap, o).heap
AskCategory(o, cat) == heap' = InCategory(heap, o, cat).heap

\* The objects that stand for a file of the directory: the others parse nothing.
Compounds == {o \in DOMAIN heap.obj : heap.obj[o].cls \in {"Index", "Class", "File", "Group"}}

Next ==
  /\ \E o \in Compounds :
       \/ AskMembers(o)
       \/ AskError(o)
       \/ AskName(o)
       \/ \E cat \in Asked : AskCategory(o, cat)
  /\ UNCHANGED xml

--------------------------------------------------------------------------------
(* Properties *)

\* The objects of an answer, by what they stand for.
Keys(h, v) == [i \in DOMAIN v |-> IF v[i] = None THEN "None" ELSE h.obj[v[i]].key]
Told(out) == IF out.exc # "none" THEN <<out.exc>> ELSE Keys(out.heap, out.value)

Answer(h, o, q) == IF q = "members" THEN Told(Members(h, o)) ELSE Told(InCategory(h, o, q))

\* Laziness is invisible: no call changes what another would have answered, were it
\* parsed or not, cached or not, except that a call which would have crashed may
\* answer once it did: the first parse of an index that fails leaves a part of its
\* members, which is what a second question gets.
AnswersAreStable ==
  [][\A o \in Compounds, q \in Asked \cup {"members"} :
       LET a == Answer(heap, o, q)
       IN  (\A e \in Crashes : a # <<e>>) => Answer(heap', o, q) = a]_xmlVars

\* Two members that stand for the same refid are one object, whether the index, a
\* group or another group made it: what was parsed for one is parsed for all.
OneObjectPerRefid ==
  \A i, j \in DOMAIN heap.obj :
    heap.obj[i].refid = heap.obj[j].refid /\ heap.obj[i].refid # NoRefid => i = j

\* The members of a class or of a file have distinct names, so that looking one up
\* never raises Duplicate: process_memberdefs keeps one of each name.
NamesAreUnique ==
  \A o \in DOMAIN heap.obj :
    heap.obj[o].cls \in {"Class", "File"} =>
      \A i, j \in DOMAIN heap.obj[o].members :
        LET a == heap.obj[o].members[i]
            b == heap.obj[o].members[j]
        IN  i # j /\ a # None /\ b # None => heap.obj[a].name # heap.obj[b].name

================================================================================
