-------------------------------- MODULE SwigDoc --------------------------------
(***************************************************************************)
(* swig_doc.py: one pass over the lazy objects of DoxyXml that writes the  *)
(* docstrings of blocks, then of functions, then of classes.  Every        *)
(* question may parse a file, and what may be raised is caught in part.    *)
(***************************************************************************)
EXTENDS DoxyXml

CONSTANTS
  HeaderName,     \* the name of a block's header, by class name
  Operators       \* the names that contain "operator ", as "operator bool" does

\* Only functions and friends have such names.
ASSUME OperatorsAssumption == \A x \in Xml : \A i \in DOMAIN x.index : x.index[i].name \notin Operators

VARIABLES
  gen,            \* the pass: its phase, the objects left, the blocks, make_funcs
  output,         \* the entries made: whom each is for, whose descriptions it has
  file            \* the interface file, "absent" until it is written

genVars == <<xml, heap, gen, output, file>>

--------------------------------------------------------------------------------
(* Entries *)

\* combine_descriptions: the description of an object, if it has one.
Description(h, o) == IF h.obj[o].key \in xml.documented THEN << h.obj[o].key >> ELSE <<>>

IsOperator(h, o) == h.obj[o].name \in Operators

\* make_entry: none for an operator, nor for a docstring that is empty
Entry(h, o, about) ==
  IF IsOperator(h, o) \/ about = <<>> THEN <<>> ELSE << [for |-> h.obj[o].key, about |-> about] >>

\* make_func_entry: the parameters make sure that the docstring is not empty
FuncEntry(h, o, about) == Entry(h, o, Append(about, "params"))

\* make_class_entry: the class, which is parsed for its description, and each of
\* its functions
ClassEntry(h, k, about) ==
  Then(InClass(h, k, "Function"), LAMBDA g, fs :
    Return(g, Entry(g, k, about)
                \o FlattenSeq([i \in DOMAIN fs |-> FuncEntry(g, fs[i], Description(g, fs[i]))])))

MakeFunction(h, b) == GetMember(h, 1, MakeName[h.obj[b].name], "Function")

\* The block's header, if the index has it.
HeaderOf(h, b) ==
  LET header == GetMember(h, 1, HeaderName[h.obj[b].name], "File")
  IN  IF header.exc = "NoSuchMember" THEN Return(header.heap, None) ELSE header

\* make_block_entry: what is said of the class, of its make function and of its
\* header, all together, for the class and for the make function.
BlockEntry(h, b) ==
  Then(MakeFunction(h, b), LAMBDA h1, make :
  Then(HeaderOf(h1, b), LAMBDA h2, header :
    LET about == Description(h2, b) \o Description(h2, make)
                   \o IF header = None THEN <<>> ELSE Description(h2, header)
    IN  Then(ClassEntry(h2, b, about), LAMBDA h3, class :
        Then(GetMember(h3, b, h3.obj[b].name, "Function"), LAMBDA h4, creator :
          Return(h4, class \o FuncEntry(h4, make, about))))))

--------------------------------------------------------------------------------
(* make_swig_interface_file *)

Phase(p, todo) == [gen EXCEPT !.phase = p, !.todo = todo]

Abort(out) ==
  /\ heap' = out.heap
  /\ gen' = [gen EXCEPT !.phase = "raised", !.exc = out.exc]
  /\ UNCHANGED <<xml, output, file>>

CollectBlocks ==
  /\ gen.phase = "start"
  /\ LET bs == InCategory(heap, 1, "Block")
     IN  \/ bs.exc # "none" /\ Abort(bs)
         \/ /\ bs.exc = "none"
            /\ heap' = bs.heap
            /\ gen' = [Phase("blocks", bs.value) EXCEPT !.blocks = bs.value]
            /\ UNCHANGED <<xml, output, file>>

\* One entry, of which only a ParsingError is caught, and printed.
Attempt(out, made) ==
  /\ gen.todo # <<>>
  /\ \/ out.exc \notin {"none", "ParsingError"} /\ Abort(out)
     \/ /\ out.exc \in {"none", "ParsingError"}
        /\ heap' = out.heap
        /\ gen' = [gen EXCEPT !.todo = Tail(@), !.made = @ \cup made]
        /\ output' = IF out.exc = "none" THEN output \o out.value ELSE output
        /\ UNCHANGED <<xml, file>>

\* mutant: the make functions are not remembered
MadeByNone(h, b) == {}

MadeBy(h, b) == LET make == MakeFunction(h, b) IN IF make.exc = "none" THEN {MakeName[h.obj[b].name]} ELSE {}

DocumentBlock ==
  /\ gen.phase = "blocks" /\ gen.todo # <<>>
  /\ Attempt(BlockEntry(heap, Head(gen.todo)), MadeBy(heap, Head(gen.todo)))

\* The functions of the index, but the make functions.
CollectFunctions ==
  /\ gen.phase = "blocks" /\ gen.todo = <<>>
  /\ LET fs == InCategory(heap, 1, "Function")
     IN  /\ heap' = fs.heap
         /\ gen' = Phase("functions", Chosen(fs.value, {f \in DOMAIN fs.heap.obj : fs.heap.obj[f].name \notin gen.made}))
  /\ UNCHANGED <<xml, output, file>>

DocumentFunction ==
  /\ gen.phase = "functions" /\ gen.todo # <<>>
  /\ LET f == Head(gen.todo) IN Attempt(Return(heap, FuncEntry(heap, f, Description(heap, f))), {})

CollectClasses ==
  /\ gen.phase = "functions" /\ gen.todo = <<>>
  /\ LET ks == InCategory(heap, 1, "Class")
         names == {heap.obj[gen.blocks[i]].name : i \in DOMAIN gen.blocks}
     IN  /\ heap' = ks.heap
         /\ gen' = Phase("classes", Chosen(ks.value, {k \in DOMAIN ks.heap.obj : ks.heap.obj[k].name \notin names}))
  /\ UNCHANGED <<xml, output, file>>

DocumentClass ==
  /\ gen.phase = "classes" /\ gen.todo # <<>>
  /\ LET k == Head(gen.todo) IN Attempt(ClassEntry(heap, k, Description(heap, k)), {})

Write ==
  /\ gen.phase = "classes" /\ gen.todo = <<>>
  /\ file' = output
  /\ gen' = Phase("done", <<>>)
  /\ UNCHANGED <<xml, heap, output>>

SwigInit ==
  /\ Init
  /\ gen = [phase |-> "start", todo |-> <<>>, blocks |-> <<>>, made |-> {}, exc |-> "none"]
  /\ output = <<>> /\ file = <<"absent">>

\* Whoever passes the index may have asked it before: what was parsed, and what was
\* left by a parse that failed, is what the pass starts from.
AskedBefore ==
  /\ gen.phase = "start"
  /\ Next
  /\ UNCHANGED <<gen, output, file>>

SwigNext ==
  \/ AskedBefore
  \/ CollectBlocks \/ DocumentBlock
  \/ CollectFunctions \/ DocumentFunction
  \/ CollectClasses \/ DocumentClass
  \/ Write

SwigSpec == SwigInit /\ [][SwigNext]_genVars

--------------------------------------------------------------------------------
(* Properties *)

\* The objects a docstring is due for: functions of headers, classes that can be
\* read, and the functions of these, but the operators.
Due ==
  LET top == heap.obj[1].members
      Of(cls) == {o \in Range(top) : o # None /\ heap.obj[o].cls = cls}
      read == {k \in Of("Class") : ~heap.obj[k].error}
      inner == {m \in UNION {Range(heap.obj[k].members) : k \in read} : m # None /\ heap.obj[m].cls = "Function"}
  IN  {f \in Of("Function") \cup inner : ~IsOperator(heap, f)}
        \cup {k \in read : heap.obj[k].key \in xml.documented}

EntriesFor(o) == {i \in DOMAIN file : file[i].for = heap.obj[o].key}

\* The three passes share the work: what is due is in the file exactly once, a make
\* function with its block and not again with the functions, a block's class not
\* again with the classes.
EachDocumentedOnce ==
  gen.phase = "done" => \A o \in Due : Cardinality(EntriesFor(o)) = 1

\* A ParsingError never ends the pass: it is caught, or asked for before, as
\* Block.includes does.
ParsingErrorsAreCaught == gen.exc # "ParsingError"

WellFormed(i) == xml.files[xml.index[i].refid].wellFormed

\* A file that is not well-formed ends the pass only when it is a header, which the
\* index parses with itself and whose descriptions are taken from nothing
\* (doxyindex.py:162-165): what any class or group is found to be costs no other
\* object its docstring.  A kind that get_cls does not know ends it too, and nothing
\* else that the parse of the index meets.
ParsingErrorsAreContained ==
  /\ ParsingErrorsAreCaught
  /\ gen.exc = "AttributeError" => \E i \in DOMAIN xml.index : xml.index[i].header /\ ~WellFormed(i)
  /\ gen.exc = "StandardError" => \E i \in DOMAIN xml.index : ClassOf(xml.index[i].kind) = "none"

================================================================================
