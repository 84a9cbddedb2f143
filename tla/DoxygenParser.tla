----------------------------- MODULE DoxygenParser -----------------------------
(***************************************************************************)
(* How the generated classes read an XML file of doxygen and write it back *)
(* (doxyxml/generated), and how doxyxml/text.py flattens a description.    *)
(*                                                                         *)
(* build() is called on the root element and calls itself on every child   *)
(* element that the class declares.  The nodes of the document are chosen  *)
(* as they are read, in document order:                                    *)
(*   doc    the nodes read so far                                          *)
(*   stack  the elements whose build() has not returned, innermost last    *)
(*   objs   the Python object built for an element, "str" standing for the *)
(*          string that collects the text of a simple element              *)
(*   error  the exception that left build(), if one did                    *)
(* A text, and the object of an element, is known by its node.             *)
(***************************************************************************)
EXTENDS DoxygenSchema, Naturals, FiniteSets, SequencesExt

CONSTANTS
  Roots,      \* the classes whose build() is called
  MaxNodes    \* bound: for each of them, the nodes of a document

ASSUME BoundsAssumption ==
  /\ Roots \subseteq DOMAIN Schema
  /\ MaxNodes \in [Roots -> Nat \ {0}]

VARIABLES doc, stack, objs, error

vars == <<doc, stack, objs, error>>

\* An element has all the attributes of its class or none; one that should be an
\* integer may not be.  A text is plain or has characters that XML must escape.
Node(kind, tag, up, mark) == [kind |-> kind, tag |-> tag, up |-> up, mark |-> mark]

Marks(c) ==
  {"none"} \cup (IF Schema[c].attrs # {} THEN {"all"} ELSE {})
           \cup (IF Schema[c].ints # {} THEN {"badint"} ELSE {})

Declared(c) == Range(Schema[c].children)
EntryOf(c, tag) == CHOOSE e \in Declared(c) : e.name = tag
Tags(c) == {e.name : e \in Declared(c)}
Kept(c) == {e.name : e \in {x \in Declared(c) : x.how \notin {"part", "textpart"}}}

\* The classes whose exportAttributes does not test for None.
Unconditional == {"DoxygenType", "IndexType", "CompoundType", "MemberType"}

Top == Last(stack)
Reading(c) == error = "none" /\ stack # <<>> /\ objs[Top].class = c
Room == Len(doc) < MaxNodes[objs[1].class]

--------------------------------------------------------------------------------
(* The constructors, and build *)

\* No member has been met yet: None, an empty list, or the '' of the subclasses.
New(c) ==
  [class |-> c, members |-> [t \in Kept(c) |-> <<>>],
   content |-> <<>>, value |-> <<>>, own |-> <<>>]

NewText == [class |-> "str", members |-> <<>>, content |-> <<>>, value |-> <<>>, own |-> <<>>]

\* mutant: the last child element met is kept, whatever the class declares
AttachedLast(p, entry, node) ==
  IF entry.how \in {"part", "textpart"}
  THEN [p EXCEPT !.content = Append(@, node)]
  ELSE [p EXCEPT !.members[entry.name] = <<node>>]

\* buildChildren on a child element whose object is complete.
Attached(p, entry, node) ==
  CASE entry.how \in {"one", "oneastext", "text"} ->
         [p EXCEPT !.members[entry.name] = <<node>>]
    [] entry.how \in {"many", "texts"} ->
         [p EXCEPT !.members[entry.name] = Append(@, node)]
    [] entry.how \in {"part", "textpart"} /\ p.class = "docParaType" ->
         [p EXCEPT !.own = Append(@, node)]
    [] OTHER -> [p EXCEPT !.content = Append(@, node)]

\* buildChildren on a text or CDATA node.
WithText(o, kind, node) ==
  LET shape == IF o.class = "str" THEN "str" ELSE Schema[o.class].shape
      listed == kind = "text" /\ shape \in {"mixed", "both", "para"}
  IN  [o EXCEPT !.value = IF shape \in {"str", "value", "both", "para"} THEN Append(@, node) ELSE @,
                !.content = IF listed THEN Append(@, node) ELSE @,
                !.own = IF listed /\ shape = "para" THEN Append(@, node) ELSE @]

Init ==
  \E c \in Roots : \E mark \in Marks(c) \ {"badint"} :
    /\ doc = <<Node("element", c, 0, mark)>>
    /\ stack = <<1>>
    /\ objs = <<New(c)>>
    /\ error = "none"

\* A child element that has a class of its own.
OpenObject(c, entry, mark) ==
  /\ Reading(c) /\ Room
  /\ entry.type # "str"
  /\ mark \in Marks(entry.type)
  /\ doc' = Append(doc, Node("element", entry.name, Top, mark))
  /\ IF mark = "badint"
     THEN error' = "ValueError" /\ UNCHANGED <<stack, objs>>
     ELSE /\ stack' = Append(stack, Len(doc) + 1)
          /\ objs' = objs @@ (Len(doc) + 1) :> New(entry.type)
          /\ UNCHANGED error

\* A child element of which only the text is read.
OpenText(c, entry) ==
  /\ Reading(c) /\ Room
  /\ entry.type = "str"
  /\ doc' = Append(doc, Node("element", entry.name, Top, "none"))
  /\ stack' = Append(stack, Len(doc) + 1)
  /\ objs' = objs @@ (Len(doc) + 1) :> NewText
  /\ UNCHANGED error

\* A child element that the class does not know: nothing below it is read.
SkipElement(c) ==
  /\ Reading(c) /\ Room
  /\ doc' = Append(doc, Node("element", "other", Top, "none"))
  /\ UNCHANGED <<stack, objs, error>>

\* nodeValue of an element is None, which cannot be appended to a string.
ElementInText ==
  /\ Reading("str") /\ Room
  /\ doc' = Append(doc, Node("element", "other", Top, "none"))
  /\ error' = "TypeError"
  /\ UNCHANGED <<stack, objs>>

\* Two texts that follow each other are one node.
ReadText(c, kind, mark) ==
  /\ Reading(c) /\ Room
  /\ kind = "text" => ~ (Last(doc).up = Top /\ Last(doc).kind = "text")
  /\ doc' = Append(doc, Node(kind, "", Top, mark))
  /\ objs' = [objs EXCEPT ![Top] = WithText(@, kind, Len(doc) + 1)]
  /\ UNCHANGED <<stack, error>>

\* build() returns, and the caller keeps what it built.
Close ==
  /\ error = "none" /\ stack # <<>>
  /\ stack' = Front(stack)
  /\ IF Len(stack) = 1
     THEN UNCHANGED objs
     ELSE LET p == stack[Len(stack) - 1]
              entry == EntryOf(objs[p].class, doc[Top].tag)
          IN  objs' = [objs EXCEPT ![p] = Attached(@, entry, Top)]
  /\ UNCHANGED <<doc, error>>

Next ==
  \/ \E c \in DOMAIN Schema :
       \/ \E entry \in Declared(c) :
            \/ \E mark \in {"none", "all", "badint"} : OpenObject(c, entry, mark)
            \/ OpenText(c, entry)
       \/ SkipElement(c)
  \/ ElementInText
  \/ \E c \in DOMAIN Schema \cup {"str"}, kind \in {"text", "cdata"}, mark \in {"plain", "markup"} :
       ReadText(c, kind, mark)
  \/ Close

Spec == Init /\ [][Next]_vars

================================================================================
