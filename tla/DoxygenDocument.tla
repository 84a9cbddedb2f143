---------------------------- MODULE DoxygenDocument ----------------------------
(***************************************************************************)
(* What becomes of a document once it is read (DoxygenParser): export(),   *)
(* which writes the objects back as XML, and description() of              *)
(* doxyxml/text.py, from which the docstrings are made.                    *)
(***************************************************************************)
EXTENDS DoxygenParser

\* A node of the XML that export() writes: an element, or (tag "#text") a text of
\* the document with how it comes out.
Written(tag, attrs, body) == [tag |-> tag, attrs |-> attrs, text |-> 0, body |-> body]
WrittenText(as, node) == [tag |-> "#text", attrs |-> as, text |-> node, body |-> <<>>]

\* MixedContainer writes a text as it is; quote_xml escapes it first.
RawText(node) == WrittenText(IF doc[node].mark = "markup" THEN "broken" ELSE "text", node)
QuotedText(node) == WrittenText("text", node)

\* mutant: valueOf_ is written as it is
ValueTextRaw(node) == RawText(node)

\* exportChildren of valueOf_: everything is escaped, and what was marked as CDATA
\* becomes a CDATA section again, in which the escapes stand for themselves.
ValueText(node) ==
  IF doc[node].kind = "text" THEN QuotedText(node)
  ELSE WrittenText(IF doc[node].mark = "markup" THEN "escaped twice" ELSE "cdata", node)

\* exportAttributes: those never given are left out, except where None is written.
ExportedAttributes(c, mark) ==
  IF mark = "none" /\ c \in Unconditional THEN "None" ELSE mark

\* exportChildren writes the members of a record class by class declaration.  A
\* text that was never met is '' and is written too; so is the title, as the
\* repr() of its object.
RECURSIVE Export(_)
Export(node) ==
  LET o == objs[node]
      s == Schema[o.class]
      Plain(n) == Written(doc[n].tag, "none", [i \in DOMAIN objs[n].value |-> QuotedText(objs[n].value[i])])
      Members(entry) ==
        LET kept == o.members[entry.name]
        IN  CASE entry.how \in {"one", "many"} -> [i \in DOMAIN kept |-> Export(kept[i])]
              [] entry.how = "oneastext" ->
                   << Written(entry.name, "none", [i \in DOMAIN kept |-> WrittenText("repr", 0)]) >>
              [] entry.how = "text" /\ kept = <<>> -> << Written(entry.name, "none", <<>>) >>
              [] OTHER -> [i \in DOMAIN kept |-> Plain(kept[i])]
      Content(n) ==
        CASE doc[n].kind # "element" -> RawText(n)
          [] objs[n].class = "str" ->
               Written(doc[n].tag, "none", [i \in DOMAIN objs[n].value |-> RawText(objs[n].value[i])])
          [] OTHER -> Export(n)
  IN  Written(doc[node].tag, ExportedAttributes(o.class, doc[node].mark),
              CASE s.shape = "record" -> FlattenSeq([i \in DOMAIN s.children |-> Members(s.children[i])])
                [] s.shape = "mixed" -> [i \in DOMAIN o.content |-> Content(o.content[i])]
                [] OTHER -> [i \in DOMAIN o.value |-> ValueText(o.value[i])])

--------------------------------------------------------------------------------
(* doxyxml/text.py *)

\* mutant: content_ before content
DescribedFromSuper(o) == o.content

\* The pieces that description_bit goes through: content before content_.
Described(o) == IF o.class = "docParaType" THEN o.own ELSE o.content

\* description_bit: the text of each piece, value for what a MixedContainer holds,
\* and an empty line (0) after a paragraph.
RECURSIVE DescriptionBit(_)
DescriptionBit(node) ==
  LET o == objs[node]
      Bit(n) == IF doc[n].kind # "element" THEN <<n>>
                ELSE IF objs[n].class = "str" THEN objs[n].value
                ELSE DescriptionBit(n)
  IN  FlattenSeq([i \in DOMAIN Described(o) |-> Bit(Described(o)[i])])
        \o IF doc[node].tag = "para" THEN <<0>> ELSE <<>>

\* The classes in which description_bit finds content_ (or content).
Describable == {c \in DOMAIN Schema : Schema[c].shape \in {"mixed", "both", "para"}}

--------------------------------------------------------------------------------
(* Properties *)

ChildrenOf(node) == SelectSeq([i \in DOMAIN doc |-> i], LAMBDA i : doc[i].up = node)
Complete(node) == node \in DOMAIN objs /\ ~ Contains(stack, node)
Below(node) == {i \in DOMAIN doc : i > node /\ \A j \in (node + 1)..i : doc[j].up >= node}

\* Whatever the order in which the children of an element come, each list holds the
\* complete children of its name, a member that is not a list the last of them, and
\* content_ the children and the texts of a mixed class in document order: nothing
\* the class declares is lost or kept twice.
ChildrenAreKept ==
  \A node \in {n \in DOMAIN objs : objs[n].class # "str"} :
    LET o == objs[node]
        s == Schema[o.class]
        Named(tag) == SelectSeq(ChildrenOf(node), LAMBDA i : doc[i].tag = tag /\ Complete(i))
        Parts == SelectSeq(ChildrenOf(node),
                           LAMBDA i : \/ doc[i].kind = "text" /\ s.shape \in {"mixed", "both", "para"}
                                      \/ doc[i].tag \in Tags(o.class) \ Kept(o.class) /\ Complete(i))
    IN  /\ \A entry \in Declared(o.class) :
             entry.name \in Kept(o.class) =>
               o.members[entry.name] =
                 IF entry.how \in {"many", "texts"} \/ Named(entry.name) = <<>>
                 THEN Named(entry.name) ELSE <<Last(Named(entry.name))>>
        /\ (IF s.shape = "para" THEN o.own ELSE o.content) = Parts

\* The document, as export() would have to write it.
RECURSIVE Original(_)
Original(node) ==
  LET kids == ChildrenOf(node)
      Kid(n) == IF doc[n].kind = "element" THEN Original(n)
                ELSE WrittenText(IF objs[node].class = "str" THEN "text" ELSE doc[n].kind, n)
  IN  Written(doc[node].tag, doc[node].mark, [i \in DOMAIN kids |-> Kid(kids[i])])

\* Without the simple elements that are empty: export adds those never met.
Simple == {e.name : e \in {x \in UNION {Declared(c) : c \in DOMAIN Schema} : x.how \in {"text", "oneastext"}}}

RECURSIVE Filled(_)
Filled(tree) ==
  LET full == SelectSeq(tree.body, LAMBDA x : x.tag \notin Simple \/ x.body # <<>>)
  IN  [tree EXCEPT !.body = [i \in DOMAIN full |-> Filled(full[i])]]

\* Element `node' has nothing that its class cannot hold: see ExportIsTheDocument.
Regular(node) ==
  LET o == objs[node]
      kids == ChildrenOf(node)
      IsText(n) == doc[n].kind # "element"
      Index(n) == CHOOSE i \in DOMAIN Schema[o.class].children : Schema[o.class].children[i].name = doc[n].tag
      Single(n) == EntryOf(o.class, doc[n].tag).how \in {"one", "text"}
  IN  IF o.class = "str" THEN \A n \in Range(kids) : IsText(n) /\ doc[n].mark = "plain"
      ELSE LET shape == Schema[o.class].shape IN
        /\ o.class \in Unconditional => doc[node].mark = "all"
        /\ \A n \in Range(kids) :
             IF IsText(n)
             THEN /\ shape # "record"
                  /\ shape = "mixed" => doc[n].kind = "text"
                  /\ shape = "mixed" \/ doc[n].kind = "cdata" => doc[n].mark = "plain"
             ELSE /\ doc[n].tag \in Tags(o.class)
                  /\ shape # "para"
                  /\ EntryOf(o.class, doc[n].tag).how # "oneastext"
        /\ shape = "record" =>
             \A i \in 2..Len(kids) : \/ Index(kids[i - 1]) < Index(kids[i])
                                     \/ kids[i - 1] # kids[i] /\ Index(kids[i - 1]) = Index(kids[i]) /\ ~Single(kids[i])

\* Reading and writing back is the identity, empty simple elements aside, on the
\* documents whose children are declared, come in the order of the declaration and
\* are repeated only where a list keeps them, and of which no part is one of those
\* that are lost: texts between the members, elements in a paragraph, the title of
\* a compound, CDATA in mixed content, characters to escape in mixed content or CDATA.
ExportIsTheDocument ==
  stack = <<>> /\ error = "none" /\ (\A node \in DOMAIN objs : Regular(node))
    => Filled(Export(1)) = Filled(Original(1))

\* What description() returns for a description is the text nodes of the document
\* below it, but for what lies in parameter lists and simple sections, each once and
\* in document order, with an empty line exactly after each paragraph; and it never
\* raises because it meets an object without content.
DescriptionIsItsText ==
  \A node \in DOMAIN objs :
    objs[node].class = "descriptionType" /\ Complete(node) =>
      LET Aside == {"docParamListType", "docSimpleSectType"}
          hidden == UNION {Below(i) : i \in {j \in Below(node) \cap DOMAIN objs : objs[j].class \in Aside}}
          Visible(n) == n \in Below(node) \ hidden
          bits == DescriptionBit(node)
          paras == SelectSeq([i \in DOMAIN doc |-> i], LAMBDA i : Visible(i) /\ i \in DOMAIN objs /\ objs[i].class = "docParaType")
          before(p) == {t \in DOMAIN doc : Visible(t) /\ doc[t].kind = "text" /\ (t < p \/ t \in Below(p))}
          breaks == SelectSeq([i \in DOMAIN bits |-> i], LAMBDA i : bits[i] = 0)
      IN  /\ SelectSeq(bits, LAMBDA b : b # 0)
               = SelectSeq([i \in DOMAIN doc |-> i], LAMBDA t : Visible(t) /\ doc[t].kind = "text")
          /\ Len(breaks) = Len(paras)
          /\ \A i \in DOMAIN breaks : breaks[i] = Cardinality(before(paras[i])) + i
          /\ \A n \in {i \in Below(node) \ hidden : i \in DOMAIN objs} :
               objs[n].class \in Describable \cup Aside

================================================================================
