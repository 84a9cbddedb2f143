-------------------------------- MODULE MCSwigDoc --------------------------------
EXTENDS SwigDoc

Def(key, kind, name) == [key |-> key, kind |-> kind, name |-> name, refid |-> NoRefid]
Compound(kind, name, header) ==
  [kind |-> kind, refid |-> name, key |-> name, name |-> name, header |-> header]
XmlFile(ok, sections, groups, classes) ==
  [wellFormed |-> ok, sections |-> sections, groups |-> groups, classes |-> classes]

Block == "gr_blk"
Make == "gr_make_blk"
Header == "gr_blk.h"

MCHeaderName == (Block :> Header) @@ ("plain" :> "plain.h")
MCMakeName == (Block :> Make) @@ ("plain" :> "make_plain")

\* A class: the constructor and the friend that make a block of it, a constructor
\* overloaded, a memberdef in two sections, a friend and a function of one name, a
\* memberdef of an unknown kind, an operator.
ClassSections ==
  { << <<Def("ctor", "function", Block)>>, <<Def("friend", "friend", Make)>> >>,
    << <<Def("ctor", "function", Block), Def("ctor2", "function", Block)>>, <<Def("cast", "function", "operator bool")>> >>,
    << <<Def("work", "function", "work")>>, <<Def("work", "function", "work"), Def("friend work", "friend", "work"), Def("sig", "signal", "sig")>> >> }

HeaderSections ==
  { << <<Def("make", "function", Make)>> >>, << <<Def("helper", "function", "helper"), Def("N", "define", "N"), Def("new", "function", "operator new")>> >> }

\* The compounds of the index: a group, which has a class, a class, a header, a
\* file that is no header, a compound of an unknown kind.
Indexes ==
  { << Compound("group", "g", FALSE), Compound("class", Block, FALSE), Compound("file", Header, TRUE) >>,
    << Compound("file", Header, TRUE), Compound("file", "gr_blk.cc", FALSE), Compound("class", Block, FALSE) >>,
    << Compound("class", Block, FALSE), Compound("group", "g", FALSE), Compound("interface", "i", FALSE),
       Compound("class", "plain", FALSE) >> ,
    << Compound("group", "g", FALSE), Compound("file", Header, TRUE), Compound("class", Block, FALSE) >> }

\* At most one file is not well-formed.
MCXml ==
  { [index |-> ix, documented |-> {Block, "ctor", "make", Header, "plain"},
     files |-> (Block :> XmlFile(bad # "class", cs, <<>>, <<>>)) @@ (Header :> XmlFile(bad # "header", hs, <<>>, <<>>))
               @@ ("g" :> XmlFile(bad # "group", <<>>, <<"g2">>, <<Block>>)) @@ ("g2" :> XmlFile(TRUE, <<>>, <<>>, <<Block>>))
               @@ ("plain" :> XmlFile(TRUE, << <<Def("run", "function", "run")>> >>, <<>>, <<>>))
               @@ ("gr_blk.cc" :> XmlFile(TRUE, <<>>, <<>>, <<>>)) @@ ("i" :> XmlFile(TRUE, <<>>, <<>>, <<>>))] :
    ix \in Indexes, bad \in {"nothing", "class", "header", "group"},
    cs \in ClassSections, hs \in HeaderSections }

\* The class, its header and its make function have descriptions, or the latter only.
MCSwigXml == UNION {{x, [x EXCEPT !.documented = {"make"}]} : x \in MCXml}

================================================================================
