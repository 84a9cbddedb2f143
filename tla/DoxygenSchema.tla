----------------------------- MODULE DoxygenSchema -----------------------------
(***************************************************************************)
(* What the classes of doxyxml/generated/compoundsuper.py, and the         *)
(* subclasses that compound.py registers for them, know of the XML files   *)
(* of doxygen: one definition per class, named as the class.               *)
(*                                                                         *)
(* A class has one of four shapes, which is all that tells the generated   *)
(* methods of two classes apart, the attributes and children aside:        *)
(*   record  one Python attribute per child element                        *)
(*   mixed   a list, content_, of texts and child elements                 *)
(*   value   a string, valueOf_                                            *)
(*   both    a string, valueOf_, and content_ with the texts only          *)
(*                                                                         *)
(* "ints" are the attributes that buildAttributes converts with int().     *)
(***************************************************************************)
EXTENDS Sequences, TLC

\* How buildChildren keeps a child element: as the last one met (OneAsText: export
\* takes the object for a string), in a list, as its text, in a list of texts, in
\* content_, or its text in content_.
One(name, type) == [name |-> name, how |-> "one", type |-> type]
OneAsText(name, type) == [name |-> name, how |-> "oneastext", type |-> type]
Many(name, type) == [name |-> name, how |-> "many", type |-> type]
Text(name) == [name |-> name, how |-> "text", type |-> "str"]
Texts(name) == [name |-> name, how |-> "texts", type |-> "str"]
Part(name, type) == [name |-> name, how |-> "part", type |-> type]
TextPart(name) == [name |-> name, how |-> "textpart", type |-> "str"]

Record(attrs, ints, children) ==
  [shape |-> "record", attrs |-> attrs, ints |-> ints, children |-> children]
Mixed(attrs, children) ==
  [shape |-> "mixed", attrs |-> attrs, ints |-> {}, children |-> children]
Value(attrs, ints) ==
  [shape |-> "value", attrs |-> attrs, ints |-> ints, children |-> <<>>]
Both(attrs, ints) ==
  [shape |-> "both", attrs |-> attrs, ints |-> ints, children |-> <<>>]

DoxygenType ==
  Record({"version"}, {}, << One("compounddef", "compounddefType") >>)

compounddefType ==
  Record({"kind", "prot", "id"}, {},
         << Text("compoundname"), OneAsText("title", "docTitleType"),
            Many("basecompoundref", "compoundRefType"),
            Many("derivedcompoundref", "compoundRefType"),
            Many("includes", "incType"), Many("includedby", "incType"),
            One("incdepgraph", "graphType"),
            One("invincdepgraph", "graphType"), Many("innerdir", "refType"),
            Many("innerfile", "refType"), Many("innerclass", "refType"),
            Many("innernamespace", "refType"), Many("innerpage", "refType"),
            Many("innergroup", "refType"),
            One("templateparamlist", "templateparamlistType"),
            Many("sectiondef", "sectiondefType"),
            One("briefdescription", "descriptionType"),
            One("detaileddescription", "descriptionType"),
            One("inheritancegraph", "graphType"),
            One("collaborationgraph", "graphType"),
            One("programlisting", "listingType"),
            One("location", "locationType"),
            One("listofallmembers", "listofallmembersType") >>)

listofallmembersType ==
  Record({}, {}, << Many("member", "memberRefType") >>)

memberRefType ==
  Record({"virt", "prot", "refid", "ambiguityscope"}, {},
         << Text("scope"), Text("name") >>)

scope == Value({}, {})

name == Value({}, {})

compoundRefType == Both({"virt", "prot", "refid"}, {})

reimplementType == Both({"refid"}, {})

incType == Both({"local", "refid"}, {})

refType == Both({"prot", "refid"}, {})

refTextType == Both({"refid", "kindref", "external"}, {})

sectiondefType ==
  Record({"kind"}, {}, << Text("header"),
                          One("description", "descriptionType"),
                          Many("memberdef", "memberdefType") >>)

memberdefType ==
  Record({ "initonly", "kind", "volatile", "const", "raise", "virt",
          "readable", "prot", "explicit", "new", "final", "writable", "add",
          "static", "remove", "sealed", "mutable", "gettable", "inline",
          "settable", "id"}, {},
         << One("templateparamlist", "templateparamlistType"),
            One("type", "linkedTextType"), Text("definition"),
            Text("argsstring"), Text("name"), Text("read"), Text("write"),
            Text("bitfield"), Many("reimplements", "reimplementType"),
            Many("reimplementedby", "reimplementType"),
            Many("param", "paramType"), Many("enumvalue", "enumvalueType"),
            One("initializer", "linkedTextType"),
            One("exceptions", "linkedTextType"),
            One("briefdescription", "descriptionType"),
            One("detaileddescription", "descriptionType"),
            One("inbodydescription", "descriptionType"),
            One("location", "locationType"),
            Many("references", "referenceType"),
            Many("referencedby", "referenceType") >>)

definition == Value({}, {})

argsstring == Value({}, {})

read == Value({}, {})

write == Value({}, {})

bitfield == Value({}, {})

descriptionType ==
  Mixed({}, << Part("title", "docTitleType"), Part("para", "docParaType"),
               Part("sect1", "docSect1Type"),
               Part("internal", "docInternalType") >>)

enumvalueType ==
  Mixed({"prot", "id"}, << TextPart("name"),
                           Part("initializer", "linkedTextType"),
                           Part("briefdescription", "descriptionType"),
                           Part("detaileddescription", "descriptionType") >>)

templateparamlistType ==
  Record({}, {}, << Many("param", "paramType") >>)

paramType ==
  Record({}, {},
         << One("type", "linkedTextType"), Text("declname"),
            Text("defname"), Text("array"), One("defval", "linkedTextType"),
            One("briefdescription", "descriptionType") >>)

declname == Value({}, {})

defname == Value({}, {})

array == Value({}, {})

linkedTextType ==
  Mixed({}, << Part("ref", "docRefTextType") >>)

graphType ==
  Record({}, {}, << Many("node", "nodeType") >>)

nodeType ==
  Record({"id"}, {}, << Text("label"), One("link", "linkType"),
                        Many("childnode", "childnodeType") >>)

label == Value({}, {})

childnodeType ==
  Record({"relation", "refid"}, {}, << Texts("edgelabel") >>)

edgelabel == Value({}, {})

linkType == Value({"refid", "external"}, {})

listingType ==
  Record({}, {}, << Many("codeline", "codelineType") >>)

codelineType ==
  Record({"external", "lineno", "refkind", "refid"}, {"lineno"},
         << Many("highlight", "highlightType") >>)

highlightType ==
  Mixed({"class"}, << TextPart("sp"), Part("ref", "docRefTextType") >>)

sp == Value({}, {})

referenceType == Both({"endline", "startline", "refid", "compoundref"}, {"endline", "startline"})

locationType == Value({"bodystart", "line", "bodyend", "bodyfile", "file"}, {"bodystart", "line", "bodyend"})

docSect1Type ==
  Mixed({"id"}, << Part("title", "docTitleType"),
                   Part("para", "docParaType"),
                   Part("sect2", "docSect2Type"),
                   Part("internal", "docInternalS1Type") >>)

docSect2Type ==
  Mixed({"id"}, << Part("title", "docTitleType"),
                   Part("para", "docParaType"),
                   Part("sect3", "docSect3Type"),
                   Part("internal", "docInternalS2Type") >>)

docSect3Type ==
  Mixed({"id"}, << Part("title", "docTitleType"),
                   Part("para", "docParaType"),
                   Part("sect4", "docSect4Type"),
                   Part("internal", "docInternalS3Type") >>)

docSect4Type ==
  Mixed({"id"}, << Part("title", "docTitleType"),
                   Part("para", "docParaType"),
                   Part("internal", "docInternalS4Type") >>)

docInternalType ==
  Mixed({}, << Part("para", "docParaType"), Part("sect1", "docSect1Type") >>)

docInternalS1Type ==
  Mixed({}, << Part("para", "docParaType"), Part("sect2", "docSect2Type") >>)

docInternalS2Type ==
  Mixed({}, << Part("para", "docParaType"), Part("sect3", "docSect3Type") >>)

docInternalS3Type ==
  Mixed({}, << Part("para", "docParaType"), Part("sect3", "docSect4Type") >>)

docInternalS4Type ==
  Mixed({}, << Part("para", "docParaType") >>)

docTitleType == Both({}, {})

docParaType == Both({}, {})

docMarkupType == Both({}, {})

docURLLink == Both({"url"}, {})

docAnchorType == Both({"id"}, {})

docFormulaType == Both({"id"}, {})

docIndexEntryType ==
  Record({}, {}, << Text("primaryie"), Text("secondaryie") >>)

docListType ==
  Record({}, {}, << Many("listitem", "docListItemType") >>)

docListItemType ==
  Record({}, {}, << Many("para", "docParaType") >>)

docSimpleSectType ==
  Record({"kind"}, {}, << One("title", "docTitleType"),
                          Many("para", "docParaType") >>)

docVarListEntryType ==
  Record({}, {}, << One("term", "docTitleType") >>)

docVariableListType == Value({}, {})

docRefTextType == Both({"refid", "kindref", "external"}, {})

docTableType ==
  Record({"rows", "cols"}, {"rows", "cols"}, << Many("row", "docRowType"),
                                                One("caption", "docCaptionType") >>)

docRowType ==
  Record({}, {}, << Many("entry", "docEntryType") >>)

docEntryType ==
  Record({"thead"}, {}, << Many("para", "docParaType") >>)

docCaptionType == Both({}, {})

docHeadingType == Both({"level"}, {"level"})

docImageType == Both({"width", "type", "name", "height"}, {})

docDotFileType == Both({"name"}, {})

docTocItemType == Both({"id"}, {})

docTocListType ==
  Record({}, {}, << Many("tocitem", "docTocItemType") >>)

docLanguageType ==
  Record({"langid"}, {}, << Many("para", "docParaType") >>)

docParamListType ==
  Record({"kind"}, {}, << Many("parameteritem", "docParamListItem") >>)

docParamListItem ==
  Record({}, {}, << Many("parameternamelist", "docParamNameList"),
                    One("parameterdescription", "descriptionType") >>)

docParamNameList ==
  Record({}, {}, << Many("parametername", "docParamName") >>)

docParamName ==
  Mixed({"direction"}, << Part("ref", "docRefTextType") >>)

docXRefSectType ==
  Record({"id"}, {}, << Texts("xreftitle"),
                        One("xrefdescription", "descriptionType") >>)

docCopyType ==
  Record({"link"}, {}, << Many("para", "docParaType"),
                          Many("sect1", "docSect1Type"),
                          One("internal", "docInternalType") >>)

docCharType == Value({"char"}, {})

docEmptyType == Value({}, {})

\* The subclass of docParaType that compound.py registers keeps in a list of its
\* own, content, the texts and the references, and beside it the parameter lists
\* and the simple sections.
docParaTypeSub ==
  [docParaType EXCEPT !.shape = "para",
                      !.children = << Part("ref", "docRefTextType"),
                                      Many("parameterlist", "docParamListType"),
                                      Many("simplesect", "docSimpleSectType") >>]

\* The classes of indexsuper.py, for index.xml; DoxygenType is IndexType here.
IndexType == Record({"version"}, {}, << Many("compound", "CompoundType") >>)

CompoundType ==
  Record({"kind", "refid"}, {}, << Text("name"), Many("member", "MemberType") >>)

MemberType == Record({"kind", "refid"}, {}, << Text("name") >>)

\* The classes by name, as the factories find them.
Schema ==
  "DoxygenType" :> DoxygenType @@ "compounddefType" :> compounddefType @@
  "listofallmembersType" :> listofallmembersType @@
  "memberRefType" :> memberRefType @@ "scope" :> scope @@ "name" :> name @@
  "compoundRefType" :> compoundRefType @@
  "reimplementType" :> reimplementType @@ "incType" :> incType @@
  "refType" :> refType @@ "refTextType" :> refTextType @@
  "sectiondefType" :> sectiondefType @@ "memberdefType" :> memberdefType @@
  "definition" :> definition @@ "argsstring" :> argsstring @@
  "read" :> read @@ "write" :> write @@ "bitfield" :> bitfield @@
  "descriptionType" :> descriptionType @@ "enumvalueType" :> enumvalueType @@
  "templateparamlistType" :> templateparamlistType @@
  "paramType" :> paramType @@ "declname" :> declname @@
  "defname" :> defname @@ "array" :> array @@
  "linkedTextType" :> linkedTextType @@ "graphType" :> graphType @@
  "nodeType" :> nodeType @@ "label" :> label @@
  "childnodeType" :> childnodeType @@ "edgelabel" :> edgelabel @@
  "linkType" :> linkType @@ "listingType" :> listingType @@
  "codelineType" :> codelineType @@ "highlightType" :> highlightType @@
  "sp" :> sp @@ "referenceType" :> referenceType @@
  "locationType" :> locationType @@ "docSect1Type" :> docSect1Type @@
  "docSect2Type" :> docSect2Type @@ "docSect3Type" :> docSect3Type @@
  "docSect4Type" :> docSect4Type @@ "docInternalType" :> docInternalType @@
  "docInternalS1Type" :> docInternalS1Type @@
  "docInternalS2Type" :> docInternalS2Type @@
  "docInternalS3Type" :> docInternalS3Type @@
  "docInternalS4Type" :> docInternalS4Type @@
  "docTitleType" :> docTitleType @@ "docParaType" :> docParaTypeSub @@
  "docMarkupType" :> docMarkupType @@ "docURLLink" :> docURLLink @@
  "docAnchorType" :> docAnchorType @@ "docFormulaType" :> docFormulaType @@
  "docIndexEntryType" :> docIndexEntryType @@ "docListType" :> docListType @@
  "docListItemType" :> docListItemType @@
  "docSimpleSectType" :> docSimpleSectType @@
  "docVarListEntryType" :> docVarListEntryType @@
  "docVariableListType" :> docVariableListType @@
  "docRefTextType" :> docRefTextType @@ "docTableType" :> docTableType @@
  "docRowType" :> docRowType @@ "docEntryType" :> docEntryType @@
  "docCaptionType" :> docCaptionType @@ "docHeadingType" :> docHeadingType @@
  "docImageType" :> docImageType @@ "docDotFileType" :> docDotFileType @@
  "docTocItemType" :> docTocItemType @@ "docTocListType" :> docTocListType @@
  "docLanguageType" :> docLanguageType @@
  "docParamListType" :> docParamListType @@
  "docParamListItem" :> docParamListItem @@
  "docParamNameList" :> docParamNameList @@ "docParamName" :> docParamName @@
  "docXRefSectType" :> docXRefSectType @@ "docCopyType" :> docCopyType @@
  "docCharType" :> docCharType @@ "docEmptyType" :> docEmptyType @@
  "IndexType" :> IndexType @@ "CompoundType" :> CompoundType @@
  "MemberType" :> MemberType

================================================================================
