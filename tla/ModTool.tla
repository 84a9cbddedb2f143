-------------------------------- MODULE ModTool --------------------------------
(***************************************************************************)
(* gr_modtool.py, the editor of a GNU Radio module: add, remove, disable   *)
(* and makexml on a module of API version 37.  A command edits a dozen     *)
(* files one after the other; the user, or a missing file, may stop it     *)
(* between any two.                                                        *)
(*                                                                         *)
(* A name is a sequence of tokens, because a pattern, and the value to     *)
(* remove, are looked for inside the names.  A list is what a CMakeLists   *)
(* (or the swig file, __init__.py, the C++ test of the module) says of     *)
(* files, in order; an item is off when it is commented out.  What closes  *)
(* a list in its CMakeLists (a parenthesis, or DESTINATION and more) is    *)
(* one item more, without a name unless something sticks to it.            *)
(***************************************************************************)
EXTENDS Naturals, Sequences, FiniteSets, SequencesExt

CONSTANTS
  Blocks,         \* the names of blocks
  Patterns,       \* the regular expressions a user gives; the empty one is `.'
  MaxCommands,    \* bound: commands run
  MaxNo           \* bound: files a user refuses during a command

ASSUME NamesAssumption == \A b \in Blocks : b \in Seq(STRING) /\ b # <<>>

VARIABLES
  mod,            \* the module: files by directory, lists, what closes each list
  cmd,            \* the command that runs
  before,         \* the module when the command, or the last one, started
  last,           \* the command that ran last, and how it ended
  count

toolVars == <<mod, cmd, before, last, count>>

--------------------------------------------------------------------------------
(* Names *)

Impl(b) == b \o <<"_impl", ".cc">>
ImplH(b) == b \o <<"_impl", ".h">>
Header(b) == b \o <<".h">>
Py(b) == b \o <<".py">>
Qa(b) == <<"qa_">> \o b \o <<".cc">>
QaH(b) == <<"qa_">> \o b \o <<".h">>
QaPy(b) == <<"qa_">> \o b \o <<".py">>
Xml(b) == <<"mod", "_">> \o b \o <<".xml">>

Mod == <<"mod">>
Api == <<"api", ".h">>
MainSwig == <<"mod", "_swig", ".i">>
MainQa == Qa(Mod)
MainTest == <<"test_">> \o Mod \o <<".cc">>
PyInit == <<"__init__", ".py">>

Ext(n) == Last(n)
Base(n) == Front(n)
IsQa(n) == Head(n) = "qa_"
IsSub(p, n) == \E i \in 0..(Len(n) - Len(p)) : SubSeq(n, i + 1, i + Len(p)) = p

Dirs == <<"lib", "include", "swig", "python", "grc">>
DisableDirs == <<"lib", "include", "python", "swig", "grc">>

\* The lists of a directory's CMakeLists, and the directory whose files a list names.
CMakeLists(d) ==
  CASE d = "lib" -> <<"add_library", "test_sources", "stray">>
    [] d = "include" -> <<"install_h">>
    [] d = "swig" -> <<"GR_SWIG_MAKE">>
    [] d = "python" -> <<"GR_PYTHON_INSTALL", "GR_ADD_TEST">>
    [] d = "grc" -> <<"install_xml">>

Named ==
  [add_library |-> "lib", test_sources |-> "lib", stray |-> "lib", qalib_include |-> "lib", qalib_suite |-> "lib",
   install_h |-> "include", swig_include |-> "include", swig_block |-> "include", swig_magic |-> "include",
   GR_SWIG_MAKE |-> "swig", GR_PYTHON_INSTALL |-> "python", GR_ADD_TEST |-> "python", pyinit |-> "python",
   install_xml |-> "grc"]
Lists == DOMAIN Named
SwigLists == {"swig_include", "swig_block", "swig_magic"}
QaLists == {"qalib_include", "qalib_suite"}

Item(n) == [name |-> n, off |-> FALSE]
Intact == Item(<<>>)
Off(items, P(_)) == [i \in DOMAIN items |-> IF P(items[i]) THEN [items[i] EXCEPT !.off = TRUE] ELSE items[i]]

\* What newmod unpacks.
Empty ==
  [files |-> [lib |-> {MainTest, MainQa, QaH(Mod)}, include |-> {Api}, swig |-> {MainSwig}, python |-> {PyInit}, grc |-> {}],
   lists |-> [id \in Lists |-> CASE id = "test_sources" -> << Item(MainTest), Item(MainQa) >>
                                 [] id = "qalib_include" -> << Item(QaH(Mod)) >>
                                 [] id = "install_h" -> << Item(Api) >>
                                 [] id = "GR_SWIG_MAKE" -> << Item(MainSwig) >>
                                 [] id = "GR_PYTHON_INSTALL" -> << Item(PyInit) >>
                                 [] OTHER -> <<>>],
   ends |-> [id \in Lists |-> Intact]]

--------------------------------------------------------------------------------
(* CMakeFileEditor, and the functions that edit a file line by line *)

\* append_value: before what closes the list.  A comment sign, or a piece of a name,
\* that sticks there is left on a line of its own, but the new value sticks to
\* DESTINATION in its place; and a comment sign at the end of python's CMakeLists
\* takes the test that is appended.
AppendValue(m, id, n) ==
  LET end == m.ends[id]
      piece == IF end.name = <<>> THEN <<>> ELSE << end >>
      With(items, e) == [m EXCEPT !.lists[id] = @ \o items, !.ends[id] = e]
  IN  CASE end = Intact -> With(<< Item(n) >>, Intact)
        [] end # Intact /\ id = "GR_ADD_TEST" -> With(<< [name |-> n, off |-> TRUE] >>, Intact)
        [] end # Intact /\ id = "add_library" -> With(Append(piece, Item(n)), Intact)
        [] OTHER -> With(piece, Item(n))

\* append_re_line_sequence: after all lines equal to the last that matches, or at
\* the end of a swig file whose includes are all commented out
AppendLine(m, id, n) ==
  LET items == m.lists[id]
      Matches(i) == id \in QaLists \/ ~items[i].off
      found == {i \in DOMAIN items : Matches(i)}
      lastItem == items[CHOOSE i \in found : \A j \in found : j <= i]
      Same(it) == it.name = lastItem.name /\ (id = "pyinit" => ~it.off)
  IN  [m EXCEPT !.lists[id] =
         IF found = {} THEN IF id = "swig_include" THEN Append(items, Item(n)) ELSE << Item(n) >> \o items
         ELSE FlattenSeq([i \in DOMAIN items |->
                IF Same(items[i]) THEN << items[i], Item(n) >> ELSE << items[i] >>])]

\* The entry of a C++ test goes after the one of the module's test, and to the end
\* of the file, out of any list, when that is gone.
AppendTest(m, n) ==
  LET items == m.lists["test_sources"]
      at == {i \in DOMAIN items : items[i].name = MainQa}
  IN  IF at = {} THEN [m EXCEPT !.lists["stray"] = Append(@, Item(n))]
      ELSE [m EXCEPT !.lists["test_sources"] = FlattenSeq([i \in DOMAIN items |->
              IF i \in at THEN << items[i], Item(n) >> ELSE << items[i] >>])]

\* The first place in a list, or in what closes it, that P holds of; 0 if none.
FirstPlace(m, id, P(_)) == SelectInSeq(Append(m.lists[id], m.ends[id]), P)

Replaced(m, id, i, k, new) ==
  LET all == Append(m.lists[id], m.ends[id])
      left == SubSeq(all, 1, i - 1) \o new \o SubSeq(all, i + k, Len(all))
  IN  [m EXCEPT !.lists[id] = Front(left), !.ends[id] = Last(left)]

\* remove_value takes the first place where the value is, be it the end of another
\* name (but for tests, which it looks for with their path), and what separates
\* it from what follows: what is left of its own item, a comment sign or a piece of
\* a name, sticks to the next one, or to what closes the list.
RemoveValue(m, id, n) ==
  LET all == Append(m.lists[id], m.ends[id])
      i == FirstPlace(m, id, LAMBDA it : IF id = "test_sources" THEN it.name = n ELSE IsSuffix(n, it.name))
      rest == SubSeq(all[i].name, 1, Len(all[i].name) - Len(n))
      next == all[i + 1]
      glued == IF all[i].off THEN << [name |-> rest \o next.name, off |-> TRUE] >>
               ELSE IF next.off /\ rest # <<>> THEN << Item(rest), next >>
               ELSE << [next EXCEPT !.name = rest \o @] >>
  IN  CASE i = 0 -> m
        [] i > 0 /\ i = Len(all) -> Replaced(m, id, i, 1, << [all[i] EXCEPT !.name = rest] >>)
        [] OTHER -> Replaced(m, id, i, 2, glued)

\* delete_entry: the whole line of the first test that has the name in it; a
\* comment sign before it stays, in front of the next line.
DeleteTest(m, n) ==
  LET all == Append(m.lists["GR_ADD_TEST"], m.ends["GR_ADD_TEST"])
      i == FirstPlace(m, "GR_ADD_TEST", LAMBDA it : IsSub(Base(n), it.name))
  IN  IF i = 0 THEN m
      ELSE Replaced(m, "GR_ADD_TEST", i, 2, << [all[i + 1] EXCEPT !.off = @ \/ all[i].off] >>)

\* remove_pattern_from_file, for the lines P of lists ids
RemoveLines(m, ids, P(_)) ==
  [m EXCEPT !.lists = [id \in Lists |-> IF id \in ids THEN SelectSeq(@[id], LAMBDA it : ~P(it)) ELSE @[id]]]

OffLines(m, ids, P(_)) ==
  [m EXCEPT !.lists = [id \in Lists |-> IF id \in ids THEN Off(@[id], P) ELSE @[id]]]

\* disable_file finds the name in the middle of an entry that has a path, which it
\* cuts: the path stays an entry.
Path == <<"${CMAKE_CURRENT_SOURCE_DIR}/">>

CutPath(items, n) ==
  FlattenSeq([i \in DOMAIN items |->
    IF items[i].name = n /\ ~items[i].off THEN << Item(Path), [items[i] EXCEPT !.off = TRUE] >> ELSE << items[i] >>])

DisableFileEntry(m, ids, n) ==
  IF n # MainTest THEN OffLines(m, ids, LAMBDA it : it.name = n)
  ELSE [m EXCEPT !.lists["test_sources"] = CutPath(@, n)]

--------------------------------------------------------------------------------
(* Commands *)

None == [what |-> "none"]
Step(op, where, n) == [op |-> op, where |-> where, name |-> n]

Start ==
  /\ cmd = None /\ count < MaxCommands
  /\ before' = mod /\ count' = count + 1
  /\ UNCHANGED <<mod, last>>

End(how) ==
  /\ cmd' = None
  /\ last' = [what |-> cmd.what, how |-> how]

--------------------------------------------------------------------------------
(* add: files, then what is said of them *)

PyQaSteps(b) == << Step("write", "python", QaPy(b)), Step("value", "GR_ADD_TEST", QaPy(b)) >>
GrcSteps(b) == << Step("write", "grc", Xml(b)), Step("value", "install_xml", Xml(b)) >>

CcQaSteps(b) ==
  << Step("write", "lib", Qa(b)), Step("write", "lib", QaH(b)), Step("test", "test_sources", Qa(b)),
     Step("line", "qalib_include", QaH(b)), Step("line", "qalib_suite", QaH(b)) >>

SwigSteps(b) == << Step("magic", "swig", Header(b)), Step("line", "swig_include", Header(b)) >>

\* mutant: the lists are edited before the files are written
CppStepsListedFirst(b) ==
  << Step("value", "add_library", Impl(b)), Step("value", "install_h", Header(b)),
     Step("write", "lib", ImplH(b)), Step("write", "lib", Impl(b)), Step("write", "include", Header(b)) >>

CppSteps(b) ==
  << Step("write", "lib", ImplH(b)), Step("write", "lib", Impl(b)), Step("write", "include", Header(b)),
     Step("value", "add_library", Impl(b)), Step("value", "install_h", Header(b)) >>

PythonSteps(b) ==
  << Step("write", "python", Py(b)), Step("line", "pyinit", Py(b)), Step("value", "GR_PYTHON_INSTALL", Py(b)) >>

\* Without the main swig file, a C++ block gets no bindings, and none for GRC.
AddSteps(b, lang, ccQa, pyQa, swig) ==
  LET lib == IF lang = "cpp" THEN CppSteps(b) \o (IF ccQa THEN CcQaSteps(b) ELSE <<>>) ELSE PythonSteps(b)
      bound == lang = "cpp" => swig
  IN  lib \o (IF lang = "cpp" /\ swig THEN SwigSteps(b) ELSE <<>>)
          \o (IF pyQa THEN PyQaSteps(b) ELSE <<>>) \o (IF bound THEN GrcSteps(b) ELSE <<>>)

HasSwig(m) == MainSwig \in m.files["swig"]

Edited(m, s) ==
  CASE s.op = "write" -> [m EXCEPT !.files[s.where] = @ \cup {s.name}]
    [] s.op = "value" -> AppendValue(m, s.where, s.name)
    [] s.op = "test" -> AppendTest(m, s.name)
    [] s.op = "line" -> AppendLine(m, s.where, s.name)
    [] s.op = "magic" -> [m EXCEPT !.lists["swig_block"] = Append(@, Item(s.name)),
                                   !.lists["swig_magic"] = Append(@, Item(s.name))]
    \* makexml looks whether the name is anywhere in the file
    [] s.op = "value once" -> IF FirstPlace(m, s.where, LAMBDA it : IsSub(s.name, it.name)) # 0 THEN m
                              ELSE AppendValue(m, s.where, s.name)

\* The IOError of a missing test of the module is caught; the one of a missing
\* __init__.py is not.
MissingFor(m, s) ==
  \/ s.where \in QaLists /\ MainQa \notin m.files["lib"]
  \/ s.where = "pyinit" /\ PyInit \notin m.files["python"]

AddBlock(b, lang, ccQa, pyQa) ==
  /\ Start
  /\ cmd' = [what |-> "add", block |-> b, steps |-> AddSteps(b, lang, ccQa, pyQa, HasSwig(mod))]
  /\ UNCHANGED <<mod, last>>

DoStep ==
  /\ cmd.what \in {"add", "makexml"} /\ cmd.steps # <<>>
  /\ LET s == Head(cmd.steps)
         Rest(c) == [c EXCEPT !.steps = Tail(@)]
     IN  \/ ~MissingFor(mod, s) /\ mod' = Edited(mod, s) /\ cmd' = Rest(cmd) /\ UNCHANGED last
         \/ MissingFor(mod, s) /\ s.where # "pyinit" /\ cmd' = Rest(cmd) /\ UNCHANGED <<mod, last>>
         \/ MissingFor(mod, s) /\ s.where = "pyinit" /\ End("crashed") /\ UNCHANGED mod
  /\ UNCHANGED <<before, count>>

AddEnds ==
  /\ cmd.what = "add" /\ cmd.steps = <<>>
  /\ End("done")
  /\ UNCHANGED <<mod, before, count>>

--------------------------------------------------------------------------------
(* remove and disable: directory by directory, with the CMakeLists in memory *)

\* setup leaves swig alone when it has no main file.
Walk(what, dirs, pattern, yes) ==
  /\ Start
  /\ cmd' = [what |-> what, pattern |-> pattern, option |-> yes, yes |-> yes, no |-> 0,
             dirs |-> SelectSeq(dirs, LAMBDA d : d = "swig" => HasSwig(mod)),
             open |-> FALSE, todo |-> <<>>, ed |-> mod, deleted |-> {}, headers |-> {}]
  /\ UNCHANGED <<mod, last>>

RemoveBlocks(p, yes) == Walk("remove", Dirs, p, yes)
DisableBlocks(p, yes) == Walk("disable", DisableDirs, p, yes)

Dir == Head(cmd.dirs)

\* glob lists the .cc files of lib before the .h files, otherwise in the order of
\* the directory; bound: any one, and its reverse.
GlobOrders(files) ==
  LET OfExt(e) == SetToSeq({f \in files : Ext(f) = e})
      others == SetToSeq({f \in files : Ext(f) \notin {".cc", ".h"}})
  IN  { OfExt(".cc") \o OfExt(".h") \o others, Reverse(OfExt(".cc")) \o Reverse(OfExt(".h")) \o Reverse(others) }

Found == {f \in mod.files[Dir] : IsSub(cmd.pattern, f)}

\* find_filenames_match: the names of the CMakeLists that are not commented out;
\* a path, a piece of a name, and what starts with an underscore are none
IsFileName(n) == Ext(n) \in {".cc", ".h", ".i", ".py", ".xml"} /\ n # PyInit

Listed ==
  LET items == FlattenSeq([i \in DOMAIN CMakeLists(Dir) |-> mod.lists[CMakeLists(Dir)[i]]])
      active == SelectSeq(items, LAMBDA it : ~it.off /\ IsFileName(it.name) /\ IsSub(cmd.pattern, it.name))
  IN  [i \in DOMAIN active |-> active[i].name]

\* The answer `all' is for the files of one directory.
EnterDir ==
  /\ cmd.what \in {"remove", "disable"} /\ cmd.dirs # <<>> /\ ~cmd.open
  /\ \E todo \in IF cmd.what = "remove" THEN GlobOrders(Found) ELSE {Listed} :
       cmd' = [cmd EXCEPT !.open = TRUE, !.todo = todo, !.ed = mod, !.deleted = {}, !.yes = cmd.option]
  /\ UNCHANGED <<mod, before, last, count>>

\* What the editor of this directory holds is written to its file.
Written(m, d, ed) ==
  [m EXCEPT !.lists = [id \in Lists |-> IF id \in Range(CMakeLists(d)) THEN ed.lists[id] ELSE @[id]],
            !.ends = [id \in Lists |-> IF id \in Range(CMakeLists(d)) THEN ed.ends[id] ELSE @[id]]]

Prompt(what, ans) ==
  /\ cmd.what = what /\ cmd.open /\ cmd.todo # <<>>
  /\ cmd.yes => ans = "y"
  /\ ans = "n" => cmd.no < MaxNo

Answered(ans) == [cmd EXCEPT !.todo = Tail(@), !.yes = @ \/ ans = "a", !.no = IF ans = "n" THEN @ + 1 ELSE @]

Decline(ans) ==
  /\ Prompt("remove", ans) \/ Prompt("disable", ans)
  /\ \/ ans = "q" /\ End("stopped")
     \/ ans = "n" /\ cmd' = Answered(ans) /\ UNCHANGED last
  /\ UNCHANGED <<mod, before, count>>

\* The editor's text once file f is gone from directory d.
EntryRemoved(ed, d, f) ==
  LET var == CASE d = "lib" -> "add_library" [] d = "include" -> "install_h"
               [] d = "python" -> "GR_PYTHON_INSTALL" [] d = "grc" -> "install_xml" [] OTHER -> "none"
  IN  IF var = "none" THEN ed ELSE RemoveValue(ed, var, f)

\* mutant: the special edits of test files are left out
SpecialEditNone(ed, d, f) == ed

\* _remove_cc_test_case for .cc files, and _remove_py_test_case
SpecialEdit(ed, d, f) ==
  CASE d = "lib" /\ IsQa(f) /\ Ext(f) = ".cc" -> RemoveValue(ed, "test_sources", f)
    [] d = "python" /\ IsQa(f) -> DeleteTest(ed, f)
    [] OTHER -> ed

\* A file that has lists takes them with it.
ListsOf(f) == IF f = MainQa THEN QaLists ELSE IF f = MainSwig THEN SwigLists ELSE IF f = PyInit THEN {"pyinit"} ELSE {}

Deleted(m, d, f) ==
  [m EXCEPT !.files[d] = @ \ {f},
            !.lists = [id \in Lists |-> IF id \in ListsOf(f) THEN <<>> ELSE @[id]]]

\* _remove_cc_test_case for .h files edits the test of the module at once, and
\* raises IOError when it was deleted.
RemoveFile(ans) ==
  /\ Prompt("remove", ans) /\ ans \notin {"n", "q"}
  /\ LET f == Head(cmd.todo)
         gone == Deleted(mod, Dir, f)
         testHeader == Dir = "lib" /\ IsQa(f) /\ Ext(f) = ".h"
     IN  IF testHeader /\ MainQa \notin gone.files["lib"]
         THEN mod' = gone /\ End("crashed")
         ELSE /\ mod' = IF testHeader THEN RemoveLines(gone, QaLists, LAMBDA it : it.name = f /\ ~it.off)
                        ELSE gone
              /\ cmd' = [Answered(ans) EXCEPT !.deleted = @ \cup {f},
                           !.ed = SpecialEdit(EntryRemoved(@, Dir, f), Dir, f)]
              /\ UNCHANGED last
  /\ UNCHANGED <<before, count>>

\* The lines of the swig file for the headers deleted, of __init__.py for the
\* modules deleted: those whose name only begins with theirs go, too.
NeedsSwig == Dir = "swig" /\ cmd.headers \cup cmd.deleted # {}
NeedsPyInit == Dir = "python" /\ cmd.deleted # {}

Cleaned(m) ==
  CASE NeedsSwig -> RemoveLines(m, SwigLists, LAMBDA it : it.name \in cmd.headers \cup cmd.deleted /\ ~it.off)
    [] NeedsPyInit -> RemoveLines(m, {"pyinit"}, LAMBDA it : \E f \in cmd.deleted : IsPrefix(Base(f), it.name))
    [] OTHER -> m

LeaveRemoved ==
  /\ cmd.what = "remove" /\ cmd.open /\ cmd.todo = <<>>
  /\ LET m == Written(mod, Dir, cmd.ed)
     IN  IF \/ NeedsSwig /\ MainSwig \notin mod.files["swig"]
            \/ NeedsPyInit /\ PyInit \notin mod.files["python"]
         THEN mod' = m /\ End("crashed")
         ELSE /\ mod' = Cleaned(m)
              /\ cmd' = [cmd EXCEPT !.dirs = Tail(@), !.open = FALSE,
                           !.headers = IF Dir = "include" THEN cmd.deleted ELSE @]
              /\ UNCHANGED last
  /\ UNCHANGED <<before, count>>

\* mutant: the block magic is looked for when more than two includes changed
MagicNeededLate(m, f) ==
  Len(SelectSeq(m.lists["swig_include"] \o m.lists["swig_block"], LAMBDA it : it.name = f)) > 2

MagicNeeded(m, f) ==
  Len(SelectSeq(m.lists["swig_include"] \o m.lists["swig_block"], LAMBDA it : it.name = f)) > 1

\* _handle_h_swig: the pattern of the magic finds the block's name anywhere
HeaderOff(m, f) ==
  LET m2 == OffLines(m, {"swig_include", "swig_block"}, LAMBDA it : it.name = f)
  IN  IF MagicNeeded(m, f) THEN OffLines(m2, {"swig_magic"}, LAMBDA it : IsSub(Base(f), Mod \o it.name)) ELSE m2

\* What a special treatment needs and does to other files; whether it replaces
\* disable_file.
TreatmentFails(f) ==
  \/ Dir = "lib" /\ IsQa(f) /\ Ext(f) = ".cc" /\ MainQa \notin mod.files["lib"]
  \/ Dir \in {"include", "swig"} /\ MainSwig \notin mod.files["swig"]

Treated(m, f) ==
  CASE Dir = "lib" /\ IsQa(f) /\ Ext(f) = ".cc" ->
         OffLines(m, QaLists, LAMBDA it : Base(it.name) = Base(f))
    [] Dir = "include" -> HeaderOff(m, f)
    [] Dir = "python" /\ ~IsQa(f) /\ PyInit \in mod.files["python"] ->
         OffLines(m, {"pyinit"}, LAMBDA it : it.name = f)
    [] OTHER -> m

\* disable_file, or the handlers of test files, which comment out the entry
DisableFile(ans) ==
  /\ Prompt("disable", ans) /\ ans \notin {"n", "q"}
  /\ LET f == Head(cmd.todo)
     IN  IF TreatmentFails(f) THEN End("crashed") /\ UNCHANGED mod
         ELSE /\ mod' = Treated(mod, f)
              /\ cmd' = [Answered(ans) EXCEPT !.ed = DisableFileEntry(@, Range(CMakeLists(Dir)), f)]
              /\ UNCHANGED last
  /\ UNCHANGED <<before, count>>

LeaveDisabled ==
  /\ cmd.what = "disable" /\ cmd.open /\ cmd.todo = <<>>
  /\ mod' = Written(mod, Dir, cmd.ed)
  /\ cmd' = [cmd EXCEPT !.dirs = Tail(@), !.open = FALSE]
  /\ UNCHANGED <<before, last, count>>

WalkEnds ==
  /\ cmd.what \in {"remove", "disable"} /\ cmd.dirs = <<>>
  /\ End("done")
  /\ UNCHANGED <<mod, before, count>>

--------------------------------------------------------------------------------
(* makexml: for each block of lib in turn *)

MakeXml(p) ==
  /\ Start
  /\ cmd' = [what |-> "makexml", steps |-> <<>>,
             todo |-> {b \in Blocks : Impl(b) \in mod.files["lib"] /\ IsSub(p, Impl(b))}]
  /\ UNCHANGED <<mod, last>>

ParseBlock(b) ==
  /\ cmd.what = "makexml" /\ cmd.steps = <<>> /\ b \in cmd.todo
  /\ IF Header(b) \in mod.files["include"]
     THEN /\ cmd' = [cmd EXCEPT !.todo = @ \ {b},
                       !.steps = << Step("write", "grc", Xml(b)), Step("value once", "install_xml", Xml(b)) >>]
          /\ UNCHANGED last
     ELSE End("stopped")
  /\ UNCHANGED <<mod, before, count>>

MakeXmlEnds ==
  /\ cmd.what = "makexml" /\ cmd.steps = <<>> /\ cmd.todo = {}
  /\ End("done")
  /\ UNCHANGED <<mod, before, count>>

--------------------------------------------------------------------------------

\* KeyboardInterrupt, which main catches
Interrupt ==
  /\ cmd # None
  /\ End("stopped")
  /\ UNCHANGED <<mod, before, count>>

\* A module that newmod made and to which some blocks were added.
Init ==
  /\ \E added \in SUBSET Blocks, lang \in {"cpp", "python"} :
       mod = FoldLeft(Edited, Empty, FlattenSeq(SetToSeq({AddSteps(b, lang, TRUE, TRUE, TRUE) : b \in added})))
  /\ cmd = None /\ before = mod /\ count = 0
  /\ last = [what |-> "none", how |-> "done"]

Next ==
  \/ \E b \in Blocks : \/ AddBlock(b, "cpp", TRUE, TRUE)
                       \/ AddBlock(b, "cpp", FALSE, FALSE)
                       \/ AddBlock(b, "python", FALSE, TRUE)
  \/ \E p \in Patterns : MakeXml(p) \/ \E yes \in BOOLEAN : RemoveBlocks(p, yes) \/ DisableBlocks(p, yes)
  \/ DoStep \/ AddEnds
  \/ EnterDir \/ LeaveRemoved \/ LeaveDisabled \/ WalkEnds
  \/ \E ans \in {"y", "n", "a", "q"} : RemoveFile(ans) \/ DisableFile(ans) \/ Decline(ans)
  \/ \E b \in Blocks : ParseBlock(b)
  \/ MakeXmlEnds
  \/ Interrupt

Spec == Init /\ [][Next]_toolVars

--------------------------------------------------------------------------------
(* Properties *)

\* What the lists say of files that are not there.
Orphans(m) ==
  UNION {{<<id, it.name>> : it \in {i \in Range(m.lists[id]) : ~i.off /\ i.name \notin m.files[Named[id]]}} : id \in Lists}

\* What is said of a header in the swig file is complete.
SwigIsComplete(m) == \A id \in SwigLists : ToSet(m.lists[id]) = ToSet(m.lists["swig_magic"])

\* A module all of whose commands were carried out once: nothing is commented out,
\* nothing said twice, no list broken.
Tidy(m) ==
  /\ Orphans(m) = {} /\ m.lists["stray"] = <<>>
  /\ \A id \in Lists : /\ m.ends[id] = Intact /\ IsInjective(m.lists[id])
                       /\ \A it \in Range(m.lists[id]) : ~it.off
  /\ SwigIsComplete(m)

\* The blocks that have left a name anywhere in a module; none of their names is found
\* in another's, or in the module's own.
Names(m) == UNION {m.files[d] : d \in Range(Dirs)} \cup UNION {{it.name : it \in Range(m.lists[id])} : id \in Lists}
NamesOf(b) == {Impl(b), ImplH(b), Header(b), Py(b), Qa(b), QaH(b), QaPy(b), Xml(b)}
BlocksOf(m) == {b \in Blocks : NamesOf(b) \cap Names(m) # {}}
Unrelated(m) == \A a \in BlocksOf(m), b \in BlocksOf(m) \cup {Mod} : a # b => ~IsSub(a, b)

Ended(what) == cmd = None /\ last = [what |-> what, how |-> "done"]

\* Removing undoes adding: in a tidy module of unrelated names it deletes, besides
\* the files the user agreed to, all that is said of them, and nothing that is said of
\* other files, but for test_<mod>.cc, whose entry no command removes.
RemovalIsExact ==
  Ended("remove") /\ Tidy(before) /\ Unrelated(before) =>
    \A id \in Lists :
      \/ id \in QaLists /\ MainQa \notin mod.files["lib"]
      \/ /\ mod.ends[id] = Intact
         /\ mod.lists[id] =
              SelectSeq(before.lists[id], LAMBDA it : it.name \in mod.files[Named[id]] \cup {MainTest})

\* Wherever they are interrupted, add and makexml never make a list name a file that
\* is not there: files are written before they are listed.
FilesComeFirst ==
  [][cmd.what \in {"add", "makexml"} => Orphans(mod') \subseteq Orphans(mod)]_toolVars

IsOff(m, id, n) == \E it \in Range(m.lists[id]) : it.name = n /\ it.off
Said(m, id, n) == \E it \in Range(m.lists[id]) : it.name = n

\* What is said of the files of a block is commented out everywhere or nowhere.
InStep(m) ==
  \A b \in Blocks :
    /\ \A id \in SwigLists : Said(m, id, Header(b)) /\ Said(m, "install_h", Header(b)) =>
         (IsOff(m, id, Header(b)) <=> IsOff(m, "install_h", Header(b)))
    /\ Said(m, "pyinit", Py(b)) /\ Said(m, "GR_PYTHON_INSTALL", Py(b)) =>
         (IsOff(m, "pyinit", Py(b)) <=> IsOff(m, "GR_PYTHON_INSTALL", Py(b)))
    /\ \A id \in QaLists : Said(m, id, QaH(b)) /\ Said(m, "test_sources", Qa(b)) =>
         (IsOff(m, id, QaH(b)) <=> IsOff(m, "test_sources", Qa(b)))

\* Among unrelated names, disabling keeps the lists in step, whatever was said twice,
\* lost, or disabled before: what the swig file, __init__.py and the module's test
\* say of a file is commented out exactly when its entry is.  The swig file must say
\* all of a header or nothing, for the magic is looked for by a count of the includes.
DisabledEverywhere ==
  Ended("disable") /\ Unrelated(before) /\ InStep(before) /\ SwigIsComplete(before) => InStep(mod)

\* "Remove block (delete files and remove Makefile entries)": what was listed of a file
\* that is not deleted still is, whatever was done to the module before.
OtherEntriesStay ==
  Ended("remove") /\ Unrelated(before) =>
    \A id \in Lists \ QaLists : \A it \in Range(before.lists[id]) :
      ~it.off /\ it.name \in mod.files[Named[id]] => it \in Range(mod.lists[id])

================================================================================
