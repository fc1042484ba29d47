------------------------- MODULE FragmentExpansion -------------------------
(***************************************************************************)
(* expand_includes (graydr/src/fragment/mod.rs): the recursive, line by    *)
(* line inlining of fragments into the code of a case arm.  Every          *)
(* activation of the function is a frame of "stack"; the frames above the  *)
(* bottom one are the code's call_stack.                                   *)
(*                                                                         *)
(* Texts are sequences of lines.  An output byte is the place it was       *)
(* copied from, so that the source map can be judged: a line that is not   *)
(* an include contributes itself and its newline.                          *)
(***************************************************************************)
EXTENDS Naturals, Sequences

CONSTANTS Dirs,          \* directories
          Names,         \* paths that include lines give
          Files,         \* canonical paths of fragment files
          Canonical,     \* what a directory joined with such a path leads to
          ParentDir,     \* the directory of a canonical path
          SearchPath,    \* the --include-path directories, in order
          Bodies         \* codes a fragment or arm can have: sequences of lines

(* What else a piece of output, or of the source map, can come from. *)
Root           == <<"template", "arm">>       \* the arm's own code
RegistryModule == <<"registry", "module">>
DeferredMark   == <<"registry", "deferred">>

(* Lines besides includes of files: text, and an include whose path looks  *)
(* like a registry coordinate.                                             *)
Text       == "text"
Coordinate == "coordinate"

(* What expanding a path can run into. *)
Status == {"fragment", "missing", "unreadable", "unparsable"}

ASSUME BodiesAssumption ==
  Bodies \subseteq Seq(Names \cup {Text, Coordinate})
ASSUME PathsAssumption ==
  /\ SearchPath \in Seq(Dirs)
  /\ Canonical \in [Dirs -> [Names -> Files]]
  /\ ParentDir \in [Files -> Dirs]
  /\ {Root, RegistryModule, DeferredMark} \cap Files = {}
  /\ Names \cap {Text, Coordinate} = {}

VARIABLES registry,      \* whether there is a registry client
          files,         \* the codes of Root and of every fragment
          status,        \* what is found at every path
          stack,         \* active calls, the outermost first
          outcome,       \* "running", "ok" or an error
          cycle          \* the files a circular include error names

input == <<registry, files, status>>
vars  == <<input, stack, outcome, cycle>>

Origins == Files \cup {Root, RegistryModule}
Byte    == Origins \X Nat
Entry   == [start : Nat, end : Nat, file : Origins \cup {DeferredMark}]
Frame   == [file : Files \cup {Root}, next : Nat \ {0},
            out : Seq(Byte), map : Seq(Entry)]

Outcomes == {"running", "ok", "circular", "notFound", "parseError", "retired", "deferred"}

TypeOK ==
  /\ registry \in BOOLEAN
  /\ files \in [Files \cup {Root} -> Bodies \cup {<<>>}]
  /\ status \in [Files -> Status]
  /\ stack \in Seq(Frame)
  /\ outcome \in Outcomes
  /\ cycle \in Seq(Files)

NewFrame(f) == [file |-> f, next |-> 1, out |-> <<>>, map |-> <<>>]

Init ==
  /\ registry \in BOOLEAN
  /\ status \in [Files -> Status]
  /\ files \in [Files \cup {Root} -> Bodies \cup {<<>>}]
  /\ \A f \in Files : status[f] # "fragment" => files[f] = <<>>
  /\ stack = <<NewFrame(Root)>>
  /\ outcome = "running"
  /\ cycle = <<>>
----------------------------------------------------------------------------
Top == stack[Len(stack)]

AtLine == outcome = "running" /\ Top.next <= Len(files[Top.file])
AtEnd  == outcome = "running" /\ Top.next > Len(files[Top.file])
Line   == files[Top.file][Top.next]

(* A mutant: the arm counts as a file. *)
CallStackWithArm == [i \in 1 .. Len(stack) |-> stack[i].file]

(* The files being expanded, outermost first. *)
CallStack == [i \in 1 .. Len(stack) - 1 |-> stack[i + 1].file]

(* expand_includes returns, with the result or an error. *)
Done(code) ==
  /\ outcome' = code
  /\ UNCHANGED <<input, stack, cycle>>

(* The loop goes on to the next line with the top call's output and map. *)
Emit(out, map) ==
  /\ stack' = [stack EXCEPT ![Len(stack)] =
                 [file |-> Top.file, next |-> Top.next + 1, out |-> out, map |-> map]]
  /\ UNCHANGED <<input, outcome, cycle>>

(* Inlined text ends with a newline; a missing one is added. *)
Inline(out, text, f) ==
  IF out \o text = <<>> THEN << <<f, 0>> >> ELSE out \o text

PassThrough ==
  /\ AtLine /\ Line = Text
  /\ LET b == <<Top.file, Top.next>> IN Emit(Top.out \o <<b, b>>, Top.map)

(* Without a registry the line is dropped and the map keeps a mark of it. *)
DeferCoordinate ==
  /\ AtLine /\ Line = Coordinate /\ ~registry
  /\ LET at == Len(Top.out) IN
       Emit(Top.out, Append(Top.map, [start |-> at, end |-> at, file |-> DeferredMark]))

(* With one, a path that does not parse and a registry that does not       *)
(* answer end the expansion, and so does a retired module; any other text  *)
(* is inlined as it is, neither parsed nor expanded.                       *)
IncludeCoordinate ==
  /\ AtLine /\ Line = Coordinate /\ registry
  /\ \/ Done("deferred")
     \/ Done("retired")
     \/ LET b   == <<RegistryModule, 1>>
            out == Inline(Top.out, <<b, b>>, RegistryModule)
            own == [start |-> Len(Top.out), end |-> Len(out), file |-> RegistryModule]
        IN  Emit(out, Append(Top.map, own))

(* Paths are looked up in the search path at the bottom, and next to the   *)
(* including fragment above it; the first that exists wins.                *)
LookupPath == IF Len(stack) = 1 THEN SearchPath ELSE << ParentDir[Top.file] >>

(* A mutant: the last directory that has the path wins. *)
FoundLast(f) ==
  \E i \in 1 .. Len(LookupPath) :
     /\ f = Canonical[LookupPath[i]][Line]
     /\ status[f] # "missing"
     /\ \A j \in i + 1 .. Len(LookupPath) : status[Canonical[LookupPath[j]][Line]] = "missing"

Found(f) ==
  \E i \in 1 .. Len(LookupPath) :
     /\ f = Canonical[LookupPath[i]][Line]
     /\ status[f] # "missing"
     /\ \A j \in 1 .. i - 1 : status[Canonical[LookupPath[j]][Line]] = "missing"

FileNotFound ==
  /\ AtLine /\ Line \in Names
  /\ ~\E f \in Files : Found(f)
  /\ Done("notFound")

(* Mutants: only a file that includes itself is seen; files that were      *)
(* inlined before count as well.                                           *)
IsTop(f)      == Len(stack) > 1 /\ Top.file = f
SeenBefore(f) == \/ \E i \in 2 .. Len(stack) : stack[i].file = f
                 \/ \E i \in 1 .. Len(Top.map) : Top.map[i].file = f

OnCallStack(f) == \E i \in 2 .. Len(stack) : stack[i].file = f

(* A mutant: a circular include is dropped like a deferred one. *)
CircularDropped ==
  /\ AtLine /\ Line \in Names
  /\ \E f \in Files : Found(f) /\ OnCallStack(f)
  /\ Emit(Top.out, Top.map)

CircularInclude ==
  /\ AtLine /\ Line \in Names
  /\ \E f \in Files :
       /\ Found(f) /\ OnCallStack(f)
       /\ outcome' = "circular"
       /\ cycle' = Append(CallStack, f)
  /\ UNCHANGED <<input, stack>>

BrokenFile ==
  /\ AtLine /\ Line \in Names
  /\ \E f \in Files :
       /\ Found(f) /\ ~OnCallStack(f)
       /\ \/ status[f] = "unreadable" /\ Done("notFound")
          \/ status[f] = "unparsable" /\ Done("parseError")

(* The recursive call. *)
EnterFile ==
  /\ AtLine /\ Line \in Names
  /\ \E f \in Files :
       /\ Found(f) /\ ~OnCallStack(f)
       /\ status[f] = "fragment"
       /\ stack' = Append(stack, NewFrame(f))
  /\ UNCHANGED <<input, outcome, cycle>>

(* Mutants: inner entries stay where they were; marks have no length. *)
Unshifted(map, by) == map
ShiftedTexts(map, by) ==
  LET Shift(e)   == [start |-> e.start + by, end |-> e.end + by, file |-> e.file]
      HasText(e) == e.start < e.end
  IN  SelectSeq([i \in 1 .. Len(map) |-> Shift(map[i])], HasText)

Shifted(map, by) ==
  [i \in 1 .. Len(map) |->
     [start |-> map[i].start + by, end |-> map[i].end + by, file |-> map[i].file]]

(* A mutant: the includer stays at the line of the include. *)
ReturnToSameLine ==
  /\ AtEnd /\ Len(stack) > 1
  /\ stack' = SubSeq(stack, 1, Len(stack) - 1)
  /\ UNCHANGED <<input, outcome, cycle>>

(* The recursive call returns: its text is inlined, its range recorded,    *)
(* and its own entries follow, moved to where the text now is.             *)
ReturnToIncluder ==
  /\ AtEnd /\ Len(stack) > 1
  /\ LET up   == stack[Len(stack) - 1]
         at   == Len(up.out)
         out  == Inline(up.out, Top.out, Top.file)
         own  == [start |-> at, end |-> Len(out), file |-> Top.file]
     IN  stack' = Append(SubSeq(stack, 1, Len(stack) - 2),
                         [up EXCEPT !.next = @ + 1, !.out = out,
                            !.map = Append(@, own) \o Shifted(Top.map, at)])
  /\ UNCHANGED <<input, outcome, cycle>>

Finish ==
  /\ AtEnd /\ Len(stack) = 1
  /\ Done("ok")

Next ==
  \/ PassThrough
  \/ DeferCoordinate \/ IncludeCoordinate
  \/ FileNotFound \/ CircularInclude \/ BrokenFile \/ EnterFile
  \/ ReturnToIncluder \/ Finish

Spec     == Init /\ [][Next]_vars
FairSpec == Spec /\ WF_vars(Next)
----------------------------------------------------------------------------
(* The file SourceMap::resolve names for an offset, counted from 0: that   *)
(* of the first entry that covers it, or the arm.                          *)
Covers(e, offset) == e.start <= offset /\ offset < e.end

(* A mutant: of several entries the last one counts. *)
ResolveLast(map, offset) ==
  LET covering == {i \in DOMAIN map : Covers(map[i], offset)}
  IN  IF covering = {} THEN Root
      ELSE map[CHOOSE i \in covering : \A j \in covering : i >= j].file

Resolve(map, offset) ==
  LET covering == {i \in DOMAIN map : Covers(map[i], offset)}
  IN  IF covering = {} THEN Root
      ELSE map[CHOOSE i \in covering : \A j \in covering : i <= j].file
============================================================================
