--------------------------- MODULE FragmentProofs ---------------------------
(***************************************************************************)
(* Proofs about expand_includes for every set of files, search path and    *)
(* code: the calls on the stack are a chain of includes that never meets   *)
(* itself, so what is reported as a circular include is one; what has been *)
(* inlined is closed under inclusion, so that success means there is no    *)
(* circle; the source map describes the output; and the output is the      *)
(* recursive expansion of the code.                                        *)
(***************************************************************************)
EXTENDS FragmentProperties, FiniteSetTheorems, SequenceTheorems, TLAPS

(* The outermost call expands the arm; every other one expands the file    *)
(* that an include of the call below it means.                             *)
Chain ==
  /\ Len(stack) > 0 /\ stack[1].file = Root
  /\ \A i \in 2 .. Len(stack) :
       stack[i].file \in Files /\ <<stack[i - 1].file, stack[i].file>> \in IncludeGraph

(* Line t[2] of t[1] includes t[3]. *)
LineGraph ==
  {t \in Nodes \X (Nat \ {0}) \X Files :
     /\ t[2] <= Len(files[t[1]])
     /\ files[t[1]][t[2]] \in Names
     /\ Means(t[1], files[t[1]][t[2]], t[3])}

FragmentInv == TypeOK /\ Chain /\ NoReentry /\ CycleIsReal

LEMMA FragmentInit == Init => FragmentInv
<1> SUFFICES ASSUME Init PROVE FragmentInv
  OBVIOUS
<1>1. stack = <<NewFrame(Root)>> /\ NewFrame(Root) \in Frame
  BY DEF Init, NewFrame, Frame
<1>2. TypeOK
  BY <1>1 DEF Init, TypeOK, Outcomes
<1>3. Chain /\ NoReentry
  BY <1>1 DEF Chain, NoReentry, NewFrame
<1>4. CycleIsReal
  BY DEF Init, CycleIsReal
<1> QED BY <1>2, <1>3, <1>4 DEF FragmentInv

(* Sequences that grow at their end, element by element. *)
LEMMA TopIsFrame == ASSUME TypeOK, Chain PROVE Top \in Frame
  BY DEF TypeOK, Chain, Top

LEMMA GraphKept == UNCHANGED input => IncludeGraph' = IncludeGraph
  BY DEF input, IncludeGraph, Means, IncludeDirs

LEMMA EmitPreserves ==
  ASSUME FragmentInv, NEW out \in Seq(Byte), NEW map \in Seq(Entry), Emit(out, map)
  PROVE  FragmentInv'
<1> USE DEF FragmentInv
<1> DEFINE n == Len(stack)
           frame == [file |-> Top.file, next |-> Top.next + 1, out |-> out, map |-> map]
<1>1. Top \in Frame /\ stack \in Seq(Frame) /\ n \in Nat \ {0}
  BY TopIsFrame DEF TypeOK, Chain
<1>2. frame \in Frame /\ frame.file = Top.file
  BY <1>1 DEF Frame
<1>3. /\ stack' = [stack EXCEPT ![n] = frame]
      /\ UNCHANGED <<input, outcome, cycle>>
      /\ IncludeGraph' = IncludeGraph
  BY GraphKept DEF Emit
<1>4. stack' \in Seq(Frame) /\ Len(stack') = n
  BY <1>1, <1>2, <1>3
<1>5. \A i \in 1 .. n : stack'[i].file = stack[i].file
  BY <1>1, <1>2, <1>3 DEF Top
<1>6. TypeOK'
  BY <1>3, <1>4 DEF input, TypeOK
<1>7. Chain'
  <2>1. ASSUME NEW i \in 2 .. n
        PROVE  /\ stack'[i].file \in Files
               /\ <<stack'[i - 1].file, stack'[i].file>> \in IncludeGraph'
    <3>1. i \in 1 .. n /\ i - 1 \in 1 .. n
      BY <1>1
    <3> QED BY <1>3, <1>5, <3>1 DEF Chain
  <2>2. 1 \in 1 .. n /\ n > 0
    BY <1>1
  <2>3. stack'[1].file = Root
    BY <1>5, <2>2 DEF Chain
  <2> HIDE DEF n, FragmentInv
  <2> QED BY <1>4, <2>1, <2>2, <2>3 DEF Chain
<1>8. NoReentry'
  BY <1>4, <1>5 DEF NoReentry
<1>9. CycleIsReal'
  BY <1>3 DEF CycleIsReal
<1> QED BY <1>6, <1>7, <1>8, <1>9

LEMMA DonePreserves ==
  ASSUME FragmentInv, NEW code \in Outcomes \ {"circular"}, Done(code)
  PROVE  FragmentInv'
<1> USE DEF FragmentInv
<1>1. /\ outcome' = code /\ UNCHANGED <<input, stack, cycle>>
      /\ IncludeGraph' = IncludeGraph
  BY GraphKept DEF Done
<1>2. TypeOK'
  BY <1>1 DEF input, TypeOK
<1>3. Chain' /\ NoReentry'
  BY <1>1 DEF Chain, NoReentry
<1>4. CycleIsReal'
  BY <1>1 DEF CycleIsReal
<1> QED BY <1>2, <1>3, <1>4

(* The file an include line is resolved to is the one it means. *)
LEMMA FoundIsIncluded ==
  ASSUME FragmentInv, AtLine, Line \in Names, NEW f \in Files, Found(f)
  PROVE  /\ <<Top.file, f>> \in IncludeGraph
         /\ <<Top.file, Top.next, f>> \in LineGraph
<1> USE DEF FragmentInv
<1>1. Top \in Frame /\ Len(stack) \in Nat \ {0}
  BY TopIsFrame DEF TypeOK, Chain
<1>2. LookupPath = IncludeDirs(Top.file)
  <2>1. CASE Len(stack) = 1
    BY <2>1 DEF Chain, Top, LookupPath, IncludeDirs
  <2>2. CASE Len(stack) # 1
    <3>1. \A n \in Nat \ {0} : n # 1 => n \in 2 .. n
      OBVIOUS
    <3>2. Top.file \in Files
      BY <1>1, <2>2, <3>1, Zenon DEF Chain, Top
    <3> QED BY <2>2, <3>2, PathsAssumption DEF LookupPath, IncludeDirs
  <2> QED BY <2>1, <2>2
<1>3. Means(Top.file, Line, f)
  BY <1>2 DEF Found, Means
<1>4. Top.next \in 1 .. Len(files[Top.file])
  <2>1. files[Top.file] \in Bodies \cup {<<>>}
    BY <1>1 DEF TypeOK, Frame
  <2>2. Len(files[Top.file]) \in Nat
    BY <2>1, BodiesAssumption
  <2> QED BY <1>1, <2>2 DEF AtLine, Frame
<1>5. Top.file \in Nodes
  BY <1>1 DEF Frame, Nodes
<1>6. <<Top.file, f>> \in IncludeGraph
  BY <1>3, <1>4, <1>5 DEF IncludeGraph, Line
<1>7. <<Top.file, Top.next, f>> \in LineGraph
  BY <1>1, <1>3, <1>4, <1>5 DEF LineGraph, Line, Frame
<1> QED BY <1>6, <1>7

LEMMA CircularPreserves ==
  ASSUME FragmentInv, CircularInclude
  PROVE  FragmentInv'
<1> USE DEF FragmentInv
<1>1. PICK f \in Files : /\ Found(f) /\ OnCallStack(f)
                         /\ outcome' = "circular"
                         /\ cycle' = Append(CallStack, f)
  BY DEF CircularInclude
<1>2. /\ AtLine /\ Line \in Names /\ UNCHANGED <<input, stack>>
      /\ IncludeGraph' = IncludeGraph
  BY GraphKept DEF CircularInclude
<1> DEFINE n == Len(stack)
<1>3. n \in Nat \ {0} /\ stack \in Seq(Frame)
  BY DEF TypeOK, Chain
<1>4. CallStack \in Seq(Files) /\ Len(CallStack) = n - 1
  <2>1. \A i \in 1 .. n - 1 : stack[i + 1].file \in Files
    <3> SUFFICES ASSUME NEW i \in 1 .. n - 1 PROVE stack[i + 1].file \in Files
      OBVIOUS
    <3>1. i + 1 \in 2 .. n
      BY <1>3
    <3> QED BY <3>1 DEF Chain
  <2>2. n - 1 \in Nat
    BY <1>3
  <2> QED BY <2>1, <2>2 DEF CallStack
<1>5. /\ cycle' \in Seq(Files) /\ Len(cycle') = n /\ cycle'[n] = f
      /\ \A i \in 1 .. n - 1 : cycle'[i] = stack[i + 1].file
  BY <1>1, <1>3, <1>4 DEF CallStack
<1>6. TypeOK' /\ Chain' /\ NoReentry'
  BY <1>1, <1>2, <1>5 DEF input, TypeOK, Chain, NoReentry, Outcomes
<1>7. PICK k \in 2 .. n : stack[k].file = f
  BY <1>1 DEF OnCallStack
<1>8. n > 1 /\ Top.file = cycle'[n - 1]
  BY <1>3, <1>5, <1>7 DEF Top
<1>9. <<Top.file, f>> \in IncludeGraph
  BY <1>1, <1>2, FoundIsIncluded
<1>10. <<Root, cycle'[1]>> \in IncludeGraph
  <2>1. 1 \in 1 .. n - 1 /\ 2 \in 2 .. n /\ 1 + 1 = 2 /\ 2 - 1 = 1
    BY <1>3, <1>8
  <2>2. cycle'[1] = stack[2].file
    BY <1>5, <2>1
  <2>3. <<stack[1].file, stack[2].file>> \in IncludeGraph
    BY <2>1 DEF Chain
  <2> QED BY <2>2, <2>3 DEF Chain
<1>11. ASSUME NEW i \in 1 .. n - 1
       PROVE  <<cycle'[i], cycle'[i + 1]>> \in IncludeGraph
  <2>1. CASE i = n - 1
    <3>1. i + 1 = n
      BY <1>3, <2>1
    <3> QED BY <1>5, <1>8, <1>9, <2>1, <3>1
  <2>2. CASE i # n - 1
    <3>1. i + 1 \in 1 .. n - 1 /\ i + 2 \in 2 .. n /\ (i + 2) - 1 = i + 1 /\ (i + 1) + 1 = i + 2
      BY <1>3, <2>2
    <3>2. <<stack[i + 1].file, stack[i + 2].file>> \in IncludeGraph
      BY <3>1 DEF Chain
    <3>3. cycle'[i] = stack[i + 1].file /\ cycle'[i + 1] = stack[i + 2].file
      BY <1>5, <3>1
    <3> QED BY <3>2, <3>3
  <2> QED BY <2>1, <2>2
<1>12. k - 1 \in 1 .. n - 1 /\ cycle'[k - 1] = cycle'[n]
  BY <1>3, <1>5, <1>7
<1>13. CycleIsReal'
  BY <1>2, <1>3, <1>5, <1>10, <1>11, <1>12 DEF CycleIsReal
<1> QED BY <1>6, <1>13

LEMMA EnterPreserves ==
  ASSUME FragmentInv, EnterFile
  PROVE  FragmentInv'
<1> USE DEF FragmentInv
<1> DEFINE n == Len(stack)
<1>1. PICK f \in Files : /\ Found(f) /\ ~OnCallStack(f)
                         /\ stack' = Append(stack, NewFrame(f))
  BY DEF EnterFile
<1>2. /\ AtLine /\ Line \in Names /\ UNCHANGED <<input, outcome, cycle>>
      /\ IncludeGraph' = IncludeGraph
  BY GraphKept DEF EnterFile
<1>3. NewFrame(f) \in Frame /\ NewFrame(f).file = f
  BY DEF NewFrame, Frame
<1>4. n \in Nat /\ n > 0 /\ stack \in Seq(Frame)
  BY DEF TypeOK, Chain
<1>5. /\ stack' \in Seq(Frame) /\ Len(stack') = n + 1 /\ stack'[n + 1].file = f
      /\ \A i \in 1 .. n : stack'[i] = stack[i]
  BY <1>1, <1>3, <1>4
<1>6. TypeOK'
  BY <1>2, <1>5 DEF input, TypeOK
<1>7. <<Top.file, f>> \in IncludeGraph
  BY <1>1, <1>2, FoundIsIncluded
<1>8. ASSUME NEW i \in 2 .. n + 1
      PROVE  /\ stack'[i].file \in Files
             /\ <<stack'[i - 1].file, stack'[i].file>> \in IncludeGraph
  <2>1. CASE i = n + 1
    <3>1. i - 1 = n /\ n \in 1 .. n
      BY <1>4, <2>1
    <3> QED BY <1>5, <1>7, <2>1, <3>1 DEF Top
  <2>2. CASE i # n + 1
    <3>1. i \in 2 .. n /\ i \in 1 .. n /\ i - 1 \in 1 .. n
      BY <1>4, <2>2
    <3> QED BY <1>5, <3>1 DEF Chain
  <2> QED BY <2>1, <2>2
<1>9. Chain'
  <2>1. Len(stack') > 0 /\ stack'[1] = stack[1]
    BY <1>4, <1>5
  <2> QED BY <1>2, <1>5, <1>8, <2>1 DEF Chain
<1>10. NoReentry'
  <2>1. \A i \in 2 .. n : stack[i].file # f
    BY <1>1 DEF OnCallStack
  <2> SUFFICES ASSUME NEW i \in 2 .. n + 1, NEW j \in 2 .. n + 1,
                      stack'[i].file = stack'[j].file
               PROVE  i = j
    BY <1>5 DEF NoReentry
  <2>2. \A k \in 2 .. n + 1 : k # n + 1 => k \in 2 .. n /\ k \in 1 .. n
    BY <1>4
  <2> QED BY <1>5, <2>1, <2>2 DEF NoReentry
<1>11. CycleIsReal'
  BY <1>2 DEF CycleIsReal
<1> QED BY <1>6, <1>9, <1>10, <1>11

LEMMA InlineIsText ==
  ASSUME NEW out \in Seq(Byte), NEW text \in Seq(Byte), NEW f \in Origins
  PROVE  Inline(out, text, f) \in Seq(Byte)
<1>1. <<f, 0>> \in Byte
  BY DEF Byte
<1> QED BY <1>1 DEF Inline

LEMMA LowerCalls ==
  ASSUME NEW S, NEW s \in Seq(S), NEW m \in 0 .. Len(s)
  PROVE  /\ SubSeq(s, 1, m) \in Seq(S) /\ Len(SubSeq(s, 1, m)) = m
         /\ \A i \in 1 .. m : SubSeq(s, 1, m)[i] = s[i]
  OBVIOUS

LEMMA ShiftedIsMap ==
  ASSUME NEW map \in Seq(Entry), NEW by \in Nat
  PROVE  Shifted(map, by) \in Seq(Entry)
<1>1. ASSUME NEW e \in Entry
      PROVE  [start |-> e.start + by, end |-> e.end + by, file |-> e.file] \in Entry
  <2>1. e.start + by \in Nat /\ e.end + by \in Nat
    BY DEF Entry
  <2> QED BY <2>1 DEF Entry
<1>2. \A i \in 1 .. Len(map) : map[i] \in Entry
  OBVIOUS
<1>3. Len(map) \in Nat
  OBVIOUS
<1>4. Shifted(map, by) \in [1 .. Len(map) -> Entry]
  BY <1>1, <1>2 DEF Shifted
<1> QED BY <1>3, <1>4

(* What the includer continues with when a call returns. *)
Returned ==
  LET up  == stack[Len(stack) - 1]
      at  == Len(up.out)
      out == Inline(up.out, Top.out, Top.file)
      own == [start |-> at, end |-> Len(out), file |-> Top.file]
  IN  [up EXCEPT !.next = @ + 1, !.out = out,
                 !.map = Append(@, own) \o Shifted(Top.map, at)]

LEMMA ReturnIsCall ==
  ASSUME FragmentInv, ReturnToIncluder
  PROVE  /\ Returned \in Frame /\ Returned.file = stack[Len(stack) - 1].file
         /\ stack' \in Seq(Frame) /\ Len(stack') = Len(stack) - 1
         /\ stack'[Len(stack) - 1] = Returned
         /\ \A i \in 1 .. Len(stack) - 2 : stack'[i] = stack[i]
<1> USE DEF FragmentInv
<1> DEFINE n   == Len(stack)
           up  == stack[n - 1]
           at  == Len(up.out)
           out == Inline(up.out, Top.out, Top.file)
           own == [start |-> at, end |-> Len(out), file |-> Top.file]
           frame == [up EXCEPT !.next = @ + 1, !.out = out,
                               !.map = Append(@, own) \o Shifted(Top.map, at)]
<1>1. stack' = Append(SubSeq(stack, 1, n - 2), frame) /\ n > 1
  BY DEF ReturnToIncluder
<1>2. n \in Nat /\ stack \in Seq(Frame) /\ n - 1 \in 1 .. n
  BY <1>1 DEF TypeOK
<1>3. Top \in Frame /\ up \in Frame
  BY <1>2, TopIsFrame
<1>4. frame \in Frame /\ frame.file = up.file
  <2>1. out \in Seq(Byte)
    BY <1>3, InlineIsText DEF Frame, Origins
  <2>2. at \in Nat /\ Len(out) \in Nat
    BY <1>3, <2>1 DEF Frame
  <2>3. own \in Entry
    BY <1>3, <2>2 DEF Entry, Frame, Origins
  <2>4. Shifted(Top.map, at) \in Seq(Entry)
    <3>1. Top.map \in Seq(Entry)
      BY <1>3 DEF Frame
    <3> QED BY <2>2, <3>1, ShiftedIsMap
  <2>5. up.map \in Seq(Entry) /\ up.next + 1 \in Nat \ {0}
    BY <1>3 DEF Frame
  <2>6. Append(up.map, own) \o Shifted(Top.map, at) \in Seq(Entry)
    BY <2>3, <2>4, <2>5
  <2> QED BY <1>3, <2>1, <2>5, <2>6 DEF Frame
<1>5. frame = Returned
  BY DEF Returned
<1>6. n - 2 \in 0 .. n
  BY <1>1, <1>2
<1> DEFINE below == SubSeq(stack, 1, n - 2)
<1>7. /\ below \in Seq(Frame) /\ Len(below) = n - 2
      /\ \A i \in 1 .. n - 2 : below[i] = stack[i]
  BY <1>2, <1>6, LowerCalls
<1>8. stack' = Append(below, frame)
  BY <1>1
<1> HIDE DEF below, frame
<1>9. \A i \in 1 .. n - 2 : stack'[i] = below[i]
  BY <1>4, <1>7, <1>8
<1>10. Len(stack') = n - 1 /\ stack' \in Seq(Frame) /\ stack'[n - 1] = frame
  BY <1>2, <1>4, <1>7, <1>8
<1> QED BY <1>4, <1>5, <1>7, <1>9, <1>10

LEMMA ReturnPreserves ==
  ASSUME FragmentInv, ReturnToIncluder
  PROVE  FragmentInv'
<1> USE DEF FragmentInv
<1> DEFINE n == Len(stack)
<1>1. n > 1 /\ UNCHANGED <<input, outcome, cycle>> /\ IncludeGraph' = IncludeGraph
  BY GraphKept DEF ReturnToIncluder
<1>2. n \in Nat
  BY DEF TypeOK
<1>3. /\ stack' \in Seq(Frame) /\ Len(stack') = n - 1
      /\ \A i \in 1 .. n - 1 : stack'[i].file = stack[i].file
  <2>1. \A i \in 1 .. n - 1 : i # n - 1 => i \in 1 .. n - 2
    BY <1>2
  <2> QED BY <1>2, <2>1, ReturnIsCall
<1>4. TypeOK'
  BY <1>1, <1>3 DEF input, TypeOK
<1>5. ASSUME NEW i \in 2 .. n - 1
      PROVE  /\ stack'[i].file \in Files
             /\ <<stack'[i - 1].file, stack'[i].file>> \in IncludeGraph
  <2>1. i \in 2 .. n /\ i \in 1 .. n - 1 /\ i - 1 \in 1 .. n - 1
    BY <1>2
  <2> QED BY <1>3, <2>1 DEF Chain
<1>6. Chain'
  <2>1. Len(stack') > 0 /\ 1 \in 1 .. n - 1
    BY <1>1, <1>2, <1>3
  <2> QED BY <1>1, <1>3, <1>5, <2>1 DEF Chain
<1>7. NoReentry'
  <2>1. \A i \in 2 .. n - 1 : i \in 2 .. n /\ i \in 1 .. n - 1
    BY <1>2
  <2> QED BY <1>3, <2>1 DEF NoReentry
<1>8. CycleIsReal'
  BY <1>1 DEF CycleIsReal
<1> QED BY <1>4, <1>6, <1>7, <1>8

LEMMA FragmentStep == FragmentInv /\ [Next]_vars => FragmentInv'
<1> SUFFICES ASSUME FragmentInv, [Next]_vars PROVE FragmentInv'
  OBVIOUS
<1> USE DEF FragmentInv
<1>1. Top \in Frame
  BY TopIsFrame
<1>2. /\ Top.out \in Seq(Byte) /\ Top.map \in Seq(Entry) /\ Len(Top.out) \in Nat
      /\ Top.file \in Origins /\ Top.next \in Nat
  BY <1>1 DEF Frame, Origins
<1>3. CASE PassThrough
  <2> DEFINE b == <<Top.file, Top.next>>
  <2>1. b \in Byte
    BY <1>2 DEF Byte
  <2>2. Top.out \o <<b, b>> \in Seq(Byte)
    BY <1>2, <2>1
  <2> QED BY <1>2, <1>3, <2>2, EmitPreserves DEF PassThrough
<1>4. CASE DeferCoordinate
  <2> DEFINE e == [start |-> Len(Top.out), end |-> Len(Top.out), file |-> DeferredMark]
  <2>1. e \in Entry
    BY <1>2 DEF Entry
  <2>2. Append(Top.map, e) \in Seq(Entry)
    BY <1>2, <2>1
  <2> QED BY <1>2, <1>4, <2>2, EmitPreserves DEF DeferCoordinate
<1>5. CASE IncludeCoordinate
  <2> DEFINE text == << <<RegistryModule, 1>>, <<RegistryModule, 1>> >>
             out  == Inline(Top.out, text, RegistryModule)
             e    == [start |-> Len(Top.out), end |-> Len(out), file |-> RegistryModule]
  <2>1. text \in Seq(Byte)
    BY DEF Byte, Origins
  <2>2. out \in Seq(Byte)
    BY <1>2, <2>1, InlineIsText DEF Origins
  <2>3. e \in Entry
    BY <1>2, <2>2 DEF Entry, Origins
  <2>4. Append(Top.map, e) \in Seq(Entry)
    BY <1>2, <2>3
  <2>5. Done("deferred") \/ Done("retired") \/ Emit(out, Append(Top.map, e))
    BY <1>5 DEF IncludeCoordinate
  <2> QED BY <2>2, <2>4, <2>5, EmitPreserves, DonePreserves DEF Outcomes
<1>6. CASE FileNotFound
  BY <1>6, DonePreserves DEF FileNotFound, Outcomes
<1>7. CASE CircularInclude
  BY <1>7, CircularPreserves
<1>8. CASE BrokenFile
  BY <1>8, DonePreserves DEF BrokenFile, Outcomes
<1>9. CASE EnterFile
  BY <1>9, EnterPreserves
<1>10. CASE ReturnToIncluder
  BY <1>10, ReturnPreserves
<1>11. CASE Finish
  BY <1>11, DonePreserves DEF Finish, Outcomes
<1>12. CASE UNCHANGED vars
  <2>1. IncludeGraph' = IncludeGraph
    BY <1>12, GraphKept DEF vars
  <2> QED BY <1>12, <2>1 DEF input, vars, TypeOK, Chain, NoReentry, CycleIsReal
<1> QED BY <1>3, <1>4, <1>5, <1>6, <1>7, <1>8, <1>9, <1>10, <1>11, <1>12 DEF Next

LEMMA FragmentAlways == Spec => []FragmentInv
  BY FragmentInit, FragmentStep, PTL DEF Spec
----------------------------------------------------------------------------
(* What the calls have inlined so far.  A file inlined by a call was       *)
(* expanded with everything it includes, so these files are closed under   *)
(* inclusion and free of cycles, and the files being expanded are not      *)
(* among them.                                                             *)
Inlined(map) == {map[i].file : i \in DOMAIN map} \cap Files

ClosedIn(S, graph) == \A e \in graph : e[1] \in S => e[2] \in S

(* The includes on the lines the call has passed are inlined. *)
PassedIn(frame, lines, S) ==
  \A t \in lines : t[1] = frame.file /\ t[2] < frame.next => t[3] \in S

(* The entries of a call's map are about the call's own output. *)
MapInside(out, map) ==
  \A i \in DOMAIN map : map[i].start <= map[i].end /\ map[i].end <= Len(out)

CallRight(frame, lines, graph) ==
  /\ ClosedIn(Inlined(frame.map), graph)
  /\ Acyclic(Inlined(frame.map), graph)
  /\ PassedIn(frame, lines, Inlined(frame.map))
  /\ MapInside(frame.out, frame.map)

CallsRight == \A k \in 1 .. Len(stack) : CallRight(stack[k], LineGraph, IncludeGraph)

(* No file is inlined in its own expansion. *)
NotInItself ==
  \A k \in 1 .. Len(stack) : \A j \in 2 .. k : stack[j].file \notin Inlined(stack[k].map)

(* A call waits at the line that includes the file of the next call. *)
Pending ==
  \A k \in 1 .. Len(stack) - 1 :
    <<stack[k].file, stack[k].next, stack[k + 1].file>> \in LineGraph

OkAtEnd == outcome = "ok" => Len(stack) = 1 /\ Top.next > Len(files[Root])

InlineInv == CallsRight /\ NotInItself /\ Pending /\ OkAtEnd

LEMMA NewCallRight ==
  ASSUME NEW f, NEW graph, NEW lines, \A t \in lines : t[2] \in Nat \ {0}
  PROVE  CallRight(NewFrame(f), lines, graph)
<1>1. /\ NewFrame(f).file = f /\ NewFrame(f).next = 1
      /\ NewFrame(f).out = <<>> /\ NewFrame(f).map = <<>>
  BY DEF NewFrame
<1>2. Inlined(NewFrame(f).map) = {}
  BY <1>1 DEF Inlined
<1>3. ClosedIn({}, graph) /\ Acyclic({}, graph)
  BY DEF ClosedIn, Acyclic
<1>4. PassedIn(NewFrame(f), lines, {})
  BY <1>1 DEF PassedIn
<1>5. MapInside(<<>>, <<>>)
  BY DEF MapInside
<1> QED BY <1>1, <1>2, <1>3, <1>4, <1>5 DEF CallRight

LEMMA LinesKept == UNCHANGED input => LineGraph' = LineGraph
  BY DEF input, LineGraph, Means, IncludeDirs

(* Two sets that inclusion does not leave, and a file that only includes   *)
(* files of the second and is not there itself.                            *)
LEMMA UnionAcyclic ==
  ASSUME NEW graph \in SUBSET (Nodes \X Files), NEW A, NEW B, NEW f,
         ClosedIn(A, graph), ClosedIn(B, graph),
         Acyclic(A, graph), Acyclic(B, graph),
         \A g : <<f, g>> \in graph => g \in B, f \notin B
  PROVE  /\ ClosedIn(A \cup {f} \cup B, graph)
         /\ Acyclic(A \cup {f} \cup B, graph)
<1>1. ASSUME NEW S, ClosedIn(S, graph), Acyclic(S, graph), NEW C, C \cap S # {}
      PROVE  \E h \in C : \A g \in C : <<h, g>> \notin graph
  <2>1. PICK h \in C \cap S : \A g \in C \cap S : <<h, g>> \notin graph
    <3>1. C \cap S \in (SUBSET S) \ {{}}
      BY <1>1
    <3>2. PICK h \in C \cap S : \A g \in C \cap S : <<h, g>> \notin graph
      BY <1>1, <3>1, Zenon DEF Acyclic
    <3> QED BY <3>2
  <2>2. ASSUME NEW g \in C, <<h, g>> \in graph PROVE FALSE
    <3>1. <<h, g>>[1] = h /\ <<h, g>>[2] = g
      OBVIOUS
    <3>2. g \in S
      BY <1>1, <2>1, <2>2, <3>1 DEF ClosedIn
    <3> QED BY <2>1, <2>2, <3>2
  <2> QED BY <2>1, <2>2
<1>2. Acyclic(A \cup {f} \cup B, graph)
  <2> SUFFICES ASSUME NEW C \in (SUBSET (A \cup {f} \cup B)) \ {{}}
               PROVE  \E h \in C : \A g \in C : <<h, g>> \notin graph
    BY DEF Acyclic
  <2>1. CASE C \cap A # {}
    BY <1>1, <2>1
  <2>2. CASE C \cap B # {}
    BY <1>1, <2>2
  <2>3. CASE C \cap A = {} /\ C \cap B = {}
    <3>1. C = {f}
      BY <2>3
    <3>2. <<f, f>> \notin graph
      OBVIOUS
    <3>3. \A g \in C : g = f
      BY <3>1
    <3> QED BY <3>1, <3>2, <3>3, Zenon
  <2> QED BY <2>1, <2>2, <2>3
<1>3. ASSUME NEW e \in graph, e[1] \in A \cup {f} \cup B
      PROVE  e[2] \in A \cup {f} \cup B
  <2>1. e = <<e[1], e[2]>>
    OBVIOUS
  <2> QED BY <1>3, <2>1 DEF ClosedIn
<1> QED BY <1>2, <1>3 DEF ClosedIn
LEMMA Joined ==
  ASSUME NEW S, NEW s \in Seq(S), NEW t \in Seq(S)
  PROVE  /\ s \o t \in Seq(S) /\ Len(s \o t) = Len(s) + Len(t)
         /\ DOMAIN (s \o t) = 1 .. Len(s) + Len(t)
         /\ \A i \in 1 .. Len(s) : (s \o t)[i] = s[i]
         /\ \A i \in 1 .. Len(t) : (s \o t)[Len(s) + i] = t[i]
<1>1. s \o t \in Seq(S) /\ Len(s \o t) = Len(s) + Len(t)
  OBVIOUS
<1>2. DOMAIN (s \o t) = 1 .. Len(s) + Len(t)
  BY <1>1
<1>3. \A i \in 1 .. Len(s) : (s \o t)[i] = s[i]
  OBVIOUS
<1>4. \A i \in 1 .. Len(t) : (s \o t)[Len(s) + i] = t[i]
  OBVIOUS
<1> QED BY <1>1, <1>2, <1>3, <1>4

LEMMA EntriesInside ==
  ASSUME NEW out \in Seq(Byte), NEW map \in Seq(Entry), MapInside(out, map)
  PROVE  /\ DOMAIN map = 1 .. Len(map) /\ Len(map) \in Nat /\ Len(out) \in Nat
         /\ \A i \in 1 .. Len(map) :
              /\ map[i].start \in Nat /\ map[i].end \in Nat
              /\ map[i].start <= map[i].end /\ map[i].end <= Len(out)
<1>1. DOMAIN map = 1 .. Len(map) /\ Len(map) \in Nat /\ Len(out) \in Nat
  OBVIOUS
<1>2. \A i \in 1 .. Len(map) : map[i] \in Entry
  OBVIOUS
<1>3. \A i \in 1 .. Len(map) : map[i].start \in Nat /\ map[i].end \in Nat
  BY <1>2 DEF Entry
<1> QED BY <1>1, <1>3 DEF MapInside

LEMMA LongerText ==
  ASSUME NEW out \in Seq(Byte), NEW map \in Seq(Entry), MapInside(out, map),
         NEW longer \in Seq(Byte), Len(out) <= Len(longer)
  PROVE  MapInside(longer, map)
<1>1. Len(longer) \in Nat
  OBVIOUS
<1> QED BY <1>1, EntriesInside DEF MapInside

LEMMA MarkInside ==
  ASSUME NEW out \in Seq(Byte), NEW map \in Seq(Entry), MapInside(out, map),
         NEW mark \in Entry, mark.start <= mark.end, mark.end <= Len(out)
  PROVE  MapInside(out, Append(map, mark))
<1> DEFINE longer == Append(map, mark)
<1>1. /\ DOMAIN longer = 1 .. Len(map) + 1 /\ longer[Len(map) + 1] = mark
      /\ \A i \in 1 .. Len(map) : longer[i] = map[i]
  OBVIOUS
<1>2. \A i \in 1 .. Len(map) + 1 : i = Len(map) + 1 \/ i \in 1 .. Len(map)
  OBVIOUS
<1> HIDE DEF longer
<1>3. MapInside(out, longer)
  BY <1>1, <1>2 DEF MapInside
<1> QED BY <1>3 DEF longer

LEMMA Inlining ==
  ASSUME NEW out \in Seq(Byte), NEW text \in Seq(Byte), NEW f \in Origins
  PROVE  /\ Inline(out, text, f) \in Seq(Byte)
         /\ Len(out) + Len(text) <= Len(Inline(out, text, f))
         /\ Len(out) <= Len(Inline(out, text, f))
         /\ \A i \in 1 .. Len(out) : Inline(out, text, f)[i] = out[i]
         /\ \/ /\ Len(Inline(out, text, f)) = Len(out) + Len(text)
               /\ \A i \in 1 .. Len(text) : Inline(out, text, f)[Len(out) + i] = text[i]
            \/ /\ Len(out) = 0 /\ Len(text) = 0 /\ Len(Inline(out, text, f)) = 1
               /\ Inline(out, text, f)[1] = <<f, 0>>
<1>1. CASE out \o text = <<>>
  <2>1. Inline(out, text, f) = << <<f, 0>> >>
    BY <1>1 DEF Inline
  <2>2. Len(out) = 0 /\ Len(text) = 0
    BY <1>1, Joined
  <2>3. Inline(out, text, f) \in Seq(Byte)
    BY InlineIsText
  <2> QED BY <2>1, <2>2, <2>3
<1>2. CASE out \o text # <<>>
  <2>1. Inline(out, text, f) = out \o text
    BY <1>2 DEF Inline
  <2>2. Len(out) \in Nat /\ Len(text) \in Nat
    OBVIOUS
  <2> QED BY <2>1, <2>2, Joined
<1> QED BY <1>1, <1>2

(* A call inlines the result of another one: an entry for all of the text, *)
(* then the entries of the text, moved to where it is.                     *)
LEMMA InlinedInside ==
  ASSUME NEW out \in Seq(Byte), NEW map \in Seq(Entry), MapInside(out, map),
         NEW g \in Origins, NEW text \in Seq(Byte), NEW inner \in Seq(Entry),
         MapInside(text, inner),
         NEW own, own = [start |-> Len(out), end |-> Len(Inline(out, text, g)), file |-> g]
  PROVE  /\ MapInside(Inline(out, text, g), Append(map, own) \o Shifted(inner, Len(out)))
         /\ own \in Entry /\ Shifted(inner, Len(out)) \in Seq(Entry)
         /\ \A k \in 1 .. Len(Shifted(inner, Len(out))) :
              Shifted(inner, Len(out))[k].start >= Len(out)
<1> DEFINE at   == Len(out)
           all  == Inline(out, text, g)
           low  == Append(map, own)
           high == Shifted(inner, at)
<1>1. all \in Seq(Byte) /\ Len(all) \in Nat /\ at + Len(text) <= Len(all)
  <2>1. all \in Seq(Byte) /\ at + Len(text) <= Len(all)
    BY Inlining
  <2> QED BY <2>1
<1>2. /\ at \in Nat /\ Len(map) \in Nat
      /\ \A i \in 1 .. Len(map) : map[i].end \in Nat
      /\ \A i \in 1 .. Len(map) : map[i].start <= map[i].end /\ map[i].end <= at
  BY EntriesInside
<1>3. /\ DOMAIN inner = 1 .. Len(inner) /\ Len(inner) \in Nat /\ Len(text) \in Nat
      /\ \A i \in 1 .. Len(inner) : /\ inner[i].start \in Nat /\ inner[i].end \in Nat
                                    /\ inner[i].start <= inner[i].end
                                    /\ inner[i].end <= Len(text)
  BY EntriesInside
<1>4. own \in Entry /\ own.start = at /\ own.end = Len(all)
  BY <1>1, <1>2 DEF Entry
<1>5. /\ low \in Seq(Entry) /\ Len(low) = Len(map) + 1 /\ low[Len(map) + 1] = own
      /\ \A i \in 1 .. Len(map) : low[i] = map[i]
      /\ DOMAIN low = 1 .. Len(map) + 1
  BY <1>4
<1>6. /\ high \in Seq(Entry) /\ Len(high) = Len(inner)
      /\ \A i \in 1 .. Len(inner) : /\ high[i].start = inner[i].start + at
                                    /\ high[i].end = inner[i].end + at
  <2>1. Len(high) = Len(inner) /\ high \in Seq(Entry)
    BY <1>2, <1>3, ShiftedIsMap DEF Shifted
  <2> QED BY <2>1 DEF Shifted
<1>o. own.start \in Nat /\ own.end \in Nat
  BY <1>1, <1>2, <1>4
<1> HIDE DEF at, all, low, high
<1>7. \A i \in DOMAIN low : low[i].start <= low[i].end /\ low[i].end <= Len(all)
  <2>1. \A i \in 1 .. Len(map) + 1 : i = Len(map) + 1 \/ i \in 1 .. Len(map)
    BY <1>2
  <2>2. own.start <= own.end /\ own.end <= Len(all)
    BY <1>1, <1>2, <1>3, <1>4
  <2>3. \A i \in 1 .. Len(map) : map[i].end <= Len(all)
    BY <1>1, <1>2, <1>3
  <2> QED BY <1>2, <1>5, <2>1, <2>2, <2>3
<1>8. \A k \in 1 .. Len(high) : /\ high[k].start <= high[k].end /\ high[k].end <= Len(all)
                               /\ high[k].start >= at
  <2> SUFFICES ASSUME NEW k \in 1 .. Len(inner)
               PROVE  /\ high[k].start <= high[k].end /\ high[k].end <= Len(all)
                      /\ high[k].start >= at
    BY <1>6
  <2>1. high[k].start = inner[k].start + at /\ high[k].end = inner[k].end + at
    BY <1>6
  <2>2. /\ inner[k].start \in Nat /\ inner[k].end \in Nat
        /\ inner[k].start <= inner[k].end /\ inner[k].end <= Len(text)
    BY <1>3
  <2>3. Len(text) \in Nat /\ at \in Nat
    BY <1>2, <1>3
  <2> QED BY <1>1, <2>1, <2>2, <2>3
<1>9. MapInside(all, low \o high)
  <2>1. /\ DOMAIN (low \o high) = 1 .. Len(low) + Len(high)
        /\ \A i \in 1 .. Len(low) : (low \o high)[i] = low[i]
        /\ \A i \in 1 .. Len(high) : (low \o high)[Len(low) + i] = high[i]
    <3>1. low \in Seq(Entry) /\ high \in Seq(Entry)
      BY <1>5, <1>6
    <3> QED BY <3>1, Joined
  <2>2. Len(low) \in Nat /\ Len(high) \in Nat /\ DOMAIN low = 1 .. Len(low)
    BY <1>2, <1>3, <1>5, <1>6
  <2> DEFINE result == low \o high
  <2> HIDE DEF result
  <2>3. ASSUME NEW i \in DOMAIN result
        PROVE  \/ i \in 1 .. Len(low) /\ result[i] = low[i]
               \/ \E k \in 1 .. Len(high) : result[i] = high[k]
    <3>1. CASE i \in 1 .. Len(low)
      BY <2>1, <3>1 DEF result
    <3>2. CASE i \notin 1 .. Len(low)
      <4>1. i - Len(low) \in 1 .. Len(high) /\ Len(low) + (i - Len(low)) = i
        BY <2>1, <2>2, <3>2 DEF result
      <4> QED BY <2>1, <4>1 DEF result
    <3> QED BY <3>1, <3>2
  <2>4. MapInside(all, result)
    BY <1>7, <1>8, <2>2, <2>3 DEF MapInside
  <2> QED BY <2>4 DEF result
<1> QED BY <1>4, <1>6, <1>8, <1>9 DEF at, all, low, high

LEMMA InlineInit == Init => InlineInv
<1> SUFFICES ASSUME Init PROVE InlineInv
  OBVIOUS
<1>1. stack = <<NewFrame(Root)>> /\ outcome = "running"
  BY DEF Init
<1>2. NewFrame(Root).map = <<>> /\ NewFrame(Root).out = <<>> /\ NewFrame(Root).next = 1
  BY DEF NewFrame
<1>3. CallRight(NewFrame(Root), LineGraph, IncludeGraph)
  BY NewCallRight DEF LineGraph
<1> QED BY <1>1, <1>2, <1>3
        DEF InlineInv, CallsRight, NotInItself, Pending, OkAtEnd, Inlined

LEMMA EmitInlines ==
  ASSUME FragmentInv, InlineInv, AtLine, Line \notin Names,
         NEW out \in Seq(Byte), NEW map \in Seq(Entry), Emit(out, map),
         Inlined(map) = Inlined(Top.map), MapInside(out, map)
  PROVE  InlineInv'
<1> USE DEF FragmentInv, InlineInv
<1> DEFINE n == Len(stack)
           frame == [file |-> Top.file, next |-> Top.next + 1, out |-> out, map |-> map]
<1>1. /\ Top \in Frame /\ stack \in Seq(Frame) /\ n \in Nat \ {0}
      /\ Top = stack[n] /\ Top.next \in Nat
  <2>1. Top \in Frame
    BY TopIsFrame
  <2>2. Top.next \in Nat
    BY <2>1 DEF Frame
  <2> QED BY <2>1, <2>2 DEF TypeOK, Chain, Top
<1>2. /\ stack' = [stack EXCEPT ![n] = frame]
      /\ UNCHANGED <<input, outcome, cycle>>
      /\ IncludeGraph' = IncludeGraph /\ LineGraph' = LineGraph
  BY GraphKept, LinesKept DEF Emit
<1>3. /\ Len(stack') = n /\ stack'[n] = frame
      /\ \A i \in 1 .. n : i # n => stack'[i] = stack[i]
      /\ \A i \in 1 .. n : /\ stack'[i].file = stack[i].file
                           /\ Inlined(stack'[i].map) = Inlined(stack[i].map)
  BY <1>1, <1>2
<1>4. CallRight(frame, LineGraph, IncludeGraph)
  <2>1. CallRight(Top, LineGraph, IncludeGraph)
    BY <1>1 DEF CallsRight
  <2>2. ASSUME NEW t \in LineGraph, t[1] = Top.file, t[2] < Top.next + 1
        PROVE  t[2] < Top.next
    <3>1. t[2] \in Nat /\ files[t[1]][t[2]] \in Names
      BY DEF LineGraph
    <3>2. t[2] # Top.next
      BY <2>2, <3>1 DEF Line
    <3> QED BY <1>1, <2>2, <3>1, <3>2
  <2>3. PassedIn(frame, LineGraph, Inlined(frame.map))
    BY <2>1, <2>2 DEF CallRight, PassedIn
  <2> QED BY <2>1, <2>3 DEF CallRight
<1>5. CallsRight'
  <2>1. \A i \in 1 .. n : CallRight(stack'[i], LineGraph, IncludeGraph)
    BY <1>3, <1>4 DEF CallsRight
  <2> QED BY <1>2, <1>3, <2>1 DEF CallsRight
<1>6. NotInItself'
  <2>1. \A i \in 1 .. n : \A j \in 2 .. i : j \in 1 .. n
    BY <1>1
  <2> QED BY <1>3, <2>1 DEF NotInItself
<1>7. Pending'
  <2>1. \A k \in 1 .. n - 1 : k \in 1 .. n /\ k # n /\ k + 1 \in 1 .. n
    BY <1>1
  <2>2. ASSUME NEW k \in 1 .. n - 1
        PROVE  <<stack'[k].file, stack'[k].next, stack'[k + 1].file>> \in LineGraph
    <3>1. stack'[k] = stack[k] /\ stack'[k + 1].file = stack[k + 1].file
      BY <1>3, <2>1
    <3>2. <<stack[k].file, stack[k].next, stack[k + 1].file>> \in LineGraph
      BY DEF Pending
    <3> QED BY <3>1, <3>2
  <2>3. 1 .. Len(stack') - 1 = 1 .. n - 1
    BY <1>3
  <2> QED BY <1>2, <2>2, <2>3 DEF Pending
<1>8. OkAtEnd'
  BY <1>2 DEF AtLine, OkAtEnd
<1> QED BY <1>5, <1>6, <1>7, <1>8

LEMMA StackKept ==
  ASSUME InlineInv, UNCHANGED <<input, stack>>
  PROVE  (CallsRight /\ NotInItself /\ Pending)'
<1>1. IncludeGraph' = IncludeGraph /\ LineGraph' = LineGraph
  BY GraphKept, LinesKept
<1> QED BY <1>1 DEF InlineInv, CallsRight, NotInItself, Pending

LEMMA DoneInlines ==
  ASSUME InlineInv, NEW code \in Outcomes \ {"ok"}, Done(code)
  PROVE  InlineInv'
<1>1. UNCHANGED <<input, stack>> /\ outcome' # "ok"
  BY DEF Done
<1> QED BY <1>1, StackKept DEF InlineInv, OkAtEnd

LEMMA FinishInlines ==
  ASSUME FragmentInv, InlineInv, Finish
  PROVE  InlineInv'
<1>1. UNCHANGED <<input, stack>>
  BY DEF Finish, Done
<1>2. Len(stack) = 1 /\ Top.file = Root /\ Top.next > Len(files[Root])
  BY DEF Finish, AtEnd, FragmentInv, Chain, Top
<1>3. OkAtEnd'
  BY <1>1, <1>2 DEF OkAtEnd, Top, input
<1> QED BY <1>1, <1>3, StackKept DEF InlineInv

LEMMA EnterInlines ==
  ASSUME FragmentInv, InlineInv, EnterFile
  PROVE  InlineInv'
<1> USE DEF FragmentInv, InlineInv
<1> DEFINE n == Len(stack)
<1>1. PICK f \in Files : /\ Found(f) /\ ~OnCallStack(f)
                         /\ stack' = Append(stack, NewFrame(f))
  BY DEF EnterFile
<1>2. /\ AtLine /\ Line \in Names /\ UNCHANGED <<input, outcome, cycle>>
      /\ IncludeGraph' = IncludeGraph /\ LineGraph' = LineGraph
  BY GraphKept, LinesKept DEF EnterFile
<1>3. /\ NewFrame(f) \in Frame /\ NewFrame(f).file = f /\ NewFrame(f).next = 1
      /\ NewFrame(f).out = <<>> /\ NewFrame(f).map = <<>>
  BY DEF NewFrame, Frame
<1>4. n \in Nat /\ n > 0 /\ stack \in Seq(Frame)
  BY DEF TypeOK, Chain
<1>5. /\ Len(stack') = n + 1 /\ stack'[n + 1] = NewFrame(f)
      /\ \A i \in 1 .. n : stack'[i] = stack[i]
  BY <1>1, <1>3, <1>4
<1>6. \A i \in 1 .. n + 1 : i = n + 1 \/ i \in 1 .. n
  BY <1>4
<1>7. CallsRight'
  <2>1. CallRight(NewFrame(f), LineGraph, IncludeGraph)
    BY NewCallRight DEF LineGraph
  <2>2. \A i \in 1 .. n + 1 : CallRight(stack'[i], LineGraph, IncludeGraph)
    BY <1>5, <1>6, <2>1 DEF CallsRight
  <2> QED BY <1>2, <1>5, <2>2 DEF CallsRight
<1>8. NotInItself'
  <2>1. Inlined(stack'[n + 1].map) = {}
    BY <1>3, <1>5 DEF Inlined
  <2>2. \A i \in 1 .. n : \A j \in 2 .. i : j \in 1 .. n
    BY <1>4
  <2> QED BY <1>5, <1>6, <2>1, <2>2 DEF NotInItself
<1>9. Pending'
  <2>1. <<Top.file, Top.next, f>> \in LineGraph
    BY <1>1, <1>2, FoundIsIncluded
  <2>2. \A k \in 1 .. n : \/ k = n
                          \/ k \in 1 .. n - 1 /\ k \in 1 .. n /\ k + 1 \in 1 .. n
    BY <1>4
  <2>3. n \in 1 .. n
    BY <1>4
  <2>4. ASSUME NEW k \in 1 .. n
        PROVE  <<stack'[k].file, stack'[k].next, stack'[k + 1].file>> \in LineGraph
    <3>1. CASE k = n
      BY <1>3, <1>5, <2>1, <2>3, <3>1 DEF Top
    <3>2. CASE k # n
      BY <1>5, <2>2, <3>2 DEF Pending
    <3> QED BY <3>1, <3>2
  <2>5. 1 .. Len(stack') - 1 = 1 .. n
    BY <1>4, <1>5
  <2> QED BY <1>2, <2>4, <2>5 DEF Pending
<1>10. OkAtEnd'
  BY <1>2 DEF AtLine, OkAtEnd
<1> QED BY <1>7, <1>8, <1>9, <1>10

(* An include line means one file only. *)
LEMMA MeansOne ==
  ASSUME TypeOK, NEW f \in Nodes, NEW name, NEW g \in Files, NEW h \in Files,
         Means(f, name, g), Means(f, name, h)
  PROVE  g = h
<1>1. PICK i \in 1 .. Len(IncludeDirs(f)) :
        /\ g = Canonical[IncludeDirs(f)[i]][name] /\ status[g] # "missing"
        /\ \A k \in 1 .. i - 1 : status[Canonical[IncludeDirs(f)[k]][name]] = "missing"
  BY DEF Means
<1>2. PICK j \in 1 .. Len(IncludeDirs(f)) :
        /\ h = Canonical[IncludeDirs(f)[j]][name] /\ status[h] # "missing"
        /\ \A k \in 1 .. j - 1 : status[Canonical[IncludeDirs(f)[k]][name]] = "missing"
  BY DEF Means
<1>3. i = j
  <2>1. Len(IncludeDirs(f)) \in Nat
    BY PathsAssumption DEF IncludeDirs
  <2>2. ~(i < j) /\ ~(j < i)
    BY <1>1, <1>2, <2>1
  <2> QED BY <2>1, <2>2
<1> QED BY <1>1, <1>2, <1>3
LEMMA InlinedByReturn ==
  ASSUME NEW map \in Seq(Entry), NEW inner \in Seq(Entry), NEW by \in Nat,
         NEW own \in Entry, own.file \in Files
  PROVE  Inlined(Append(map, own) \o Shifted(inner, by))
           = Inlined(map) \cup {own.file} \cup Inlined(inner)
<1> DEFINE low    == Append(map, own)
           high   == Shifted(inner, by)
           result == low \o high
<1>1. /\ low \in Seq(Entry) /\ DOMAIN low = 1 .. Len(map) + 1 /\ low[Len(map) + 1] = own
      /\ \A i \in DOMAIN map : low[i] = map[i]
      /\ DOMAIN map = 1 .. Len(map) /\ Len(map) \in Nat
      /\ Len(low) = Len(map) + 1
  OBVIOUS
<1>2. /\ high \in Seq(Entry) /\ DOMAIN high = DOMAIN inner /\ DOMAIN inner = 1 .. Len(inner)
      /\ \A i \in DOMAIN inner : high[i].file = inner[i].file
  <2>1. high \in Seq(Entry)
    BY ShiftedIsMap
  <2> QED BY <2>1 DEF Shifted
<1>3. Inlined(low) = Inlined(map) \cup {own.file}
  <2>1. \A i \in DOMAIN low : i \in DOMAIN map \/ i = Len(map) + 1
    BY <1>1
  <2>2. \A i \in DOMAIN map : i \in DOMAIN low
    BY <1>1
  <2>3. Len(map) + 1 \in DOMAIN low
    BY <1>1
  <2> HIDE DEF low
  <2> QED BY <1>1, <2>1, <2>2, <2>3 DEF Inlined
<1>4. Inlined(high) = Inlined(inner)
  <2> HIDE DEF high
  <2> QED BY <1>2 DEF Inlined
<1> HIDE DEF low, high
<1>5. Inlined(result) = Inlined(low) \cup Inlined(high)
  <2>1. DOMAIN low = 1 .. Len(low) /\ DOMAIN high = 1 .. Len(high)
        /\ Len(low) \in Nat /\ Len(high) \in Nat
    BY <1>1, <1>2
  <2>a. low \in Seq(Entry) /\ high \in Seq(Entry)
    BY <1>1, <1>2
  <2>2. DOMAIN result = 1 .. Len(low) + Len(high)
    BY <2>a, Joined
  <2>3. \A i \in 1 .. Len(low) : result[i] = low[i]
    BY <1>1, <1>2, Joined
  <2>4. \A i \in 1 .. Len(high) : result[Len(low) + i] = high[i]
    BY <1>1, <1>2, Joined
  <2> HIDE DEF result
  <2>5. ASSUME NEW i \in DOMAIN result
        PROVE  \/ \E k \in DOMAIN low : result[i] = low[k]
               \/ \E k \in DOMAIN high : result[i] = high[k]
    <3>1. CASE i \in 1 .. Len(low)
      BY <2>1, <2>3, <3>1
    <3>2. CASE i \notin 1 .. Len(low)
      <4>1. i - Len(low) \in 1 .. Len(high) /\ Len(low) + (i - Len(low)) = i
        BY <2>1, <2>2, <3>2
      <4> QED BY <2>1, <2>4, <4>1
    <3> QED BY <3>1, <3>2
  <2>6. ASSUME NEW k \in DOMAIN low PROVE \E i \in DOMAIN result : result[i] = low[k]
    BY <2>1, <2>2, <2>3
  <2>7. ASSUME NEW k \in DOMAIN high PROVE \E i \in DOMAIN result : result[i] = high[k]
    <3>1. Len(low) + k \in DOMAIN result
      BY <2>1, <2>2
    <3> QED BY <2>1, <2>4, <3>1
  <2> QED BY <2>5, <2>6, <2>7 DEF Inlined
<1> QED BY <1>3, <1>4, <1>5 DEF result, low, high

LEMMA ReturnInlines ==
  ASSUME FragmentInv, InlineInv, ReturnToIncluder
  PROVE  InlineInv'
<1> USE DEF FragmentInv, InlineInv
<1> DEFINE n   == Len(stack)
           up  == stack[n - 1]
           at  == Len(up.out)
           out == Inline(up.out, Top.out, Top.file)
           own == [start |-> at, end |-> Len(out), file |-> Top.file]
           map == Append(up.map, own) \o Shifted(Top.map, at)
           A   == Inlined(up.map)
           B   == Inlined(Top.map)
           f   == Top.file
<1>1. /\ n > 1 /\ AtEnd /\ UNCHANGED <<input, outcome, cycle>>
      /\ IncludeGraph' = IncludeGraph /\ LineGraph' = LineGraph
  BY GraphKept, LinesKept DEF ReturnToIncluder
<1>2. /\ n \in Nat /\ stack \in Seq(Frame) /\ n - 1 \in 1 .. n /\ n \in 1 .. n
      /\ n \in 2 .. n /\ Top = stack[n]
  BY <1>1 DEF TypeOK, Top
<1>3. Top \in Frame /\ up \in Frame /\ f \in Files /\ f \in Origins
  <2>1. Top \in Frame /\ up \in Frame
    BY <1>2, TopIsFrame
  <2>2. f \in Files
    BY <1>2 DEF Chain
  <2> QED BY <2>1, <2>2 DEF Origins
<1>4. /\ Returned = [up EXCEPT !.next = @ + 1, !.out = out, !.map = map]
      /\ Returned.file = up.file /\ Returned.next = up.next + 1
      /\ Returned.out = out /\ Returned.map = map
  BY <1>3 DEF Returned, Frame
<1>5. /\ Len(stack') = n - 1 /\ stack'[n - 1] = Returned
      /\ \A i \in 1 .. n - 2 : stack'[i] = stack[i]
      /\ \A i \in 1 .. n - 1 : i = n - 1 \/ i \in 1 .. n - 2
      /\ \A i \in 1 .. n - 1 : stack'[i].file = stack[i].file
  <2>1. \A i \in 1 .. n - 1 : i = n - 1 \/ i \in 1 .. n - 2
    BY <1>2
  <2>2. stack'[n - 1] = Returned /\ Len(stack') = n - 1
    BY ReturnIsCall
  <2>3. \A i \in 1 .. n - 2 : stack'[i] = stack[i]
    BY ReturnIsCall
  <2> QED BY <1>4, <2>1, <2>2, <2>3
<1>6. /\ up.out \in Seq(Byte) /\ up.map \in Seq(Entry) /\ at \in Nat /\ up.next \in Nat
      /\ Top.out \in Seq(Byte) /\ Top.map \in Seq(Entry) /\ Top.next \in Nat
  BY <1>3 DEF Frame
<1>7. own \in Entry /\ own.file = f
  <2>1. out \in Seq(Byte)
    BY <1>3, <1>6, InlineIsText
  <2> QED BY <1>3, <1>6, <2>1 DEF Entry
<1>8. Inlined(map) = A \cup {f} \cup B
  BY <1>3, <1>6, <1>7, InlinedByReturn
<1>9. /\ CallRight(up, LineGraph, IncludeGraph)
      /\ CallRight(Top, LineGraph, IncludeGraph)
  BY <1>2 DEF CallsRight
<1>10. \A j \in 2 .. n : stack[j].file \notin B
  BY <1>2 DEF NotInItself
<1> HIDE DEF n, up, at, out, own, map, f, A, B
<1>11. ASSUME NEW g, <<f, g>> \in IncludeGraph PROVE g \in B
  <2>1. <<f, g>>[1] = f /\ <<f, g>>[2] = g
    OBVIOUS
  <2>2. /\ f \in Nodes /\ g \in Files
        /\ \E i \in 1 .. Len(files[f]) : files[f][i] \in Names /\ Means(f, files[f][i], g)
    BY <1>11, <2>1 DEF IncludeGraph
  <2>3. PICK i \in 1 .. Len(files[f]) : files[f][i] \in Names /\ Means(f, files[f][i], g)
    BY <2>2
  <2>4. files[f] \in Bodies \cup {<<>>} /\ Len(files[f]) \in Nat
    <3>1. files[f] \in Bodies \cup {<<>>}
      BY <1>3 DEF TypeOK
    <3> QED BY <3>1, BodiesAssumption
  <2>5. i \in Nat \ {0} /\ i <= Len(files[f]) /\ i < Top.next
    BY <1>1, <1>6, <2>4 DEF AtEnd, f
  <2>6. <<f, i, g>> \in LineGraph
    BY <2>2, <2>3, <2>5 DEF LineGraph
  <2>7. <<f, i, g>>[1] = f /\ <<f, i, g>>[2] = i /\ <<f, i, g>>[3] = g
    OBVIOUS
  <2> QED BY <1>9, <2>5, <2>6, <2>7 DEF CallRight, PassedIn, f, B
<1>12. f \notin B
  BY <1>2, <1>10 DEF f
<1>13. ClosedIn(Inlined(map), IncludeGraph) /\ Acyclic(Inlined(map), IncludeGraph)
  <2>1. IncludeGraph \in SUBSET (Nodes \X Files)
    BY DEF IncludeGraph
  <2>2. /\ ClosedIn(A, IncludeGraph) /\ Acyclic(A, IncludeGraph)
        /\ ClosedIn(B, IncludeGraph) /\ Acyclic(B, IncludeGraph)
    BY <1>9 DEF CallRight, A, B
  <2> QED BY <1>8, <1>11, <1>12, <2>1, <2>2, UnionAcyclic
<1>14. PassedIn(Returned, LineGraph, Inlined(map))
  <2> SUFFICES ASSUME NEW t \in LineGraph, t[1] = up.file, t[2] < up.next + 1
               PROVE  t[3] \in Inlined(map)
    BY <1>4 DEF PassedIn
  <2>1. t[2] \in Nat /\ t[3] \in Files /\ t[1] \in Nodes /\ Means(t[1], files[t[1]][t[2]], t[3])
    BY DEF LineGraph
  <2>2. CASE t[2] < up.next
    BY <1>8, <1>9, <2>2 DEF CallRight, PassedIn, A
  <2>3. CASE t[2] >= up.next
    <3>1. t[2] = up.next
      BY <1>6, <2>1, <2>3
    <3>2. n - 1 \in 1 .. n - 1 /\ (n - 1) + 1 = n
      BY <1>1, <1>2
    <3>3. <<up.file, up.next, f>> \in LineGraph
      BY <1>2, <3>2 DEF Pending, up, f, n
    <3>4. Means(up.file, files[up.file][up.next], f)
      BY <3>3 DEF LineGraph
    <3>5. t[3] = f
      BY <1>3, <2>1, <3>1, <3>4, MeansOne
    <3> QED BY <1>8, <3>5
  <2> QED BY <1>6, <2>1, <2>2, <2>3
<1>15. MapInside(out, map)
  <2>1. MapInside(up.out, up.map) /\ MapInside(Top.out, Top.map)
    BY <1>9 DEF CallRight
  <2> QED BY <1>3, <1>6, <2>1, InlinedInside DEF out, map, own, at, f
<1>16. CallsRight'
  <2>1. CallRight(Returned, LineGraph, IncludeGraph)
    BY <1>4, <1>13, <1>14, <1>15 DEF CallRight
  <2>2. \A i \in 1 .. n - 2 : i \in 1 .. n
    BY <1>2
  <2>3. \A i \in 1 .. n - 1 : CallRight(stack'[i], LineGraph, IncludeGraph)
    BY <1>5, <2>1, <2>2 DEF CallsRight, n
  <2> QED BY <1>1, <1>5, <2>3 DEF CallsRight
<1>17. NotInItself'
  <2>1. ASSUME NEW k \in 1 .. n - 1, NEW j \in 2 .. k
        PROVE  stack'[j].file \notin Inlined(stack'[k].map)
    <3>1. j \in 1 .. n - 1 /\ j \in 2 .. n /\ k \in 1 .. n /\ j # n
      BY <1>2
    <3>2. stack'[j].file = stack[j].file
      BY <1>5, <3>1
    <3>3. CASE k = n - 1
      <4>1. stack[j].file \notin A
        BY <1>2, <3>3 DEF NotInItself, A, up, n
      <4>2. stack[j].file \notin B
        BY <1>10, <3>1
      <4>3. stack[j].file # f
        BY <1>2, <3>1 DEF NoReentry, f, n
      <4> QED BY <1>4, <1>5, <1>8, <3>2, <3>3, <4>1, <4>2, <4>3
    <3>4. CASE k # n - 1
      <4>1. stack'[k] = stack[k]
        BY <1>5, <3>4
      <4> QED BY <3>1, <3>2, <4>1 DEF NotInItself, n
    <3> QED BY <3>3, <3>4
  <2> QED BY <1>5, <2>1 DEF NotInItself
<1>18. Pending'
  <2>1. ASSUME NEW k \in 1 .. n - 2
        PROVE  <<stack'[k].file, stack'[k].next, stack'[k + 1].file>> \in LineGraph
    <3>1. k \in 1 .. n - 1 /\ k + 1 \in 1 .. n - 1
      BY <1>2
    <3>2. stack'[k] = stack[k] /\ stack'[k + 1].file = stack[k + 1].file
      BY <1>5, <3>1
    <3> QED BY <3>1, <3>2 DEF Pending, n
  <2>2. Len(stack') - 1 = n - 2
    BY <1>2, <1>5
  <2> QED BY <1>1, <2>1, <2>2 DEF Pending
<1>19. OkAtEnd'
  BY <1>1 DEF AtEnd, OkAtEnd
<1> QED BY <1>16, <1>17, <1>18, <1>19
LEMMA InlinedByMark ==
  ASSUME NEW map \in Seq(Entry), NEW mark \in Entry, mark.file \notin Files
  PROVE  Inlined(Append(map, mark)) = Inlined(map)
<1> DEFINE longer == Append(map, mark)
<1>1. /\ DOMAIN longer = 1 .. Len(map) + 1 /\ longer[Len(map) + 1] = mark
      /\ \A i \in DOMAIN map : longer[i] = map[i]
      /\ DOMAIN map = 1 .. Len(map) /\ Len(map) \in Nat
  OBVIOUS
<1>2. \A i \in DOMAIN longer : i \in DOMAIN map \/ i = Len(map) + 1
  BY <1>1
<1>3. \A i \in DOMAIN map : i \in DOMAIN longer
  BY <1>1
<1> HIDE DEF longer
<1>4. Inlined(longer) = Inlined(map)
  BY <1>1, <1>2, <1>3 DEF Inlined
<1> QED BY <1>4 DEF longer

LEMMA InlineStep == FragmentInv /\ InlineInv /\ [Next]_vars => InlineInv'
<1> SUFFICES ASSUME FragmentInv, InlineInv, [Next]_vars PROVE InlineInv'
  OBVIOUS
<1>1. Top \in Frame
  BY TopIsFrame DEF FragmentInv
<1>2. /\ Top.out \in Seq(Byte) /\ Top.map \in Seq(Entry) /\ Len(Top.out) \in Nat
      /\ Top.file \in Origins /\ Top.next \in Nat
  BY <1>1 DEF Frame, Origins
<1>3. MapInside(Top.out, Top.map)
  <2>1. Len(stack) \in 1 .. Len(stack)
    BY DEF FragmentInv, TypeOK, Chain
  <2> QED BY <2>1 DEF InlineInv, CallsRight, CallRight, Top
<1>4. Text \notin Names /\ Coordinate \notin Names
  BY PathsAssumption
<1>5. CASE PassThrough
  <2> DEFINE b == <<Top.file, Top.next>>
             text == <<b, b>>
  <2>1. b \in Byte
    BY <1>2 DEF Byte
  <2> HIDE DEF b
  <2>2. text \in Seq(Byte)
    BY <2>1
  <2> HIDE DEF text
  <2>3. Top.out \o text \in Seq(Byte) /\ Len(Top.out) <= Len(Top.out \o text)
    BY <1>2, <2>2
  <2>4. MapInside(Top.out \o text, Top.map)
    BY <1>2, <1>3, <2>3, LongerText
  <2>5. AtLine /\ Line \notin Names /\ Emit(Top.out \o text, Top.map)
    BY <1>4, <1>5 DEF PassThrough, text, b
  <2> QED BY <1>2, <2>3, <2>4, <2>5, EmitInlines
<1>6. CASE DeferCoordinate
  <2> DEFINE e == [start |-> Len(Top.out), end |-> Len(Top.out), file |-> DeferredMark]
             map == Append(Top.map, e)
  <2>1. e \in Entry /\ e.start = Len(Top.out) /\ e.end = e.start /\ e.file \notin Files
    BY <1>2, PathsAssumption DEF Entry
  <2> HIDE DEF e
  <2>2. map \in Seq(Entry)
    BY <1>2, <2>1
  <2>3. Inlined(map) = Inlined(Top.map)
    BY <1>2, <2>1, InlinedByMark
  <2>4. MapInside(Top.out, map)
    <3>1. e.start <= e.end /\ e.end <= Len(Top.out)
      BY <1>2, <2>1
    <3> QED BY <1>2, <1>3, <2>1, <3>1, MarkInside
  <2>5. AtLine /\ Line \notin Names /\ Emit(Top.out, map)
    BY <1>4, <1>6 DEF DeferCoordinate, e
  <2> HIDE DEF map
  <2> QED BY <1>2, <2>2, <2>3, <2>4, <2>5, EmitInlines
<1>7. CASE IncludeCoordinate
  <2> DEFINE text == << <<RegistryModule, 1>>, <<RegistryModule, 1>> >>
             out  == Inline(Top.out, text, RegistryModule)
             e    == [start |-> Len(Top.out), end |-> Len(out), file |-> RegistryModule]
             map  == Append(Top.map, e)
  <2>1. RegistryModule \in Origins /\ text \in Seq(Byte)
    BY DEF Byte, Origins
  <2> HIDE DEF text
  <2>2. out \in Seq(Byte) /\ Len(out) \in Nat
    <3>1. out \in Seq(Byte)
      BY <1>2, <2>1, InlineIsText
    <3> QED BY <3>1
  <2>3. e \in Entry /\ e.file \notin Files
    BY <1>2, <2>1, <2>2, PathsAssumption DEF Entry
  <2>4. map \in Seq(Entry) /\ Inlined(map) = Inlined(Top.map)
    BY <1>2, <2>3, InlinedByMark
  <2>5. MapInside(text, <<>>)
    BY <2>1 DEF MapInside
  <2>6. Shifted(<<>>, Len(Top.out)) = <<>>
    BY DEF Shifted
  <2>7. MapInside(out, map \o <<>>)
    <3>1. <<>> \in Seq(Entry)
      OBVIOUS
    <3> QED BY <1>2, <1>3, <2>1, <2>5, <2>6, <3>1, InlinedInside
  <2>8. map \o <<>> = map
    BY <2>4
  <2>9. /\ AtLine /\ Line \notin Names
        /\ Done("deferred") \/ Done("retired") \/ Emit(out, map)
    BY <1>4, <1>7 DEF IncludeCoordinate, text
  <2> HIDE DEF out, map
  <2>10. CASE Emit(out, map)
    BY <2>2, <2>4, <2>7, <2>8, <2>9, <2>10, EmitInlines
  <2>11. CASE Done("deferred") \/ Done("retired")
    BY <2>11, DoneInlines DEF Outcomes
  <2> QED BY <2>9, <2>10, <2>11
<1>8. CASE FileNotFound
  BY <1>8, DoneInlines DEF FileNotFound, Outcomes
<1>9. CASE CircularInclude
  <2>1. UNCHANGED <<input, stack>> /\ outcome' # "ok"
    BY <1>9 DEF CircularInclude
  <2> QED BY <2>1, StackKept DEF InlineInv, OkAtEnd
<1>10. CASE BrokenFile
  BY <1>10, DoneInlines DEF BrokenFile, Outcomes
<1>11. CASE EnterFile
  BY <1>11, EnterInlines
<1>12. CASE ReturnToIncluder
  BY <1>12, ReturnInlines
<1>13. CASE Finish
  BY <1>13, FinishInlines
<1>14. CASE UNCHANGED vars
  <2>1. UNCHANGED <<input, stack>> /\ OkAtEnd'
    BY <1>14 DEF vars, InlineInv, OkAtEnd, Top, input
  <2> QED BY <2>1, StackKept DEF InlineInv
<1> QED BY <1>5, <1>6, <1>7, <1>8, <1>9, <1>10, <1>11, <1>12, <1>13, <1>14 DEF Next

LEMMA InlineAlways == Spec => []InlineInv
  BY InlineInit, InlineStep, FragmentAlways, PTL DEF Spec

(* When the expansion succeeds, only the call for the arm is left, and it  *)
(* has inlined all that the arm reaches.                                   *)
LEMMA OkReachesInlined ==
  ASSUME FragmentInv, InlineInv, outcome = "ok"
  PROVE  /\ Top.file = Root /\ CallRight(Top, LineGraph, IncludeGraph)
         /\ Reached \subseteq Inlined(Top.map)
<1> DEFINE S == Inlined(Top.map)
<1>1. /\ Len(stack) = 1 /\ Top.next > Len(files[Root]) /\ Top = stack[1]
      /\ Top.file = Root /\ CallRight(Top, LineGraph, IncludeGraph)
  <2>1. Len(stack) = 1 /\ Top.next > Len(files[Root])
    BY DEF InlineInv, OkAtEnd
  <2>2. Top = stack[1] /\ 1 \in 1 .. Len(stack)
    BY <2>1 DEF Top
  <2>3. stack[1].file = Root
    BY DEF FragmentInv, Chain
  <2>4. CallRight(stack[1], LineGraph, IncludeGraph)
    BY <2>2 DEF InlineInv, CallsRight
  <2> QED BY <2>1, <2>2, <2>3, <2>4
<1>2. Len(files[Root]) \in Nat /\ Top.next \in Nat
  <2>1. files[Root] \in Bodies \cup {<<>>} /\ Top \in Frame
    BY TopIsFrame DEF FragmentInv, TypeOK
  <2> QED BY <2>1, BodiesAssumption DEF Frame
<1>3. ASSUME NEW e \in IncludeGraph, e[1] \in S \cup {Root}
      PROVE  e[2] \in S
  <2>1. CASE e[1] \in S
    BY <1>1, <2>1 DEF CallRight, ClosedIn
  <2>2. CASE e[1] = Root
    <3>1. PICK i \in 1 .. Len(files[Root]) :
            files[Root][i] \in Names /\ Means(Root, files[Root][i], e[2])
      BY <2>2 DEF IncludeGraph
    <3> DEFINE t == <<Root, i, e[2]>>
    <3>2. t \in Nodes \X (Nat \ {0}) \X Files
      BY <1>2 DEF IncludeGraph, Nodes
    <3>3. t \in LineGraph /\ t[1] = Root /\ t[2] = i /\ t[3] = e[2]
      BY <1>2, <3>1, <3>2 DEF LineGraph
    <3>4. i < Top.next
      BY <1>1, <1>2
    <3> QED BY <1>1, <3>3, <3>4 DEF CallRight, PassedIn
  <2> QED BY <1>3, <2>1, <2>2
<1>4. S \in SUBSET Files
  BY DEF Inlined
<1>5. Reached \subseteq S
  BY <1>3, <1>4 DEF Reached
<1> QED BY <1>1, <1>5
----------------------------------------------------------------------------
(* The reference expansion is a recursion over nesting and over lines.     *)
(* First: what such recursions define exists.                              *)

(* The order of numbers as the relation the library knows. *)
LEMMA BelowIsLess ==
  ASSUME NEW x \in Nat, NEW y \in Nat, y < x
  PROVE  <<y, x>> \in OpToRel(<, Nat)
<1>1. <<y, x>> \in Nat \X Nat /\ <<y, x>>[1] = y /\ <<y, x>>[2] = x
  OBVIOUS
<1>2. <<y, x>>[1] < <<y, x>>[2]
  BY <1>1
<1>3. <<y, x>> \in {ss \in Nat \X Nat : ss[1] < ss[2]}
  BY <1>1, <1>2, Zenon
<1> QED BY <1>3, Zenon DEF OpToRel

(* Every nonempty set of numbers has a least member. *)
LEMMA LeastExists ==
  ASSUME NEW T \in SUBSET Nat, T # {}
  PROVE  \E m \in T : \A k \in T : m <= k
<1>1. PICK m \in T : \A k \in T : ~ (<<k, m>> \in OpToRel(<, Nat))
  BY NatLessThanWellFounded, WFMin
<1>2. \A k \in T : ~ (k < m)
  BY <1>1, BelowIsLess
<1> QED BY <1>2

(* A set that is entered at 0 and not left. *)
LEMMA Climb ==
  ASSUME NEW n \in Nat, NEW T, 0 \in T, \A i \in 1 .. n : i - 1 \in T => i \in T
  PROVE  \A i \in 0 .. n : i \in T
<1> DEFINE Bad == {i \in 0 .. n : i \notin T}
<1>1. SUFFICES ASSUME Bad # {} PROVE FALSE
  OBVIOUS
<1>2. PICK k \in Bad : \A j \in Bad : k <= j
  <2>1. Bad \in SUBSET Nat
    OBVIOUS
  <2> HIDE DEF Bad
  <2> QED BY <1>1, <2>1, LeastExists
<1>3. k \in 1 .. n /\ k - 1 \in 0 .. n /\ ~(k <= k - 1)
  OBVIOUS
<1>4. k - 1 \in T
  BY <1>2, <1>3
<1> QED BY <1>3, <1>4

(* Steps taken one after the other, n of them, starting at base. *)
Steps(h, n, S, base, step) ==
  /\ h \in [0 .. n -> S] /\ h[0] = base
  /\ \A i \in 1 .. n : h[i] = step[i][h[i - 1]]

LEMMA RecursionExists ==
  ASSUME NEW n \in Nat, NEW S, NEW base \in S,
         NEW step, \A i \in 1 .. n : \A x \in S : step[i][x] \in S
  PROVE  \E h : Steps(h, n, S, base, step)
<1> DEFINE Begins(k, h) == Steps(h, k, S, base, step)
           Bad == {k \in 0 .. n : \A h : ~Begins(k, h)}
<1>1. SUFFICES ASSUME Bad # {} PROVE FALSE
  <2>1. n \in 0 .. n
    OBVIOUS
  <2> QED BY <2>1
<1> USE DEF Steps
<1>2. PICK k \in Bad : \A j \in Bad : k <= j
  <2>1. Bad \in SUBSET Nat
    OBVIOUS
  <2> HIDE DEF Bad
  <2> QED BY <1>1, <2>1, LeastExists
<1>3. k # 0
  <2>1. Begins(0, [i \in 0 .. 0 |-> base])
    OBVIOUS
  <2> HIDE DEF Begins
  <2> QED BY <2>1
<1>4. k \in 1 .. n /\ k - 1 \in 0 .. n /\ k - 1 < k
  BY <1>3
<1>5. PICK h : Begins(k - 1, h)
  <2>1. k - 1 \notin Bad
    <3> HIDE DEF Bad
    <3> QED BY <1>2, <1>4
  <2> HIDE DEF Begins
  <2> QED BY <1>4, <2>1
<1> DEFINE g == [i \in 0 .. k |-> IF i = k THEN step[k][h[k - 1]] ELSE h[i]]
<1>6. h[k - 1] \in S
  BY <1>4, <1>5
<1>7. g \in [0 .. k -> S]
  <2>1. \A i \in 0 .. k : i # k => i \in 0 .. k - 1
    BY <1>4
  <2>2. step[k][h[k - 1]] \in S
    BY <1>4, <1>6
  <2> QED BY <1>5, <2>1, <2>2
<1>8. g[0] = base
  BY <1>4, <1>5
<1>9. ASSUME NEW i \in 1 .. k PROVE g[i] = step[i][g[i - 1]]
  <2>1. i - 1 \in 0 .. k - 1 /\ i - 1 \in 0 .. k /\ i \in 0 .. k /\ i - 1 # k
    BY <1>4
  <2>2. g[i - 1] = h[i - 1]
    BY <2>1
  <2>3. CASE i = k
    BY <2>1, <2>2, <2>3
  <2>4. CASE i # k
    <3>1. i \in 1 .. k - 1
      BY <1>4, <2>4
    <3> QED BY <1>5, <2>1, <2>2, <2>4, <3>1
  <2> QED BY <2>3, <2>4
<1>10. Begins(k, g)
  <2> HIDE DEF g
  <2> QED BY <1>7, <1>8, <1>9
<1> HIDE DEF Begins, g
<1> QED BY <1>10

(* What code can come to. *)
Result == [text : Seq(Byte), drops : Nat]

LEMMA LineAddedResult ==
  ASSUME TypeOK, NEW before \in Result, NEW f \in Nodes, NEW i \in Nat,
         NEW whole \in [Nodes -> Result]
  PROVE  LineAdded(before, f, i, whole) \in Result
<1> DEFINE line == files[f][i]
<1>1. before.text \in Seq(Byte) /\ before.drops \in Nat
  BY DEF Result
<1>2. ASSUME NEW b \in Byte PROVE [text |-> before.text \o <<b, b>>, drops |-> before.drops] \in Result
  <2>1. before.text \o <<b, b>> \in Seq(Byte)
    BY <1>1
  <2> QED BY <2>1 DEF Result
<1>3. <<f, i>> \in Byte /\ <<RegistryModule, 1>> \in Byte
  BY DEF Byte, Origins, Nodes
<1>4. CASE line = Text
  <2>1. LineAdded(before, f, i, whole) = [text |-> before.text \o << <<f, i>>, <<f, i>> >>, drops |-> before.drops]
    BY <1>4, PathsAssumption DEF LineAdded, Text, Coordinate
  <2> QED BY <1>2, <1>3, <2>1
<1>5. CASE line = Coordinate /\ registry
  <2>1. LineAdded(before, f, i, whole)
          = [text |-> before.text \o << <<RegistryModule, 1>>, <<RegistryModule, 1>> >>,
             drops |-> before.drops]
    BY <1>5, PathsAssumption DEF LineAdded, Text, Coordinate
  <2> QED BY <1>2, <1>3, <2>1
<1>6. CASE line = Coordinate /\ ~registry
  <2>1. LineAdded(before, f, i, whole) = [text |-> before.text, drops |-> before.drops + 1]
    BY <1>6, PathsAssumption DEF LineAdded, Text, Coordinate
  <2> QED BY <1>1, <2>1 DEF Result
<1>7. CASE line \in Names /\ \E h \in Files : Means(f, line, h)
  <2> DEFINE g == CHOOSE h \in Files : Means(f, line, h)
             text == before.text \o whole[g].text
             res == [text  |-> IF text = <<>> THEN << <<g, 0>> >> ELSE text,
                     drops |-> before.drops + whole[g].drops]
  <2>1. g \in Files
    BY <1>7
  <2>2. LineAdded(before, f, i, whole) = res
    BY <1>7, PathsAssumption DEF LineAdded
  <2> HIDE DEF g
  <2>3. whole[g] \in Result /\ <<g, 0>> \in Byte
    BY <2>1 DEF Nodes, Byte, Origins
  <2>4. text \in Seq(Byte) /\ before.drops + whole[g].drops \in Nat
    BY <1>1, <2>3 DEF Result
  <2>5. res \in Result
    BY <2>3, <2>4 DEF Result
  <2> QED BY <2>2, <2>5
<1>8. CASE /\ line # Text /\ line # Coordinate
           /\ ~(line \in Names /\ \E h \in Files : Means(f, line, h))
  BY <1>8 DEF LineAdded
<1> QED BY <1>4, <1>5, <1>6, <1>7, <1>8

LEMMA LinesEquation ==
  ASSUME TypeOK, NEW f \in Nodes, NEW whole \in [Nodes -> Result]
  PROVE  /\ Len(files[f]) \in Nat
         /\ LinesExpanded(f, whole) \in [0 .. Len(files[f]) -> Result]
         /\ LinesExpanded(f, whole)[0] = Nothing
         /\ \A i \in 1 .. Len(files[f]) :
              LinesExpanded(f, whole)[i] = LineAdded(LinesExpanded(f, whole)[i - 1], f, i, whole)
<1> DEFINE n == Len(files[f])
           Body(h) == [i \in 0 .. n |-> IF i = 0 THEN Nothing ELSE LineAdded(h[i - 1], f, i, whole)]
<1>1. n \in Nat
  <2>1. files[f] \in Bodies \cup {<<>>}
    BY DEF TypeOK, Nodes
  <2> QED BY <2>1, BodiesAssumption
<1>2. Nothing \in Result
  BY DEF Nothing, Result
<1> HIDE DEF n
<1> DEFINE Added(st) == \A i \in 1 .. n : \A x \in Result : st[i][x] = LineAdded(x, f, i, whole)
<1>3. PICK step : Added(step)
  <2>1. Added([i \in 1 .. n |-> [x \in Result |-> LineAdded(x, f, i, whole)]])
    OBVIOUS
  <2> HIDE DEF Added
  <2> QED BY <2>1
<1>a. \A i \in 1 .. n : \A x \in Result : step[i][x] \in Result
  BY <1>1, <1>3, LineAddedResult
<1>4. PICK h : Steps(h, n, Result, Nothing, step)
  BY <1>1, <1>2, <1>a, RecursionExists
<1>5. \A i \in 1 .. n : i - 1 \in 0 .. n /\ i # 0 /\ i \in 0 .. n
  BY <1>1
<1>6. \A i \in 1 .. n : h[i] = LineAdded(h[i - 1], f, i, whole)
  BY <1>3, <1>4, <1>5 DEF Steps
<1>7. h = Body(h)
  <2>1. \A i \in 0 .. n : i = 0 \/ i \in 1 .. n
    BY <1>1
  <2> QED BY <1>4, <1>6, <2>1 DEF Steps
<1> DEFINE u == LinesExpanded(f, whole)
<1>8. u = Body(u)
  <2>1. u = CHOOSE x : x = Body(x)
    BY DEF LinesExpanded, n
  <2> HIDE DEF u, Body
  <2> QED BY <1>7, <2>1
<1> HIDE DEF u
<1>9. /\ DOMAIN u = 0 .. n /\ u[0] = Nothing
      /\ \A i \in 1 .. n : u[i] = LineAdded(u[i - 1], f, i, whole)
  <2>1. 0 \in 0 .. n
    BY <1>1
  <2> QED BY <1>5, <1>8, <2>1
<1>10. \A i \in 0 .. n : i \in {j \in 0 .. n : u[j] = h[j]}
  <2> DEFINE T == {j \in 0 .. n : u[j] = h[j]}
  <2>1. 0 \in T
    BY <1>1, <1>4, <1>9 DEF Steps
  <2>2. \A i \in 1 .. n : i - 1 \in T => i \in T
    BY <1>5, <1>6, <1>9
  <2> HIDE DEF T
  <2>3. \A i \in 0 .. n : i \in T
    BY <1>1, <2>1, <2>2, Climb
  <2> QED BY <2>3 DEF T
<1>11. u = h
  <2>1. u = [i \in 0 .. n |-> u[i]] /\ h = [i \in 0 .. n |-> h[i]]
    BY <1>4, <1>8 DEF Steps
  <2> QED BY <1>10, <2>1
<1> QED BY <1>1, <1>4, <1>9, <1>11 DEF n, u, Steps

(* The depth that is enough for every chain of includes without a circle. *)
N == Cardinality(Nodes)

LEMMA NodesCounted ==
  /\ IsFiniteSet(Nodes) /\ N \in Nat \ {0} /\ Cardinality(Files) = N - 1
<1>1. Root \notin Files
  BY PathsAssumption
<1>2. IsFiniteSet(Nodes) /\ Cardinality(Nodes) = Cardinality(Files) + 1
  BY <1>1, FilesAssumption, FS_AddElement DEF Nodes
<1>3. Cardinality(Files) \in Nat
  BY FilesAssumption, FS_CardinalityType
<1> QED BY <1>2, <1>3 DEF N

LEMMA ExpansionEquation ==
  ASSUME TypeOK
  PROVE  /\ Expansion \in [0 .. N -> [Nodes -> Result]]
         /\ \A d \in 1 .. N : \A f \in Nodes :
              Expansion[d][f] = LinesExpanded(f, Expansion[d - 1])[Len(files[f])]
<1> DEFINE S == [Nodes -> Result]
           base == [f \in Nodes |-> Nothing]
           Level(x) == [f \in Nodes |-> LinesExpanded(f, x)[Len(files[f])]]
           Body(h) == [d \in 0 .. N |-> IF d = 0 THEN base ELSE Level(h[d - 1])]
           Levels(st) == \A i \in 1 .. N : \A x \in S : st[i][x] = Level(x)
<1>1. N \in Nat
  BY NodesCounted
<1>2. base \in S
  BY DEF Nothing, Result
<1>3. PICK step : Levels(step)
  <2>1. Levels([i \in 1 .. N |-> [x \in S |-> Level(x)]])
    OBVIOUS
  <2> HIDE DEF Levels
  <2> QED BY <2>1
<1>4. \A x \in S : Level(x) \in S
  <2> SUFFICES ASSUME NEW x \in S, NEW f \in Nodes
               PROVE  LinesExpanded(f, x)[Len(files[f])] \in Result
    OBVIOUS
  <2>1. /\ Len(files[f]) \in Nat
        /\ LinesExpanded(f, x) \in [0 .. Len(files[f]) -> Result]
    BY LinesEquation
  <2> QED BY <2>1
<1>5. \A i \in 1 .. N : \A x \in S : step[i][x] \in S
  BY <1>3, <1>4
<1> HIDE DEF S, base
<1>6. PICK h : Steps(h, N, S, base, step)
  BY <1>1, <1>2, <1>5, RecursionExists
<1>7. \A i \in 1 .. N : i - 1 \in 0 .. N /\ i # 0 /\ i \in 0 .. N
  BY <1>1
<1>8. h \in [0 .. N -> S] /\ h[0] = base /\ \A i \in 1 .. N : h[i] = Level(h[i - 1])
  <2> HIDE DEF Level
  <2> QED BY <1>3, <1>6, <1>7 DEF Steps
<1> HIDE DEF Level
<1>9. h = Body(h)
  <2>1. \A i \in 0 .. N : i = 0 \/ i \in 1 .. N
    BY <1>1
  <2> QED BY <1>8, <2>1
<1>10. Expansion = Body(Expansion)
  <2>1. Expansion = CHOOSE x : x = Body(x)
    BY DEF Expansion, N, Level, base
  <2> HIDE DEF Body
  <2> QED BY <1>9, <2>1
<1>11. /\ DOMAIN Expansion = 0 .. N /\ Expansion[0] = base
       /\ \A i \in 1 .. N : Expansion[i] = Level(Expansion[i - 1])
  <2>1. 0 \in 0 .. N
    BY <1>1
  <2> QED BY <1>7, <1>10, <2>1
<1>12. \A i \in 0 .. N : i \in {j \in 0 .. N : Expansion[j] = h[j]}
  <2> DEFINE T == {j \in 0 .. N : Expansion[j] = h[j]}
  <2>1. 0 \in T
    BY <1>1, <1>8, <1>11
  <2>2. \A i \in 1 .. N : i - 1 \in T => i \in T
    BY <1>7, <1>8, <1>11
  <2> HIDE DEF T
  <2>3. \A i \in 0 .. N : i \in T
    BY <1>1, <2>1, <2>2, Climb
  <2> QED BY <2>3 DEF T
<1>13. \A i \in 0 .. N : Expansion[i] \in S
  BY <1>8, <1>12
<1>14. Expansion = [i \in 0 .. N |-> Expansion[i]]
  BY <1>10
<1>15. Expansion \in [0 .. N -> S]
  BY <1>13, <1>14
<1> QED BY <1>7, <1>11, <1>15 DEF S, Level

(* What a file comes to only depends on what its includes come to. *)
LEMMA LinesAgree ==
  ASSUME TypeOK, NEW f \in Nodes,
         NEW X \in [Nodes -> Result], NEW Y \in [Nodes -> Result],
         \A t \in LineGraph : t[1] = f => X[t[3]] = Y[t[3]]
  PROVE  LinesExpanded(f, X) = LinesExpanded(f, Y)
<1> DEFINE n == Len(files[f])
           u == LinesExpanded(f, X)
           w == LinesExpanded(f, Y)
<1>1. /\ n \in Nat
      /\ u \in [0 .. n -> Result] /\ u[0] = Nothing
      /\ \A i \in 1 .. n : u[i] = LineAdded(u[i - 1], f, i, X)
  BY LinesEquation
<1>2. /\ w \in [0 .. n -> Result] /\ w[0] = Nothing
      /\ \A i \in 1 .. n : w[i] = LineAdded(w[i - 1], f, i, Y)
  BY LinesEquation
<1>3. ASSUME NEW before, NEW i \in 1 .. n
      PROVE  LineAdded(before, f, i, X) = LineAdded(before, f, i, Y)
  <2> DEFINE line == files[f][i]
             g == CHOOSE h \in Files : Means(f, line, h)
  <2>1. CASE line \in Names /\ \E h \in Files : Means(f, line, h)
    <3>1. g \in Files /\ Means(f, line, g)
      BY <2>1
    <3> HIDE DEF g
    <3>2. <<f, i, g>> \in LineGraph
      BY <1>1, <2>1, <3>1 DEF LineGraph
    <3>3. X[g] = Y[g]
      BY <3>2
    <3> QED BY <3>3 DEF LineAdded, g
  <2>2. CASE ~(line \in Names /\ \E h \in Files : Means(f, line, h))
    BY <2>2 DEF LineAdded
  <2> QED BY <2>1, <2>2
<1> HIDE DEF n, u, w
<1>4. \A i \in 0 .. n : i \in {j \in 0 .. n : u[j] = w[j]}
  <2> DEFINE T == {j \in 0 .. n : u[j] = w[j]}
  <2>1. 0 \in T
    BY <1>1, <1>2
  <2>2. ASSUME NEW i \in 1 .. n, i - 1 \in T PROVE i \in T
    <3>1. i \in 0 .. n /\ u[i - 1] = w[i - 1]
      BY <1>1, <2>2
    <3> QED BY <1>1, <1>2, <1>3, <3>1
  <2> HIDE DEF T
  <2>3. \A i \in 0 .. n : i \in T
    BY <1>1, <2>1, <2>2, Climb
  <2> QED BY <2>3 DEF T
<1>5. u = [i \in 0 .. n |-> u[i]] /\ w = [i \in 0 .. n |-> w[i]]
  BY <1>1, <1>2
<1>6. u = w
  BY <1>4, <1>5
<1> QED BY <1>6 DEF u, w

(* From depth c on the files of S come to the same. *)
SettledIn(S, c, levels) == \A f \in S : \A d \in c .. N : levels[d][f] = levels[c][f]

LEMMA SettledLater ==
  ASSUME NEW S, NEW levels, NEW b \in Nat, NEW c \in Nat, b <= c, c <= N,
         SettledIn(S, b, levels)
  PROVE  SettledIn(S, c, levels)
<1>1. N \in Nat
  BY NodesCounted
<1>2. \A d \in c .. N : d \in b .. N
  BY <1>1
<1>3. c \in b .. N
  BY <1>1
<1> QED BY <1>2, <1>3 DEF SettledIn

(* When all that a file includes is settled, so is the file, one level     *)
(* deeper.                                                                 *)
LEMMA FileSettles ==
  ASSUME TypeOK, NEW f \in Nodes, NEW S \in SUBSET Nodes, NEW c \in Nat, c < N,
         SettledIn(S, c, Expansion),
         \A t \in LineGraph : t[1] = f => t[3] \in S
  PROVE  /\ SettledIn({f}, c + 1, Expansion)
         /\ Expansion[N][f] = LinesExpanded(f, Expansion[N])[Len(files[f])]
<1>1. /\ N \in Nat
      /\ \A d \in 0 .. N : Expansion[d] \in [Nodes -> Result]
      /\ \A d \in 1 .. N : Expansion[d][f] = LinesExpanded(f, Expansion[d - 1])[Len(files[f])]
  BY ExpansionEquation, NodesCounted
<1>2. ASSUME NEW d \in c .. N
      PROVE  LinesExpanded(f, Expansion[d]) = LinesExpanded(f, Expansion[c])
  <2>1. d \in 0 .. N /\ c \in 0 .. N
    BY <1>1
  <2>2. \A t \in LineGraph : t[1] = f => Expansion[d][t[3]] = Expansion[c][t[3]]
    BY DEF SettledIn
  <2>3. Expansion[d] \in [Nodes -> Result] /\ Expansion[c] \in [Nodes -> Result]
    BY <1>1, <2>1
  <2> QED BY <2>2, <2>3, LinesAgree
<1>3. ASSUME NEW d \in c + 1 .. N
      PROVE  Expansion[d][f] = LinesExpanded(f, Expansion[c])[Len(files[f])]
  <2>1. d \in 1 .. N /\ d - 1 \in c .. N
    BY <1>1
  <2> QED BY <1>1, <1>2, <2>1
<1>4. c + 1 \in c + 1 .. N /\ N \in c + 1 .. N /\ N \in c .. N
  BY <1>1
<1> QED BY <1>2, <1>3, <1>4 DEF SettledIn

(* The marks of coordinates that were dropped. *)
Marked(map) == {i \in DOMAIN map : map[i].file = DeferredMark}
Marks(map)  == Cardinality(Marked(map))

LEMMA MarksCounted ==
  ASSUME NEW map \in Seq(Entry)
  PROVE  IsFiniteSet(Marked(map)) /\ Marks(map) \in Nat
<1>1. DOMAIN map = 1 .. Len(map) /\ Len(map) \in Nat
  OBVIOUS
<1>2. IsFiniteSet(1 .. Len(map))
  BY <1>1, FS_Interval
<1>3. Marked(map) \subseteq 1 .. Len(map)
  BY <1>1 DEF Marked
<1> QED BY <1>2, <1>3, FS_Subset, FS_CardinalityType DEF Marks

LEMMA MarksOfOne ==
  ASSUME NEW map \in Seq(Entry), NEW e \in Entry
  PROVE  Marks(Append(map, e)) = IF e.file = DeferredMark THEN Marks(map) + 1 ELSE Marks(map)
<1> DEFINE longer == Append(map, e)
           n == Len(map) + 1
<1>1. /\ DOMAIN longer = 1 .. n /\ longer[n] = e /\ n \notin DOMAIN map
      /\ \A i \in DOMAIN map : longer[i] = map[i]
      /\ DOMAIN map = 1 .. Len(map) /\ Len(map) \in Nat
  OBVIOUS
<1>2. \A i \in 1 .. n : i \in DOMAIN map \/ i = n
  BY <1>1
<1>3. \A i \in DOMAIN map : i \in 1 .. n
  BY <1>1
<1>4. n \in 1 .. n
  BY <1>1
<1> HIDE DEF longer, n
<1>5. CASE e.file = DeferredMark
  <2>1. Marked(longer) = Marked(map) \cup {n} /\ n \notin Marked(map)
    BY <1>1, <1>2, <1>3, <1>4, <1>5 DEF Marked
  <2>2. Marks(longer) = Marks(map) + 1
    BY <2>1, MarksCounted, FS_AddElement DEF Marks
  <2> QED BY <1>5, <2>2 DEF longer
<1>6. CASE e.file # DeferredMark
  <2>1. Marked(longer) = Marked(map)
    BY <1>1, <1>2, <1>3, <1>4, <1>6 DEF Marked
  <2> QED BY <1>6, <2>1 DEF Marks, longer
<1> QED BY <1>5, <1>6

LEMMA MarksOfTwo ==
  ASSUME NEW s \in Seq(Entry), NEW t \in Seq(Entry)
  PROVE  Marks(s \o t) = Marks(s) + Marks(t)
<1> DEFINE m == Len(s)
           Moved == {m + i : i \in Marked(t)}
           r == s \o t
<1>1. /\ DOMAIN s = 1 .. m /\ DOMAIN t = 1 .. Len(t) /\ m \in Nat /\ Len(t) \in Nat
      /\ Marked(s) \subseteq 1 .. m /\ Marked(t) \subseteq 1 .. Len(t)
  BY DEF Marked
<1>2. DOMAIN r = 1 .. m + Len(t)
  BY Joined
<1>3. \A i \in 1 .. m : r[i] = s[i]
  BY Joined
<1>4. \A i \in 1 .. Len(t) : r[m + i] = t[i]
  BY Joined
<1> HIDE DEF m, r
<1>5. Marked(r) = Marked(s) \cup Moved
  <2>1. ASSUME NEW i \in Marked(r), i \notin Marked(s) PROVE i \in Moved
    <3>1. i \in 1 .. m + Len(t) /\ r[i].file = DeferredMark
      BY <1>2 DEF Marked
    <3>2. i \notin 1 .. m
      BY <1>1, <1>3, <2>1, <3>1 DEF Marked
    <3>3. i - m \in 1 .. Len(t) /\ m + (i - m) = i
      BY <1>1, <3>1, <3>2
    <3>4. i - m \in Marked(t)
      BY <1>1, <1>4, <3>1, <3>3 DEF Marked
    <3> QED BY <3>3, <3>4
  <2>2. ASSUME NEW i \in Marked(s) PROVE i \in Marked(r)
    <3>1. i \in 1 .. m /\ i \in 1 .. m + Len(t) /\ s[i].file = DeferredMark
      BY <1>1 DEF Marked
    <3> QED BY <1>2, <1>3, <3>1 DEF Marked
  <2>3. ASSUME NEW i \in Marked(t) PROVE m + i \in Marked(r)
    <3>1. i \in 1 .. Len(t) /\ m + i \in 1 .. m + Len(t) /\ t[i].file = DeferredMark
      BY <1>1 DEF Marked
    <3>2. r[m + i].file = DeferredMark
      BY <1>4, <3>1
    <3> QED BY <1>2, <3>1, <3>2 DEF Marked
  <2> QED BY <2>1, <2>2, <2>3
<1>6. IsFiniteSet(Moved) /\ Cardinality(Moved) = Cardinality(Marked(t))
  <2> DEFINE move == [i \in Marked(t) |-> m + i]
  <2>1. move \in [Marked(t) -> Moved]
    OBVIOUS
  <2>2. \A i, j \in Marked(t) : move[i] = move[j] => i = j
    BY <1>1
  <2>3. \A x \in Moved : \E i \in Marked(t) : move[i] = x
    OBVIOUS
  <2> HIDE DEF move, Moved
  <2>4. move \in Bijection(Marked(t), Moved)
    BY <2>1, <2>2, <2>3 DEF Bijection, Injection, Surjection, IsInjective
  <2>5. ExistsBijection(Marked(t), Moved)
    BY <2>4 DEF ExistsBijection
  <2>6. IsFiniteSet(Marked(t))
    BY MarksCounted
  <2> QED BY <2>5, <2>6, FS_Bijection
<1>7. Marked(s) \cap Moved = {}
  BY <1>1
<1>8. Cardinality(Marked(s) \cup Moved) = Marks(s) + Marks(t)
  <2> HIDE DEF Moved
  <2>1. IsFiniteSet(Marked(s)) /\ Marks(s) \in Nat /\ Marks(t) \in Nat
    BY MarksCounted
  <2>2. Cardinality(Marked(s) \cap Moved) = 0
    BY <1>7, FS_EmptySet
  <2>3. Cardinality(Marked(s) \cup Moved)
          = Cardinality(Marked(s)) + Cardinality(Moved) - Cardinality(Marked(s) \cap Moved)
    BY <1>6, <2>1, FS_Union
  <2> QED BY <1>6, <2>1, <2>2, <2>3 DEF Marks
<1> QED BY <1>5, <1>8 DEF Marks, r

LEMMA MarksMoved ==
  ASSUME NEW map \in Seq(Entry), NEW by \in Nat
  PROVE  Marks(Shifted(map, by)) = Marks(map)
<1>1. /\ DOMAIN Shifted(map, by) = DOMAIN map
      /\ \A i \in DOMAIN map : Shifted(map, by)[i].file = map[i].file
  BY DEF Shifted
<1>2. Marked(Shifted(map, by)) = Marked(map)
  BY <1>1 DEF Marked
<1> QED BY <1>2 DEF Marks

(* The lines of every file, and what a call has made of them so far. *)
Lines == [f \in Nodes |-> LinesExpanded(f, Expansion[N])]
Come(frame) == [text |-> frame.out, drops |-> Marks(frame.map)]

(* A call has expanded the lines it has passed, and what it has inlined is *)
(* settled at the depth of as many files as that is.                       *)
CallExpanded(frame, levels, lines) ==
  /\ SettledIn(Inlined(frame.map), Cardinality(Inlined(frame.map)), levels)
  /\ frame.next - 1 \in DOMAIN lines[frame.file]
  /\ lines[frame.file][frame.next - 1] = Come(frame)

ExpandInv == \A k \in 1 .. Len(stack) : CallExpanded(stack[k], Expansion, Lines)

LEMMA ExpansionKept == UNCHANGED input => Expansion' = Expansion /\ Lines' = Lines
<1> SUFFICES ASSUME UNCHANGED input PROVE Expansion' = Expansion /\ Lines' = Lines
  OBVIOUS
<1>1. Expansion' = Expansion
  BY DEF input, Expansion, LinesExpanded, LineAdded, Means, IncludeDirs
<1>2. Lines' = Lines
  BY <1>1 DEF input, Lines, LinesExpanded, LineAdded, Means, IncludeDirs
<1> QED BY <1>1, <1>2

LEMMA LinesOfFile ==
  ASSUME TypeOK, NEW f \in Nodes
  PROVE  /\ Len(files[f]) \in Nat /\ DOMAIN Lines[f] = 0 .. Len(files[f])
         /\ Lines[f][0] = Nothing
         /\ \A i \in 1 .. Len(files[f]) :
              Lines[f][i] = LineAdded(Lines[f][i - 1], f, i, Expansion[N])
<1>1. Lines[f] = LinesExpanded(f, Expansion[N])
  BY DEF Lines
<1>2. Expansion[N] \in [Nodes -> Result]
  BY ExpansionEquation, NodesCounted
<1> QED BY <1>1, <1>2, LinesEquation

LEMMA NewCallExpanded ==
  ASSUME TypeOK, NEW f \in Nodes
  PROVE  CallExpanded(NewFrame(f), Expansion, Lines)
<1>1. /\ NewFrame(f).file = f /\ NewFrame(f).next - 1 = 0
      /\ NewFrame(f).out = <<>> /\ NewFrame(f).map = <<>>
  BY DEF NewFrame
<1>2. Inlined(<<>>) = {} /\ Marked(<<>>) = {}
  BY DEF Inlined, Marked
<1>3. Come(NewFrame(f)) = Nothing
  BY <1>1, <1>2, FS_EmptySet DEF Come, Marks, Nothing
<1>4. 0 \in DOMAIN Lines[f] /\ Lines[f][0] = Nothing
  BY LinesOfFile
<1> QED BY <1>1, <1>2, <1>3, <1>4 DEF CallExpanded, SettledIn

LEMMA ExpandInit == Init => ExpandInv
<1> SUFFICES ASSUME Init PROVE ExpandInv
  OBVIOUS
<1>1. TypeOK /\ Root \in Nodes
  BY FragmentInit DEF FragmentInv, Nodes
<1>2. stack = <<NewFrame(Root)>>
  BY DEF Init
<1> QED BY <1>1, <1>2, NewCallExpanded DEF ExpandInv

LEMMA EmitExpands ==
  ASSUME FragmentInv, ExpandInv, AtLine,
         NEW out \in Seq(Byte), NEW map \in Seq(Entry), Emit(out, map),
         Inlined(map) = Inlined(Top.map),
         LineAdded(Come(Top), Top.file, Top.next, Expansion[N]) = [text |-> out, drops |-> Marks(map)]
  PROVE  ExpandInv'
<1> USE DEF FragmentInv
<1> DEFINE n == Len(stack)
           frame == [file |-> Top.file, next |-> Top.next + 1, out |-> out, map |-> map]
<1>1. /\ Top \in Frame /\ stack \in Seq(Frame) /\ n \in Nat \ {0} /\ n \in 1 .. n
      /\ Top = stack[n] /\ Top.next \in Nat \ {0} /\ Top.file \in Nodes
  BY TopIsFrame DEF TypeOK, Chain, Top, Frame, Nodes
<1>2. /\ stack' = [stack EXCEPT ![n] = frame]
      /\ Expansion' = Expansion /\ Lines' = Lines
  BY ExpansionKept DEF Emit
<1>3. /\ Len(stack') = n /\ stack'[n] = frame
      /\ \A i \in 1 .. n : i # n => stack'[i] = stack[i]
  BY <1>1, <1>2
<1>4. CallExpanded(Top, Expansion, Lines)
  BY <1>1 DEF ExpandInv
<1>5. /\ Len(files[Top.file]) \in Nat /\ DOMAIN Lines[Top.file] = 0 .. Len(files[Top.file])
      /\ \A i \in 1 .. Len(files[Top.file]) :
           Lines[Top.file][i] = LineAdded(Lines[Top.file][i - 1], Top.file, i, Expansion[N])
  BY <1>1, LinesOfFile
<1>6. Top.next \in 1 .. Len(files[Top.file]) /\ Top.next \in 0 .. Len(files[Top.file])
  BY <1>1, <1>5 DEF AtLine
<1>7. Lines[Top.file][Top.next] = [text |-> out, drops |-> Marks(map)]
  BY <1>4, <1>5, <1>6 DEF CallExpanded
<1>8. CallExpanded(frame, Expansion, Lines)
  <2>1. (Top.next + 1) - 1 = Top.next
    BY <1>1
  <2> QED BY <1>4, <1>5, <1>6, <1>7, <2>1 DEF CallExpanded, Come
<1>9. \A i \in 1 .. n : CallExpanded(stack'[i], Expansion, Lines)
  BY <1>3, <1>8 DEF ExpandInv
<1> QED BY <1>2, <1>3, <1>9 DEF ExpandInv

LEMMA CallsKept ==
  ASSUME ExpandInv, UNCHANGED <<input, stack>>
  PROVE  ExpandInv'
  BY ExpansionKept DEF ExpandInv

LEMMA EnterExpands ==
  ASSUME FragmentInv, ExpandInv, EnterFile
  PROVE  ExpandInv'
<1> USE DEF FragmentInv
<1> DEFINE n == Len(stack)
<1>1. PICK f \in Files : stack' = Append(stack, NewFrame(f))
  BY DEF EnterFile
<1>2. UNCHANGED input /\ Expansion' = Expansion /\ Lines' = Lines
  BY ExpansionKept DEF EnterFile
<1>3. /\ Len(stack') = n + 1 /\ stack'[n + 1] = NewFrame(f) /\ n \in Nat
      /\ \A i \in 1 .. n : stack'[i] = stack[i]
  <2>1. stack \in Seq(Frame) /\ NewFrame(f) \in Frame
    BY DEF TypeOK, NewFrame, Frame
  <2> QED BY <1>1, <2>1
<1>4. CallExpanded(NewFrame(f), Expansion, Lines)
  BY NewCallExpanded DEF Nodes
<1>5. \A i \in 1 .. n + 1 : i = n + 1 \/ i \in 1 .. n
  BY <1>3
<1>6. \A i \in 1 .. n + 1 : CallExpanded(stack'[i], Expansion, Lines)
  BY <1>3, <1>4, <1>5 DEF ExpandInv
<1> QED BY <1>2, <1>3, <1>6 DEF ExpandInv

(* A call that has passed all lines has what the file comes to. *)
LEMMA EndIsExpansion ==
  ASSUME FragmentInv, InlineInv, ExpandInv, AtEnd \/ outcome = "ok", Top.file \notin Inlined(Top.map)
  PROVE  /\ Expansion[N][Top.file] = Come(Top)
         /\ Cardinality(Inlined(Top.map)) \in Nat /\ Cardinality(Inlined(Top.map)) < N
         /\ SettledIn({Top.file}, Cardinality(Inlined(Top.map)) + 1, Expansion)
<1> USE DEF FragmentInv
<1> DEFINE f == Top.file
           B == Inlined(Top.map)
           c == Cardinality(B)
<1>1. /\ Top \in Frame /\ f \in Nodes /\ Top.next \in Nat
  BY TopIsFrame DEF Frame, Nodes
<1>2. CallRight(Top, LineGraph, IncludeGraph) /\ CallExpanded(Top, Expansion, Lines)
  <2>1. Len(stack) \in 1 .. Len(stack)
    BY DEF TypeOK, Chain
  <2> QED BY <2>1 DEF InlineInv, CallsRight, ExpandInv, Top
<1>3. /\ Len(files[f]) \in Nat /\ DOMAIN Lines[f] = 0 .. Len(files[f])
  BY <1>1, LinesOfFile
<1>4. Top.next - 1 = Len(files[f])
  <2>1. Top.next > Len(files[f])
    BY DEF AtEnd, InlineInv, OkAtEnd, Chain, Top
  <2> QED BY <1>1, <1>2, <1>3, <2>1 DEF CallExpanded
<1>5. c \in Nat /\ c < N
  <2>1. B \in SUBSET Nodes /\ B # Nodes
    BY <1>1 DEF Inlined, Nodes
  <2>2. IsFiniteSet(B) /\ c <= N /\ c # N
    BY <2>1, NodesCounted, FS_Subset DEF N
  <2>3. c \in Nat
    BY <2>2, FS_CardinalityType
  <2> QED BY <2>2, <2>3, NodesCounted
<1>6. \A t \in LineGraph : t[1] = f => t[3] \in B
  <2> SUFFICES ASSUME NEW t \in LineGraph, t[1] = f PROVE t[3] \in B
    OBVIOUS
  <2>1. t[2] \in Nat /\ t[2] <= Len(files[f])
    BY DEF LineGraph
  <2>2. t[2] < Top.next
    BY <1>1, <1>3, <1>4, <2>1
  <2> QED BY <1>2, <2>2 DEF CallRight, PassedIn
<1>7. B \in SUBSET Nodes /\ SettledIn(B, c, Expansion)
  BY <1>2 DEF Inlined, Nodes, CallExpanded
<1> HIDE DEF c, B, f
<1>8. /\ SettledIn({f}, c + 1, Expansion)
      /\ Expansion[N][f] = LinesExpanded(f, Expansion[N])[Len(files[f])]
  BY <1>1, <1>5, <1>6, <1>7, FileSettles
<1>9. Expansion[N][f] = Lines[f][Top.next - 1]
  BY <1>1, <1>4, <1>8 DEF Lines
<1> QED BY <1>2, <1>5, <1>8, <1>9 DEF CallExpanded, f, c, B

LEMMA UnionSettles ==
  ASSUME NEW A \in SUBSET Files, NEW B \in SUBSET Files, NEW f \in Files, f \notin B, NEW levels,
         SettledIn(A, Cardinality(A), levels), SettledIn(B, Cardinality(B), levels),
         SettledIn({f}, Cardinality(B) + 1, levels)
  PROVE  SettledIn(A \cup {f} \cup B, Cardinality(A \cup {f} \cup B), levels)
<1> DEFINE U == A \cup {f} \cup B
           a == Cardinality(A)
           b == Cardinality(B)
           u == Cardinality(U)
<1>1. IsFiniteSet(A) /\ IsFiniteSet(B) /\ IsFiniteSet(U) /\ u <= Cardinality(Files)
  <2>1. U \in SUBSET Files
    OBVIOUS
  <2> QED BY <2>1, FilesAssumption, FS_Subset
<1>2. a \in Nat /\ b \in Nat /\ u \in Nat /\ u <= N
  <2>1. a \in Nat /\ b \in Nat /\ u \in Nat
    BY <1>1, FS_CardinalityType
  <2> QED BY <1>1, <2>1, NodesCounted
<1>3. a <= u
  BY <1>1, FS_Subset
<1>4. b + 1 <= u
  <2>1. Cardinality(B \cup {f}) = b + 1
    BY <1>1, FS_AddElement
  <2>2. B \cup {f} \in SUBSET U
    OBVIOUS
  <2>3. Cardinality(B \cup {f}) <= u
    BY <1>1, <2>2, FS_Subset
  <2> QED BY <2>1, <2>3
<1> HIDE DEF a, b, u, U
<1>5. SettledIn(A, u, levels)
  BY <1>2, <1>3, SettledLater DEF a
<1>6. SettledIn(B, u, levels)
  BY <1>2, <1>4, SettledLater DEF b
<1>7. SettledIn({f}, u, levels)
  BY <1>2, <1>4, SettledLater DEF b
<1> QED BY <1>5, <1>6, <1>7 DEF SettledIn, U, u

LEMMA ReturnExpands ==
  ASSUME FragmentInv, InlineInv, ExpandInv, ReturnToIncluder
  PROVE  ExpandInv'
<1> USE DEF FragmentInv
<1> DEFINE n   == Len(stack)
           up  == stack[n - 1]
           f   == Top.file
           own == [start |-> Len(up.out), end |-> Len(Inline(up.out, Top.out, f)), file |-> f]
           A   == Inlined(up.map)
           B   == Inlined(Top.map)
<1>1. /\ n > 1 /\ AtEnd /\ UNCHANGED input
      /\ Expansion' = Expansion /\ Lines' = Lines
  BY ExpansionKept DEF ReturnToIncluder
<1>2. /\ n \in Nat /\ stack \in Seq(Frame) /\ n - 1 \in 1 .. n - 1 /\ n - 1 \in 1 .. n
      /\ n \in 1 .. n /\ n \in 2 .. n /\ (n - 1) + 1 = n /\ Top = stack[n]
  BY <1>1 DEF TypeOK, Top
<1>3. /\ Top \in Frame /\ up \in Frame /\ f \in Files /\ f \in Origins /\ up.file \in Nodes
  <2>1. Top \in Frame /\ up \in Frame
    BY <1>2, TopIsFrame
  <2>2. f \in Files
    BY <1>2 DEF Chain
  <2> QED BY <2>1, <2>2 DEF Origins, Frame, Nodes
<1>4. /\ up.out \in Seq(Byte) /\ up.map \in Seq(Entry) /\ Len(up.out) \in Nat /\ up.next \in Nat \ {0}
      /\ Top.out \in Seq(Byte) /\ Top.map \in Seq(Entry)
  BY <1>3 DEF Frame
<1>5. own \in Entry /\ own.file = f
  <2>1. Inline(up.out, Top.out, f) \in Seq(Byte)
    BY <1>3, <1>4, InlineIsText
  <2> QED BY <1>3, <1>4, <2>1 DEF Entry
<1>6. /\ Returned.file = up.file /\ Returned.next = up.next + 1
      /\ Returned.out = Inline(up.out, Top.out, f)
      /\ Returned.map = Append(up.map, own) \o Shifted(Top.map, Len(up.out))
  BY <1>3 DEF Returned, Frame
<1>7. Inlined(Returned.map) = A \cup {f} \cup B
  BY <1>3, <1>4, <1>5, <1>6, InlinedByReturn
<1>8. f \notin B
  BY <1>2 DEF InlineInv, NotInItself
<1>9. CallExpanded(up, Expansion, Lines) /\ CallExpanded(Top, Expansion, Lines)
  BY <1>2 DEF ExpandInv
<1>10. Expansion[N][f] = Come(Top) /\ SettledIn({f}, Cardinality(B) + 1, Expansion)
  BY <1>1, <1>8, EndIsExpansion
<1>11. <<up.file, up.next, f>> \in LineGraph
  BY <1>2 DEF InlineInv, Pending
<1> HIDE DEF n, up, f, own, A, B
<1>12. SettledIn(Inlined(Returned.map), Cardinality(Inlined(Returned.map)), Expansion)
  <2>1. A \in SUBSET Files /\ B \in SUBSET Files
    BY DEF A, B, Inlined
  <2>2. SettledIn(A, Cardinality(A), Expansion) /\ SettledIn(B, Cardinality(B), Expansion)
    BY <1>9 DEF CallExpanded, A, B
  <2> QED BY <1>3, <1>7, <1>8, <1>10, <2>1, <2>2, UnionSettles
<1>13. /\ up.next <= Len(files[up.file])
       /\ files[up.file][up.next] \in Names
       /\ Means(up.file, files[up.file][up.next], f)
  BY <1>11 DEF LineGraph
<1>14. Marks(Returned.map) = Marks(up.map) + Marks(Top.map)
  <2>1. Append(up.map, own) \in Seq(Entry) /\ Shifted(Top.map, Len(up.out)) \in Seq(Entry)
    <3>1. Append(up.map, own) \in Seq(Entry)
      BY <1>4, <1>5
    <3>2. Shifted(Top.map, Len(up.out)) \in Seq(Entry)
      BY <1>4, ShiftedIsMap
    <3> QED BY <3>1, <3>2
  <2>2. own.file # DeferredMark
    BY <1>3, <1>5, PathsAssumption
  <2>3. Marks(Append(up.map, own)) = Marks(up.map)
    BY <1>4, <1>5, <2>2, MarksOfOne
  <2>4. Marks(Shifted(Top.map, Len(up.out))) = Marks(Top.map)
    BY <1>4, MarksMoved
  <2> QED BY <1>6, <2>1, <2>3, <2>4, MarksOfTwo
<1>15. LineAdded(Come(up), up.file, up.next, Expansion[N]) = Come(Returned)
  <2> DEFINE g == CHOOSE h \in Files : Means(up.file, files[up.file][up.next], h)
  <2>1. g \in Files /\ Means(up.file, files[up.file][up.next], g)
    BY <1>3, <1>13
  <2>2. g = f
    BY <1>3, <1>13, <2>1, MeansOne
  <2>3. files[up.file][up.next] # Text /\ files[up.file][up.next] # Coordinate
    BY <1>13, PathsAssumption
  <2>4. LineAdded(Come(up), up.file, up.next, Expansion[N])
          = [text  |-> IF Come(up).text \o Expansion[N][g].text = <<>> THEN << <<g, 0>> >>
                       ELSE Come(up).text \o Expansion[N][g].text,
             drops |-> Come(up).drops + Expansion[N][g].drops]
    BY <1>3, <1>13, <2>3 DEF LineAdded
  <2> HIDE DEF g
  <2>5. /\ Come(up).text = up.out /\ Come(up).drops = Marks(up.map)
        /\ Expansion[N][g].text = Top.out /\ Expansion[N][g].drops = Marks(Top.map)
    BY <1>10, <2>2 DEF Come
  <2> QED BY <1>6, <1>14, <2>2, <2>4, <2>5 DEF Come, Inline
<1>16. CallExpanded(Returned, Expansion, Lines)
  <2>1. /\ Len(files[up.file]) \in Nat /\ DOMAIN Lines[up.file] = 0 .. Len(files[up.file])
        /\ \A i \in 1 .. Len(files[up.file]) :
             Lines[up.file][i] = LineAdded(Lines[up.file][i - 1], up.file, i, Expansion[N])
    BY <1>3, LinesOfFile
  <2>2. up.next \in 1 .. Len(files[up.file]) /\ up.next \in DOMAIN Lines[up.file]
    BY <1>4, <1>13, <2>1
  <2>3. Lines[up.file][up.next - 1] = Come(up)
    BY <1>9 DEF CallExpanded
  <2>4. Lines[up.file][up.next] = Come(Returned)
    BY <1>15, <2>1, <2>2, <2>3
  <2>5. Returned.next - 1 = up.next
    BY <1>4, <1>6
  <2> QED BY <1>6, <1>12, <2>2, <2>4, <2>5 DEF CallExpanded
<1>17. /\ Len(stack') = n - 1 /\ stack'[n - 1] = Returned
       /\ \A i \in 1 .. n - 2 : stack'[i] = stack[i]
  BY ReturnIsCall DEF n
<1>18. \A i \in 1 .. n - 1 : i = n - 1 \/ i \in 1 .. n - 2
  BY <1>2
<1>19. \A i \in 1 .. n - 2 : i \in 1 .. n
  BY <1>2
<1>20. \A i \in 1 .. n - 1 : CallExpanded(stack'[i], Expansion, Lines)
  BY <1>16, <1>17, <1>18, <1>19 DEF ExpandInv, n
<1> QED BY <1>1, <1>17, <1>20 DEF ExpandInv

LEMMA ExpandStep == FragmentInv /\ InlineInv /\ ExpandInv /\ [Next]_vars => ExpandInv'
<1> SUFFICES ASSUME FragmentInv, InlineInv, ExpandInv, [Next]_vars PROVE ExpandInv'
  OBVIOUS
<1>1. Top \in Frame
  BY TopIsFrame DEF FragmentInv
<1>2. /\ Top.out \in Seq(Byte) /\ Top.map \in Seq(Entry) /\ Len(Top.out) \in Nat
      /\ Top.file \in Origins /\ Top.file \in Nodes /\ Top.next \in Nat
  BY <1>1 DEF Frame, Origins, Nodes
<1>3. Text # Coordinate /\ Text \notin Names /\ Coordinate \notin Names
  BY PathsAssumption DEF Text, Coordinate
<1>4. Come(Top).text = Top.out /\ Come(Top).drops = Marks(Top.map)
  BY DEF Come
<1>5. CASE PassThrough
  <2> DEFINE b == <<Top.file, Top.next>>
             text == <<b, b>>
  <2>1. b \in Byte
    BY <1>2 DEF Byte
  <2>2. LineAdded(Come(Top), Top.file, Top.next, Expansion[N])
          = [text |-> Top.out \o text, drops |-> Marks(Top.map)]
    BY <1>3, <1>4, <1>5 DEF PassThrough, Line, LineAdded
  <2>3. AtLine /\ Emit(Top.out \o text, Top.map)
    BY <1>5 DEF PassThrough
  <2> HIDE DEF b
  <2>4. Top.out \o text \in Seq(Byte)
    BY <1>2, <2>1
  <2> QED BY <1>2, <2>2, <2>3, <2>4, EmitExpands
<1>6. CASE DeferCoordinate
  <2> DEFINE e == [start |-> Len(Top.out), end |-> Len(Top.out), file |-> DeferredMark]
             map == Append(Top.map, e)
  <2>1. e \in Entry /\ e.file = DeferredMark /\ e.file \notin Files
    BY <1>2, PathsAssumption DEF Entry
  <2>2. AtLine /\ Line = Coordinate /\ ~registry /\ Emit(Top.out, map)
    BY <1>6 DEF DeferCoordinate
  <2> HIDE DEF e
  <2>3. map \in Seq(Entry) /\ Inlined(map) = Inlined(Top.map) /\ Marks(map) = Marks(Top.map) + 1
    BY <1>2, <2>1, InlinedByMark, MarksOfOne
  <2>4. LineAdded(Come(Top), Top.file, Top.next, Expansion[N])
          = [text |-> Top.out, drops |-> Marks(map)]
    BY <1>3, <1>4, <2>2, <2>3 DEF Line, LineAdded
  <2> HIDE DEF map
  <2> QED BY <1>2, <2>2, <2>3, <2>4, EmitExpands
<1>7. CASE IncludeCoordinate
  <2> DEFINE b    == <<RegistryModule, 1>>
             text == <<b, b>>
             out  == Inline(Top.out, text, RegistryModule)
             e    == [start |-> Len(Top.out), end |-> Len(out), file |-> RegistryModule]
             map  == Append(Top.map, e)
  <2>1. RegistryModule \in Origins /\ b \in Byte
    BY DEF Byte, Origins
  <2>2. /\ AtLine /\ Line = Coordinate /\ registry
        /\ Done("deferred") \/ Done("retired") \/ Emit(out, map)
    BY <1>7 DEF IncludeCoordinate
  <2> HIDE DEF b
  <2>3. text \in Seq(Byte) /\ Len(text) = 2
    BY <2>1
  <2> HIDE DEF text
  <2>4. out = Top.out \o text /\ out \in Seq(Byte)
    <3>1. Top.out \o text # <<>>
      BY <1>2, <2>3, Joined
    <3>2. Top.out \o text \in Seq(Byte)
      BY <1>2, <2>3
    <3> QED BY <3>1, <3>2 DEF Inline
  <2>5. Len(out) \in Nat
    BY <2>4
  <2>6. e \in Entry /\ e.file = RegistryModule
    BY <1>2, <2>1, <2>5 DEF Entry
  <2> HIDE DEF out, e
  <2>7. RegistryModule \notin Files /\ RegistryModule # DeferredMark
    BY PathsAssumption DEF RegistryModule, DeferredMark
  <2>8. map \in Seq(Entry) /\ Inlined(map) = Inlined(Top.map) /\ Marks(map) = Marks(Top.map)
    BY <1>2, <2>6, <2>7, InlinedByMark, MarksOfOne
  <2> HIDE DEF map
  <2>9. LineAdded(Come(Top), Top.file, Top.next, Expansion[N])
          = [text |-> out, drops |-> Marks(map)]
    BY <1>3, <1>4, <2>2, <2>4, <2>8 DEF Line, LineAdded, text, b
  <2>10. CASE Emit(out, map)
    BY <2>2, <2>4, <2>8, <2>9, <2>10, EmitExpands
  <2>11. CASE Done("deferred") \/ Done("retired")
    BY <2>11, CallsKept DEF Done
  <2> QED BY <2>2, <2>10, <2>11
<1>8. CASE FileNotFound \/ CircularInclude \/ BrokenFile \/ Finish
  <2>1. UNCHANGED <<input, stack>>
    BY <1>8 DEF FileNotFound, CircularInclude, BrokenFile, Finish, Done
  <2> QED BY <2>1, CallsKept
<1>9. CASE EnterFile
  BY <1>9, EnterExpands
<1>10. CASE ReturnToIncluder
  BY <1>10, ReturnExpands
<1>11. CASE UNCHANGED vars
  BY <1>11, CallsKept DEF vars
<1> QED BY <1>5, <1>6, <1>7, <1>8, <1>9, <1>10, <1>11 DEF Next

LEMMA ExpandAlways == Spec => []ExpandInv
  BY ExpandInit, ExpandStep, FragmentAlways, InlineAlways, PTL DEF Spec

LEMMA OkIsExpanded ==
  ASSUME FragmentInv, InlineInv, ExpandInv, outcome = "ok"
  PROVE  Expanded = Come(Top)
<1>1. Top.file = Root /\ Top.file \notin Inlined(Top.map)
  <2>1. Top.file = Root
    BY OkReachesInlined
  <2>2. Root \notin Files
    BY PathsAssumption
  <2> QED BY <2>1, <2>2 DEF Inlined
<1> QED BY <1>1, EndIsExpansion DEF Expanded, N
----------------------------------------------------------------------------
LEMMA Associates ==
  \A r, s, t \in Seq(Entry) : (r \o s) \o t = r \o (s \o t)
<1> SUFFICES ASSUME NEW r \in Seq(Entry), NEW s \in Seq(Entry), NEW t \in Seq(Entry)
             PROVE  (r \o s) \o t = r \o (s \o t)
  OBVIOUS
<1> QED BY ConcatAssociative

(* SourceMap::resolve stops at the first entry that covers an offset, so   *)
(* entries about later text change nothing,                                *)
LEMMA ResolveKept ==
  ASSUME NEW map \in Seq(Entry), NEW tail \in Seq(Entry), NEW offset \in Nat,
         \A k \in 1 .. Len(tail) : ~Covers(tail[k], offset)
  PROVE  Resolve(map \o tail, offset) = Resolve(map, offset)
<1> DEFINE all == map \o tail
           C   == {i \in DOMAIN map : Covers(map[i], offset)}
           D   == {i \in DOMAIN all : Covers(all[i], offset)}
<1>1. /\ DOMAIN map = 1 .. Len(map) /\ Len(map) \in Nat /\ Len(tail) \in Nat
      /\ DOMAIN all = 1 .. Len(map) + Len(tail)
      /\ \A i \in 1 .. Len(map) : all[i] = map[i]
      /\ \A k \in 1 .. Len(tail) : all[Len(map) + k] = tail[k]
  BY Joined
<1> HIDE DEF all
<1>2. ASSUME NEW i \in 1 .. Len(map) + Len(tail), i \notin 1 .. Len(map)
      PROVE  ~Covers(all[i], offset)
  <2>1. i - Len(map) \in 1 .. Len(tail) /\ Len(map) + (i - Len(map)) = i
    BY <1>1, <1>2
  <2> QED BY <1>1, <2>1
<1>3. 1 .. Len(map) \subseteq 1 .. Len(map) + Len(tail)
  BY <1>1
<1>4. D = C
  BY <1>1, <1>2, <1>3
<1>5. CASE C = {}
  BY <1>4, <1>5 DEF Resolve, all
<1>6. CASE C # {}
  <2>1. C \in SUBSET Nat
    BY <1>1
  <2> HIDE DEF C, D
  <2> DEFINE c == CHOOSE i \in C : \A j \in C : i <= j
  <2>2. c \in C
    BY <1>6, <2>1, LeastExists
  <2>3. Resolve(map, offset) = map[c].file /\ Resolve(map \o tail, offset) = all[c].file
    BY <1>4, <1>6 DEF Resolve, all, C, D
  <2>4. all[c] = map[c]
    BY <1>1, <2>2 DEF C
  <2> QED BY <2>3, <2>4
<1> QED BY <1>5, <1>6

(* text that no entry is about is the arm's,                               *)
LEMMA ResolvesToArm ==
  ASSUME NEW map \in Seq(Entry), NEW offset \in Nat,
         \A i \in DOMAIN map : ~Covers(map[i], offset)
  PROVE  Resolve(map, offset) = Root
<1>1. {i \in DOMAIN map : Covers(map[i], offset)} = {}
  OBVIOUS
<1> QED BY <1>1 DEF Resolve

(* and the entry of an include hides those of the includes inside it.      *)
LEMMA ResolvesToOwn ==
  ASSUME NEW map \in Seq(Entry), NEW own \in Entry, NEW tail \in Seq(Entry), NEW offset \in Nat,
         \A i \in DOMAIN map : ~Covers(map[i], offset), Covers(own, offset)
  PROVE  Resolve(Append(map, own) \o tail, offset) = own.file
<1> DEFINE m   == Len(map) + 1
           low == Append(map, own)
           all == low \o tail
           D   == {i \in DOMAIN all : Covers(all[i], offset)}
<1>1. /\ low \in Seq(Entry) /\ Len(low) = m /\ low[m] = own /\ DOMAIN map = 1 .. Len(map)
      /\ \A i \in 1 .. Len(map) : low[i] = map[i]
      /\ m \in Nat /\ Len(tail) \in Nat /\ Len(map) \in Nat
  OBVIOUS
<1> HIDE DEF low
<1>2. DOMAIN all = 1 .. m + Len(tail) /\ \A i \in 1 .. m : all[i] = low[i]
  <2>1. low \in Seq(Entry)
    BY <1>1
  <2>2. /\ DOMAIN (low \o tail) = 1 .. Len(low) + Len(tail)
        /\ \A i \in 1 .. Len(low) : (low \o tail)[i] = low[i]
    BY <2>1, Joined
  <2> QED BY <1>1, <2>2
<1> HIDE DEF all
<1>3. m \in 1 .. m /\ m \in 1 .. m + Len(tail)
  BY <1>1
<1>4. m \in D /\ all[m] = own
  BY <1>1, <1>2, <1>3
<1>5. ASSUME NEW i \in D PROVE m <= i
  <2>1. SUFFICES ASSUME i < m PROVE FALSE
    BY <1>1, <1>2
  <2>2. i \in 1 .. Len(map) /\ i \in 1 .. m
    BY <1>1, <1>2, <2>1
  <2> QED BY <1>1, <1>2, <2>2
<1>6. D \in SUBSET Nat
  BY <1>1, <1>2
<1>7. \A i \in D : (\A j \in D : i <= j) => i = m
  <2>1. \A i \in D : i \in Nat
    BY <1>6
  <2> HIDE DEF D
  <2> QED BY <1>1, <1>4, <1>5, <2>1
<1> HIDE DEF D, m
<1>8. (CHOOSE i \in D : \A j \in D : i <= j) = m
  BY <1>4, <1>5, <1>7
<1>9. Resolve(all, offset) = all[m].file
  BY <1>4, <1>8 DEF Resolve, D
<1> QED BY <1>4, <1>9 DEF all, low

(* The map of the arm's call leads what the lines passed so far have added *)
(* to where these lines took it from.                                      *)
ArmResolved(arm) ==
  \A i \in 1 .. arm.next - 1 :
    /\ Len(ArmExpanded[i].text) <= Len(arm.out)
    /\ \A offset \in Len(ArmExpanded[i - 1].text) .. Len(ArmExpanded[i].text) - 1 :
         Resolve(arm.map, offset) = TakenFrom(i)

ResolveInv == ArmResolved(stack[1])

LEMMA ArmKept ==
  ASSUME ResolveInv, UNCHANGED input, stack'[1] = stack[1]
  PROVE  ResolveInv'
<1>1. ArmExpanded' = ArmExpanded
  BY ExpansionKept DEF input, ArmExpanded, LinesExpanded, LineAdded, Means, IncludeDirs
<1>2. \A i : TakenFrom(i)' = TakenFrom(i)
  BY DEF input, TakenFrom, Means, IncludeDirs
<1> QED BY <1>1, <1>2 DEF ResolveInv, ArmResolved

LEMMA ArmLines ==
  ASSUME TypeOK
  PROVE  /\ ArmExpanded = Lines[Root] /\ Root \in Nodes
         /\ Len(files[Root]) \in Nat /\ DOMAIN ArmExpanded = 0 .. Len(files[Root])
         /\ \A i \in 0 .. Len(files[Root]) : Len(ArmExpanded[i].text) \in Nat
<1>1. Root \in Nodes
  BY DEF Nodes
<1>2. ArmExpanded = LinesExpanded(Root, Expansion[N]) /\ ArmExpanded = Lines[Root]
  BY <1>1 DEF Lines, ArmExpanded, N
<1>3. Expansion[N] \in [Nodes -> Result]
  BY ExpansionEquation, NodesCounted
<1>4. Len(files[Root]) \in Nat /\ ArmExpanded \in [0 .. Len(files[Root]) -> Result]
  BY <1>1, <1>2, <1>3, LinesEquation
<1>5. \A r \in Result : Len(r.text) \in Nat
  BY DEF Result
<1> QED BY <1>1, <1>2, <1>4, <1>5

(* What is known about the arm's call.                                     *)
LEMMA ArmCall ==
  ASSUME FragmentInv, InlineInv, ExpandInv
  PROVE  /\ stack[1] \in Frame /\ stack[1].file = Root
         /\ stack[1].out \in Seq(Byte) /\ stack[1].map \in Seq(Entry)
         /\ stack[1].next \in Nat \ {0} /\ Len(stack[1].out) \in Nat
         /\ stack[1].next - 1 \in 0 .. Len(files[Root])
         /\ MapInside(stack[1].out, stack[1].map)
         /\ ArmExpanded[stack[1].next - 1].text = stack[1].out
<1>1. 1 \in 1 .. Len(stack) /\ stack[1] \in Frame /\ stack[1].file = Root
  BY DEF FragmentInv, TypeOK, Chain
<1>2. /\ stack[1].out \in Seq(Byte) /\ stack[1].map \in Seq(Entry)
      /\ stack[1].next \in Nat \ {0}
  BY <1>1 DEF Frame
<1>3. Len(stack[1].out) \in Nat
  BY <1>2
<1>4. MapInside(stack[1].out, stack[1].map)
  BY <1>1 DEF InlineInv, CallsRight, CallRight
<1>5. CallExpanded(stack[1], Expansion, Lines)
  BY <1>1 DEF ExpandInv
<1>6. ArmExpanded = Lines[Root] /\ DOMAIN ArmExpanded = 0 .. Len(files[Root])
  BY ArmLines DEF FragmentInv
<1>7. /\ ArmExpanded[stack[1].next - 1].text = stack[1].out
      /\ stack[1].next - 1 \in 0 .. Len(files[Root])
  BY <1>1, <1>5, <1>6 DEF CallExpanded, Come
<1> QED BY <1>1, <1>2, <1>3, <1>4, <1>7

(* The arm's call passes one more line, whose text is resolved.            *)
LEMMA ArmGoesOn ==
  ASSUME FragmentInv, InlineInv, ExpandInv, ResolveInv, UNCHANGED input,
         ExpandInv', NEW new, Len(stack') > 0, stack'[1] = new, new.file = Root,
         new.next = stack[1].next + 1,
         Len(stack[1].out) <= Len(new.out),
         \A offset \in Nat : offset < Len(stack[1].out) =>
           Resolve(new.map, offset) = Resolve(stack[1].map, offset),
         \A offset \in Nat : Len(stack[1].out) <= offset /\ offset < Len(new.out) =>
           Resolve(new.map, offset) = TakenFrom(stack[1].next)
  PROVE  ResolveInv'
<1> DEFINE old == stack[1]  E == ArmExpanded  n == Len(files[Root])
<1>1. ArmExpanded' = E /\ Lines' = Lines /\ Expansion' = Expansion
  <2>1. Expansion' = Expansion /\ Lines' = Lines
    BY ExpansionKept
  <2>2. ArmExpanded' = E
    BY <2>1 DEF input, ArmExpanded, LinesExpanded, LineAdded, Means, IncludeDirs
  <2> QED BY <2>1, <2>2
<1>2. \A i : TakenFrom(i)' = TakenFrom(i)
  BY DEF input, TakenFrom, Means, IncludeDirs
<1>3. /\ old.next \in Nat \ {0} /\ Len(old.out) \in Nat
      /\ E[old.next - 1].text = old.out
  BY ArmCall
<1>4. n \in Nat /\ DOMAIN E = 0 .. n /\ \A i \in 0 .. n : Len(E[i].text) \in Nat
  BY ArmLines DEF FragmentInv
<1>5. new.next - 1 \in 0 .. n /\ E[new.next - 1].text = new.out
  <2>1. CallExpanded(new, Expansion, Lines)
    <3>1. 1 \in 1 .. Len(stack')
      OBVIOUS
    <3> QED BY <1>1, <3>1 DEF ExpandInv
  <2>2. Lines[Root] = E
    BY ArmLines DEF FragmentInv
  <2> QED BY <1>4, <2>1, <2>2 DEF CallExpanded, Come
<1>6. \A i \in 1 .. old.next - 1 :
        /\ Len(E[i].text) <= Len(old.out)
        /\ \A offset \in Len(E[i - 1].text) .. Len(E[i].text) - 1 :
             Resolve(old.map, offset) = TakenFrom(i)
  BY DEF ResolveInv, ArmResolved
<1> HIDE DEF old, E, n
<1>7. new.next - 1 = old.next
  BY <1>3 DEF old
<1>8. ASSUME NEW i \in 1 .. old.next
      PROVE  /\ Len(E[i].text) <= Len(new.out)
             /\ \A offset \in Len(E[i - 1].text) .. Len(E[i].text) - 1 :
                  Resolve(new.map, offset) = TakenFrom(i)
  <2>1. i \in 0 .. n /\ i - 1 \in 0 .. n
    BY <1>3, <1>4, <1>5, <1>7
  <2>2. Len(E[i].text) \in Nat /\ Len(E[i - 1].text) \in Nat /\ Len(new.out) \in Nat
    BY <1>4, <1>5, <2>1
  <2>3. CASE i = old.next
    <3>1. E[i].text = new.out /\ E[i - 1].text = old.out
      BY <1>3, <1>5, <1>7, <2>3
    <3>2. ASSUME NEW offset \in Len(old.out) .. Len(new.out) - 1
          PROVE  Resolve(new.map, offset) = TakenFrom(old.next)
      <4>1. offset \in Nat /\ Len(old.out) <= offset /\ offset < Len(new.out)
        BY <1>3, <2>2
      <4> QED BY <4>1 DEF old
    <3> QED BY <2>2, <2>3, <3>1, <3>2
  <2>4. CASE i # old.next
    <3>1. i \in 1 .. old.next - 1
      BY <1>3, <2>4
    <3>2. Len(E[i].text) <= Len(old.out)
      BY <1>6, <3>1
    <3>3. ASSUME NEW offset \in Len(E[i - 1].text) .. Len(E[i].text) - 1
          PROVE  Resolve(new.map, offset) = TakenFrom(i)
      <4>1. offset \in Nat /\ offset < Len(old.out)
        BY <1>3, <2>2, <3>2
      <4>2. Resolve(new.map, offset) = Resolve(old.map, offset)
        BY <4>1 DEF old
      <4> QED BY <1>6, <3>1, <4>2
    <3>4. Len(E[i].text) <= Len(new.out)
      BY <1>3, <2>2, <3>2 DEF old
    <3> QED BY <3>3, <3>4
  <2> QED BY <2>3, <2>4
<1>9. ArmResolved(new)'
  BY <1>1, <1>2, <1>7, <1>8 DEF ArmResolved
<1> QED BY <1>9 DEF ResolveInv

LEMMA ArmEmits ==
  ASSUME FragmentInv, InlineInv, ExpandInv, ResolveInv, ExpandInv', AtLine,
         NEW out, NEW map, Emit(out, map), Len(Top.out) <= Len(out),
         \A offset \in Nat : offset < Len(Top.out) =>
           Resolve(map, offset) = Resolve(Top.map, offset),
         Top.file = Root =>
           \A offset \in Nat : Len(Top.out) <= offset /\ offset < Len(out) =>
             Resolve(map, offset) = TakenFrom(Top.next)
  PROVE  ResolveInv'
<1> DEFINE n   == Len(stack)
           new == [file |-> Top.file, next |-> Top.next + 1, out |-> out, map |-> map]
<1>1. /\ stack' = [stack EXCEPT ![n] = new] /\ UNCHANGED input
      /\ stack \in Seq(Frame) /\ n \in Nat \ {0}
  BY DEF Emit, FragmentInv, TypeOK, Chain
<1>2. CASE n = 1
  <2>1. Top = stack[1] /\ stack'[1] = new /\ Len(stack') > 0
    BY <1>1, <1>2 DEF Top
  <2>2. stack[1].file = Root
    BY ArmCall
  <2>3. new.file = Top.file /\ new.next = Top.next + 1 /\ new.out = out /\ new.map = map
    OBVIOUS
  <2> HIDE DEF new
  <2> QED BY <1>1, <2>1, <2>2, <2>3, ArmGoesOn
<1>3. CASE n # 1
  BY <1>1, <1>3, ArmKept
<1> QED BY <1>2, <1>3

LEMMA ResolveInit == Init => ResolveInv
<1> SUFFICES ASSUME Init PROVE ResolveInv
  OBVIOUS
<1>1. stack[1].next = 1
  BY DEF Init, NewFrame
<1> QED BY <1>1 DEF ResolveInv, ArmResolved

LEMMA EmitResolves ==
  ASSUME FragmentInv, InlineInv, ExpandInv, ResolveInv, ExpandInv',
         PassThrough \/ DeferCoordinate \/ IncludeCoordinate
  PROVE  ResolveInv'
<1>1. Top \in Frame /\ MapInside(Top.out, Top.map)
  <2>1. Len(stack) \in 1 .. Len(stack)
    BY DEF FragmentInv, TypeOK, Chain
  <2>2. Top \in Frame
    BY TopIsFrame DEF FragmentInv
  <2> QED BY <2>1, <2>2 DEF InlineInv, CallsRight, CallRight, Top
<1>2. /\ Top.out \in Seq(Byte) /\ Top.map \in Seq(Entry) /\ Len(Top.out) \in Nat
      /\ Top.next \in Nat
  BY <1>1 DEF Frame
<1>3. \A offset \in Nat : Len(Top.out) <= offset =>
        \A i \in DOMAIN Top.map : ~Covers(Top.map[i], offset)
  <2> SUFFICES ASSUME NEW offset \in Nat, Len(Top.out) <= offset, NEW i \in DOMAIN Top.map
               PROVE  ~Covers(Top.map[i], offset)
    OBVIOUS
  <2>1. /\ i \in 1 .. Len(Top.map)
        /\ Top.map[i].end \in Nat /\ Top.map[i].end <= Len(Top.out)
    BY <1>1, <1>2, EntriesInside
  <2> QED BY <1>2, <2>1 DEF Covers
<1>4. Text # Coordinate /\ Text \notin Names /\ Coordinate \notin Names
  BY PathsAssumption DEF Text, Coordinate
<1>5. CASE PassThrough
  <2> DEFINE b == <<Top.file, Top.next>>
  <2>1. AtLine /\ Line = Text /\ Emit(Top.out \o <<b, b>>, Top.map)
    BY <1>5 DEF PassThrough
  <2>2. Len(Top.out) <= Len(Top.out \o <<b, b>>)
    <3>1. b \in Byte
      BY <1>1 DEF Byte, Frame, Origins
    <3> HIDE DEF b
    <3> QED BY <1>2, <3>1
  <2>3. Top.file = Root =>
          \A offset \in Nat : Len(Top.out) <= offset => Resolve(Top.map, offset) = TakenFrom(Top.next)
    <3> SUFFICES ASSUME Top.file = Root, NEW offset \in Nat, Len(Top.out) <= offset
                 PROVE  Resolve(Top.map, offset) = TakenFrom(Top.next)
      OBVIOUS
    <3>1. Resolve(Top.map, offset) = Root
      BY <1>2, <1>3, ResolvesToArm
    <3>2. TakenFrom(Top.next) = Root
      BY <1>4, <2>1 DEF TakenFrom, Line
    <3> QED BY <3>1, <3>2
  <2> HIDE DEF b
  <2> QED BY <2>1, <2>2, <2>3, ArmEmits
<1>6. CASE DeferCoordinate
  <2> DEFINE e   == [start |-> Len(Top.out), end |-> Len(Top.out), file |-> DeferredMark]
             one == <<e>>
  <2>1. AtLine /\ Emit(Top.out, Append(Top.map, e))
    BY <1>6 DEF DeferCoordinate
  <2>2. e \in Entry /\ e.start = Len(Top.out) /\ e.end = e.start
    BY <1>2 DEF Entry
  <2> HIDE DEF e
  <2>3. one \in Seq(Entry) /\ Append(Top.map, e) = Top.map \o one /\ Len(one) = 1 /\ one[1] = e
    BY <1>2, <2>2
  <2>4. ASSUME NEW offset \in Nat
        PROVE  Resolve(Append(Top.map, e), offset) = Resolve(Top.map, offset)
    <3>1. \A k \in 1 .. Len(one) : ~Covers(one[k], offset)
      BY <1>2, <2>2, <2>3 DEF Covers
    <3> QED BY <1>2, <2>3, <3>1, ResolveKept
  <2> QED BY <1>2, <2>1, <2>4, ArmEmits
<1>7. CASE IncludeCoordinate
  <2> DEFINE text == << <<RegistryModule, 1>>, <<RegistryModule, 1>> >>
             out  == Inline(Top.out, text, RegistryModule)
             e    == [start |-> Len(Top.out), end |-> Len(out), file |-> RegistryModule]
             one  == <<e>>
  <2>1. /\ AtLine /\ Line = Coordinate
        /\ Done("deferred") \/ Done("retired") \/ Emit(out, Append(Top.map, e))
    BY <1>7 DEF IncludeCoordinate
  <2>2. text \in Seq(Byte) /\ RegistryModule \in Origins
    BY DEF Byte, Origins
  <2> HIDE DEF text
  <2>3. out \in Seq(Byte) /\ Len(out) \in Nat /\ Len(Top.out) <= Len(out)
    <3>1. out \in Seq(Byte) /\ Len(Top.out) + Len(text) <= Len(out)
      BY <1>2, <2>2, Inlining
    <3> QED BY <1>2, <2>2, <3>1
  <2> HIDE DEF out
  <2>4. /\ e \in Entry /\ e.start = Len(Top.out) /\ e.end = Len(out)
        /\ e.file = RegistryModule
    BY <1>2, <2>2, <2>3 DEF Entry
  <2> HIDE DEF e
  <2>5. /\ one \in Seq(Entry) /\ Append(Top.map, e) = Top.map \o one
        /\ Len(one) = 1 /\ one[1] = e
        /\ Append(Top.map, e) = Append(Top.map, e) \o <<>> /\ <<>> \in Seq(Entry)
    BY <1>2, <2>4
  <2>6. ASSUME NEW offset \in Nat, offset < Len(Top.out)
        PROVE  Resolve(Append(Top.map, e), offset) = Resolve(Top.map, offset)
    <3>1. \A k \in 1 .. Len(one) : ~Covers(one[k], offset)
      BY <1>2, <2>4, <2>5, <2>6 DEF Covers
    <3> QED BY <1>2, <2>5, <3>1, ResolveKept
  <2>7. ASSUME NEW offset \in Nat, Len(Top.out) <= offset, offset < Len(out), Top.file = Root
        PROVE  Resolve(Append(Top.map, e), offset) = TakenFrom(Top.next)
    <3>1. Covers(e, offset)
      BY <2>4, <2>7 DEF Covers
    <3>2. Resolve(Append(Top.map, e) \o <<>>, offset) = RegistryModule
      BY <1>2, <1>3, <2>4, <2>5, <2>7, <3>1, ResolvesToOwn
    <3>3. TakenFrom(Top.next) = RegistryModule
      BY <1>4, <2>1, <2>7 DEF TakenFrom, Line
    <3> QED BY <2>5, <3>2, <3>3
  <2>8. CASE Emit(out, Append(Top.map, e))
    BY <2>1, <2>3, <2>6, <2>7, <2>8, ArmEmits
  <2>9. CASE Done("deferred") \/ Done("retired")
    BY <2>9, ArmKept DEF Done
  <2> QED BY <2>1, <2>8, <2>9
<1> QED BY <1>5, <1>6, <1>7

LEMMA ReturnResolves ==
  ASSUME FragmentInv, InlineInv, ExpandInv, ResolveInv, ExpandInv', ReturnToIncluder
  PROVE  ResolveInv'
<1> DEFINE n   == Len(stack)
           up  == stack[n - 1]
           f   == Top.file
           out == Inline(up.out, Top.out, f)
           own == [start |-> Len(up.out), end |-> Len(out), file |-> f]
           inner == Shifted(Top.map, Len(up.out))
<1>1. /\ n \in Nat /\ n > 1 /\ UNCHANGED input /\ stack \in Seq(Frame)
      /\ n - 1 \in 1 .. n /\ n \in 1 .. n /\ n \in 2 .. n
  BY DEF ReturnToIncluder, FragmentInv, TypeOK
<1>2. /\ Len(stack') = n - 1 /\ stack'[n - 1] = Returned
      /\ \A i \in 1 .. n - 2 : stack'[i] = stack[i]
  BY ReturnIsCall
<1>3. CASE n > 2
  <2>1. 1 \in 1 .. n - 2
    BY <1>1, <1>3
  <2> QED BY <1>1, <1>2, <2>1, ArmKept
<1>4. CASE n = 2
  <2>1. /\ up = stack[1] /\ Top = stack[2] /\ f \in Files /\ f \in Origins /\ Top \in Frame
        /\ MapInside(Top.out, Top.map)
    <3>1. f \in Files
      BY <1>1 DEF FragmentInv, Chain, Top
    <3>2. Top \in Frame /\ CallRight(Top, LineGraph, IncludeGraph)
      BY <1>1, TopIsFrame DEF FragmentInv, InlineInv, CallsRight, Top
    <3> QED BY <1>4, <3>1, <3>2 DEF Top, Origins, CallRight
  <2>2. /\ up \in Frame /\ up.file = Root /\ up.out \in Seq(Byte) /\ up.map \in Seq(Entry)
        /\ up.next \in Nat \ {0} /\ Len(up.out) \in Nat /\ MapInside(up.out, up.map)
    BY <2>1, ArmCall
  <2>3. Top.out \in Seq(Byte) /\ Top.map \in Seq(Entry)
    BY <2>1 DEF Frame
  <2>4. /\ Returned.file = up.file /\ Returned.next = up.next + 1
        /\ Returned.out = out /\ Returned.map = Append(up.map, own) \o inner
    BY <2>2 DEF Returned, Frame
  <2>5. /\ own \in Entry /\ inner \in Seq(Entry)
        /\ \A k \in 1 .. Len(inner) : inner[k].start >= Len(up.out)
    BY <2>1, <2>2, <2>3, InlinedInside
  <2>6. out \in Seq(Byte) /\ Len(out) \in Nat /\ Len(up.out) <= Len(out)
    <3> HIDE DEF up, f
    <3>1. out \in Seq(Byte)
      BY <2>1, <2>2, <2>3, Inlining
    <3>2. Len(up.out) <= Len(out)
      BY <2>1, <2>2, <2>3, Inlining
    <3> HIDE DEF out
    <3>3. Len(out) \in Nat
      BY <3>1
    <3> QED BY <3>1, <3>2, <3>3
  <2>7. own.start = Len(up.out) /\ own.end = Len(out) /\ own.file = f
    OBVIOUS
  <2>8. <<Root, up.next, f>> \in LineGraph
    BY <1>1, <1>4, <2>1, <2>2 DEF InlineInv, Pending
  <2>9. TakenFrom(up.next) = f
    <3>1. files[Root][up.next] \in Names /\ Means(Root, files[Root][up.next], f)
      BY <2>8 DEF LineGraph
    <3>2. files[Root][up.next] # Text /\ files[Root][up.next] # Coordinate
      BY <3>1, PathsAssumption
    <3> DEFINE g == CHOOSE h \in Files : Means(Root, files[Root][up.next], h)
    <3>3. g \in Files /\ Means(Root, files[Root][up.next], g)
      BY <2>1, <3>1
    <3>4. g = f
      BY <2>1, <3>1, <3>3, MeansOne DEF FragmentInv, Nodes
    <3>5. TakenFrom(up.next) = g
      BY <3>1, <3>2 DEF TakenFrom
    <3> QED BY <3>4, <3>5
  <2> HIDE DEF own, out, inner, f
  <2>10. ASSUME NEW offset \in Nat, offset < Len(up.out)
         PROVE  Resolve(Returned.map, offset) = Resolve(up.map, offset)
    <3> DEFINE one  == <<own>>
               tail == one \o inner
    <3>1. /\ one \in Seq(Entry) /\ Len(one) = 1 /\ one[1] = own
          /\ Append(up.map, own) = up.map \o one
      BY <2>2, <2>5
    <3> HIDE DEF one
    <3>2. tail \in Seq(Entry)
      BY <2>5, <3>1
    <3>a. Append(up.map, own) \o inner = up.map \o tail
      <4>1. up.map \in Seq(Entry) /\ inner \in Seq(Entry) /\ one \in Seq(Entry)
        BY <2>2, <2>5, <3>1
      <4> HIDE DEF up
      <4>2. (up.map \o one) \o inner = up.map \o (one \o inner)
        BY <4>1, Associates, Zenon
      <4> QED BY <3>1, <4>2
    <3>3. /\ Len(tail) = 1 + Len(inner) /\ Len(inner) \in Nat /\ tail[1] = own
          /\ \A k \in 1 .. Len(inner) : tail[1 + k] = inner[k]
      BY <2>5, <3>1, Joined
    <3> HIDE DEF tail
    <3>4. ASSUME NEW k \in 1 .. Len(tail) PROVE ~Covers(tail[k], offset)
      <4>1. CASE k = 1
        BY <2>2, <2>7, <2>10, <3>3, <4>1 DEF Covers
      <4>2. CASE k # 1
        <5>1. k - 1 \in 1 .. Len(inner) /\ 1 + (k - 1) = k
          BY <3>3, <4>2
        <5>2. tail[k] = inner[k - 1] /\ inner[k - 1] \in Entry /\ inner[k - 1].start >= Len(up.out)
          BY <2>5, <3>3, <5>1
        <5> QED BY <2>2, <2>10, <5>2 DEF Covers, Entry
      <4> QED BY <4>1, <4>2
    <3>5. Resolve(up.map \o tail, offset) = Resolve(up.map, offset)
      BY <2>2, <3>2, <3>4, ResolveKept
    <3> QED BY <2>4, <3>a, <3>5
  <2>11. ASSUME NEW offset \in Nat, Len(up.out) <= offset, offset < Len(out)
         PROVE  Resolve(Returned.map, offset) = TakenFrom(up.next)
    <3>1. Covers(own, offset)
      BY <2>7, <2>11 DEF Covers
    <3>2. ASSUME NEW i \in DOMAIN up.map PROVE ~Covers(up.map[i], offset)
      <4>1. /\ i \in 1 .. Len(up.map)
            /\ up.map[i].end \in Nat /\ up.map[i].end <= Len(up.out)
        BY <2>2, EntriesInside
      <4> QED BY <2>2, <2>11, <4>1 DEF Covers
    <3>3. Resolve(Append(up.map, own) \o inner, offset) = own.file
      BY <2>2, <2>5, <3>1, <3>2, ResolvesToOwn
    <3> QED BY <2>4, <2>7, <2>9, <3>3
  <2>12. Len(stack') > 0 /\ stack'[1] = Returned
    BY <1>1, <1>2, <1>4
  <2> HIDE DEF up
  <2>13. /\ Returned.file = Root /\ Returned.next = stack[1].next + 1
         /\ Len(stack[1].out) <= Len(Returned.out)
    BY <2>1, <2>2, <2>4, <2>6
  <2>14. \A offset \in Nat : offset < Len(stack[1].out) =>
           Resolve(Returned.map, offset) = Resolve(stack[1].map, offset)
    BY <2>1, <2>10
  <2>15. \A offset \in Nat : Len(stack[1].out) <= offset /\ offset < Len(Returned.out) =>
           Resolve(Returned.map, offset) = TakenFrom(stack[1].next)
    BY <2>1, <2>4, <2>11
  <2> QED BY <1>1, <2>12, <2>13, <2>14, <2>15, ArmGoesOn
<1> HIDE DEF n
<1>5. n > 2 \/ n = 2
  <2>1. n \in Nat /\ n > 1
    BY <1>1
  <2> QED BY <2>1
<1> QED BY <1>3, <1>4, <1>5

LEMMA ResolveStep ==
  FragmentInv /\ InlineInv /\ ExpandInv /\ ResolveInv /\ ExpandInv' /\ [Next]_vars => ResolveInv'
<1> SUFFICES ASSUME FragmentInv, InlineInv, ExpandInv, ResolveInv, ExpandInv', [Next]_vars
             PROVE  ResolveInv'
  OBVIOUS
<1>1. CASE PassThrough \/ DeferCoordinate \/ IncludeCoordinate
  BY <1>1, EmitResolves
<1>2. CASE FileNotFound \/ CircularInclude \/ BrokenFile \/ Finish
  BY <1>2, ArmKept DEF FileNotFound, CircularInclude, BrokenFile, Finish, Done
<1>3. CASE EnterFile
  <2>1. PICK f \in Files : stack' = Append(stack, NewFrame(f))
    BY <1>3 DEF EnterFile
  <2>2. stack \in Seq(Frame) /\ Len(stack) > 0 /\ NewFrame(f) \in Frame
    BY DEF FragmentInv, TypeOK, Chain, NewFrame, Frame
  <2>3. stack'[1] = stack[1]
    BY <2>1, <2>2
  <2> QED BY <1>3, <2>3, ArmKept DEF EnterFile
<1>4. CASE ReturnToIncluder
  BY <1>4, ReturnResolves
<1>5. CASE UNCHANGED vars
  BY <1>5, ArmKept DEF vars
<1> QED BY <1>1, <1>2, <1>3, <1>4, <1>5 DEF Next

LEMMA ResolveAlways == Spec => []ResolveInv
  BY ResolveInit, ResolveStep, FragmentAlways, InlineAlways, ExpandAlways, PTL DEF Spec
----------------------------------------------------------------------------
(* Every call of expand_includes works on lines, text and a source map of  *)
(* the right shape, however deep the includes are nested.                  *)
THEOREM FragmentTypeCorrect == Spec => []TypeOK
<1>1. FragmentInv => TypeOK
  BY DEF FragmentInv
<1> QED BY <1>1, FragmentAlways, PTL

(* No fragment is ever expanded inside its own expansion, so the recursion *)
(* is never deeper than there are fragments.                               *)
THEOREM NoReentryCorrect == Spec => []NoReentry
<1>1. FragmentInv => NoReentry
  BY DEF FragmentInv
<1> QED BY <1>1, FragmentAlways, PTL

(* FragmentError::CircularInclude is only raised for fragments that do     *)
(* include each other in a circle the arm reaches, and names them.         *)
THEOREM CycleIsRealCorrect == Spec => []CycleIsReal
<1>1. FragmentInv => CycleIsReal
  BY DEF FragmentInv
<1> QED BY <1>1, FragmentAlways, PTL

(* An expansion that succeeds has met no circular include: the fragments   *)
(* the arm reaches include each other in no circle, whatever the order in  *)
(* which they were expanded.                                               *)
THEOREM OkMeansAcyclicCorrect == Spec => []OkMeansAcyclic
<1>1. FragmentInv /\ InlineInv => OkMeansAcyclic
  <2> SUFFICES ASSUME FragmentInv, InlineInv, outcome = "ok"
               PROVE  Acyclic(Reached, IncludeGraph)
    BY DEF OkMeansAcyclic
  <2>1. Acyclic(Inlined(Top.map), IncludeGraph) /\ Reached \subseteq Inlined(Top.map)
    BY OkReachesInlined DEF CallRight
  <2> QED BY <2>1 DEF Acyclic
<1> QED BY <1>1, FragmentAlways, InlineAlways, PTL

(* SourceMap::resolve leads every byte of a successful expansion to the    *)
(* file that the arm's own line includes, whatever entries the includes    *)
(* inside that file left in the map, and the arm's own bytes to the arm.   *)
THEOREM ResolvesToArmsIncludeCorrect == Spec => []ResolvesToArmsInclude
<1>1. FragmentInv /\ InlineInv /\ ExpandInv /\ ResolveInv => ResolvesToArmsInclude
  <2> SUFFICES ASSUME FragmentInv, InlineInv, ExpandInv, ResolveInv, outcome = "ok"
               PROVE  \A i \in 1 .. Len(files[Root]) :
                        \A offset \in Len(ArmExpanded[i - 1].text) .. Len(ArmExpanded[i].text) - 1 :
                          Resolve(Top.map, offset) = TakenFrom(i)
    BY DEF ResolvesToArmsInclude
  <2>1. Top = stack[1] /\ Top.next > Len(files[Root])
    BY DEF InlineInv, OkAtEnd, Top
  <2>2. Len(files[Root]) \in Nat /\ Top.next - 1 \in 0 .. Len(files[Root]) /\ Top.next \in Nat
    <3>1. Len(files[Root]) \in Nat
      BY ArmLines DEF FragmentInv
    <3> QED BY <2>1, <3>1, ArmCall
  <2>3. Top.next - 1 = Len(files[Root])
    BY <2>1, <2>2
  <2> QED BY <2>1, <2>3 DEF ResolveInv, ArmResolved
<1> QED BY <1>1, FragmentAlways, InlineAlways, ExpandAlways, ResolveAlways, PTL

(* expand_includes computes what the nested includes mean: the text of a   *)
(* successful expansion is, byte by byte, that of the recursive            *)
(* replacement of every include by the file it means.                      *)
THEOREM OutputIsExpansionCorrect == Spec => []OutputIsExpansion
<1>1. FragmentInv /\ InlineInv /\ ExpandInv => OutputIsExpansion
  BY OkIsExpanded DEF OutputIsExpansion, Come
<1> QED BY <1>1, FragmentAlways, InlineAlways, ExpandAlways, PTL

(* Every registry coordinate the expansion drops is in its source map,     *)
(* once for every time the line comes up, however deep.                    *)
THEOREM EveryDropMarkedCorrect == Spec => []EveryDropMarked
<1>1. FragmentInv /\ InlineInv /\ ExpandInv => EveryDropMarked
  BY OkIsExpanded DEF EveryDropMarked, Come, Marks, Marked
<1> QED BY <1>1, FragmentAlways, InlineAlways, ExpandAlways, PTL
============================================================================
