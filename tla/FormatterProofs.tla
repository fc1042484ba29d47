--------------------------- MODULE FormatterProofs ---------------------------
(***************************************************************************)
(* Proofs about the formatter for layouts of any size: its result is       *)
(* canonical, and formatting it again changes nothing.                     *)
(***************************************************************************)
EXTENDS Formatter, WellFoundedInduction, TLAPS

(* What FormatBody does to entry k. *)
LEMMA EntryFormatted ==
  ASSUME NEW body
  PROVE  /\ DOMAIN FormatBody(body).entries = DOMAIN body.entries
         /\ \A k \in DOMAIN body.entries :
              FormatBody(body).entries[k] = FormatEntry(body.level, body.entries, k)
         /\ FormatBody(body).level = body.level
  BY DEF FormatBody

(* Formatting an entry keeps what runs are made of. *)
LEMMA EntryKept ==
  ASSUME NEW body \in Body, NEW k \in DOMAIN body.entries
  PROVE  LET old == body.entries[k]
             new == FormatEntry(body.level, body.entries, k)
         IN  /\ new.kind = old.kind
             /\ new.blank = 0 <=> old.blank = 0
             /\ old.kind = "attribute" => new.key = old.key /\ new.multi = old.multi
  <1>1. body.entries[k] \in Attribute \cup Block
    BY DEF Body
  <1>2. CASE body.entries[k] \in Attribute
    BY <1>2 DEF FormatEntry, Blanks, Attribute
  <1>3. CASE body.entries[k] \in Block
    BY <1>3 DEF FormatEntry, Blanks, Block
  <1> QED BY <1>1, <1>2, <1>3

(* The runs of a body are those it had before. *)
LEMMA RunsKept ==
  ASSUME NEW body \in Body,
         NEW i \in DOMAIN body.entries, NEW j \in DOMAIN body.entries
  PROVE  OneRun(FormatBody(body).entries, i, j) <=> OneRun(body.entries, i, j)
  <1> DEFINE old == body.entries
             new == FormatBody(body).entries
  <1>1. \A k \in DOMAIN old : Aligns(new[k]) <=> Aligns(old[k])
    BY EntryFormatted, EntryKept DEF Aligns
  <1>2. \A k \in DOMAIN old : new[k].blank = 0 <=> old[k].blank = 0
    BY EntryFormatted, EntryKept
  <1>3. DOMAIN new = DOMAIN old
    BY EntryFormatted
  <1> HIDE DEF old, new
  <1>4. OneRun(new, i, j) <=> OneRun(old, i, j)
    BY <1>1, <1>2, <1>3 DEF OneRun, old
  <1> QED BY <1>4 DEF old, new

(* Formatting has the same padding the second time. *)
LEMMA PadKept ==
  ASSUME NEW body \in Body, NEW k \in DOMAIN body.entries,
         body.entries[k].kind = "attribute"
  PROVE  Pad(FormatBody(body).entries, k) = Pad(body.entries, k)
  <1> DEFINE old  == body.entries
             new  == FormatBody(body).entries
             Run(entries) == {entries[j].key : j \in {i \in DOMAIN entries : OneRun(entries, i, k)}}
  <1>1. DOMAIN new = DOMAIN old
    BY EntryFormatted
  <1>2. \A j \in DOMAIN old : OneRun(old, j, k) => new[j].key = old[j].key
    BY EntryFormatted, EntryKept DEF OneRun, Aligns
  <1>3. \A j \in DOMAIN old : OneRun(new, j, k) <=> OneRun(old, j, k)
    BY RunsKept
  <1>4. Run(new) = Run(old)
    <2> HIDE DEF old, new
    <2> QED BY <1>1, <1>2, <1>3
  <1>5. LongestKey(new, k) = LongestKey(old, k)
    BY <1>4 DEF LongestKey
  <1>6. /\ Aligns(new[k]) <=> Aligns(old[k])
        /\ new[k].key = old[k].key
    BY EntryFormatted, EntryKept DEF Aligns
  <1> HIDE DEF old, new
  <1>7. Pad(new, k) = Pad(old, k)
    BY <1>5, <1>6 DEF Pad
  <1> QED BY <1>7 DEF old, new

(* Formatting has the same blank lines the second time. *)
LEMMA BlanksKept ==
  ASSUME NEW body \in Body, NEW k \in DOMAIN body.entries
  PROVE  /\ FormatBody(body).entries[k].blank = Blanks(body.entries, k)
         /\ Blanks(FormatBody(body).entries, k) = Blanks(body.entries, k)
  <1>1. FormatEntry(body.level, body.entries, k).blank = Blanks(body.entries, k)
    <2>1. CASE body.entries[k].kind = "attribute"
      BY <2>1 DEF FormatEntry
    <2>2. CASE body.entries[k].kind # "attribute"
      BY <2>2 DEF FormatEntry
    <2> QED BY <2>1, <2>2
  <1>2. FormatBody(body).entries[k].blank = Blanks(body.entries, k)
    BY <1>1, EntryFormatted
  <1>3. Blanks(FormatBody(body).entries, k) = Blanks(body.entries, k)
    BY <1>2 DEF Blanks
  <1> QED BY <1>2, <1>3

(* No comment that began on an earlier line ends before a key any more.    *)
LEMMA NothingToTear ==
  ASSUME NEW layout
  PROVE  ~Tears(FormatLayout(layout))
  <1>1. SUFFICES ASSUME NEW b \in DOMAIN layout, NEW k \in DOMAIN layout[b].entries,
                        FormatBody(layout[b]).entries[k].kind = "attribute"
                 PROVE  FormatBody(layout[b]).entries[k].inline # "tail"
    BY DEF Tears, FormatLayout, FormatBody
  <1>2. FormatBody(layout[b]).entries[k] = FormatEntry(layout[b].level, layout[b].entries, k)
    BY EntryFormatted
  <1>3. CASE layout[b].entries[k].kind = "attribute"
    BY <1>2, <1>3 DEF FormatEntry
  <1>4. CASE layout[b].entries[k].kind # "attribute"
    BY <1>1, <1>2, <1>4 DEF FormatEntry
  <1> QED BY <1>3, <1>4

(* Formatting a text that fmt can format, once more, changes nothing: fmt  *)
(* does not tear a comment of what it wrote, and fmt --check passes.       *)
THEOREM FormatIdempotent ==
  ASSUME NEW layout \in Layout, ~Tears(layout)
  PROVE  /\ ~Tears(FormatLayout(layout))
         /\ FormatLayout(FormatLayout(layout)) = FormatLayout(layout)
  <1>1. ASSUME NEW body \in Body
        PROVE  FormatBody(FormatBody(body)) = FormatBody(body)
    <2> DEFINE new == FormatBody(body)
    <2>1. ASSUME NEW k \in DOMAIN body.entries
          PROVE  FormatEntry(new.level, new.entries, k) = FormatEntry(body.level, body.entries, k)
      <3>1. new.entries[k].kind = body.entries[k].kind
        BY EntryFormatted, EntryKept
      <3>2. CASE body.entries[k].kind = "attribute"
        <4>1. /\ new.entries[k].key = body.entries[k].key
              /\ new.entries[k].multi = body.entries[k].multi
          BY <3>2, EntryFormatted, EntryKept
        <4> QED BY <3>1, <3>2, <4>1, PadKept, BlanksKept, EntryFormatted DEF FormatEntry
      <3>3. CASE body.entries[k].kind # "attribute"
        BY <3>1, <3>3, BlanksKept DEF FormatEntry
      <3> QED BY <3>2, <3>3
    <2> QED BY <2>1, EntryFormatted DEF FormatBody
  <1>2. DOMAIN FormatLayout(layout) = DOMAIN layout
    BY DEF FormatLayout
  <1>3. \A b \in DOMAIN layout : layout[b] \in Body
    BY DEF Layout
  <1>4. FormatLayout(FormatLayout(layout)) = FormatLayout(layout)
    BY <1>1, <1>2, <1>3 DEF FormatLayout
  <1> QED BY <1>4, NothingToTear
----------------------------------------------------------------------------
(* The order a least counterexample is taken by. *)
LEMMA BelowIsLess ==
  ASSUME NEW x \in Nat, NEW y \in Nat, y < x
  PROVE  <<y, x>> \in OpToRel(<, Nat)
  <1>1. /\ <<y, x>> \in Nat \X Nat
        /\ <<y, x>>[1] = y
        /\ <<y, x>>[2] = x
    OBVIOUS
  <1>2. <<y, x>>[1] < <<y, x>>[2]
    BY <1>1
  <1>3. <<y, x>> \in {ss \in Nat \X Nat : ss[1] < ss[2]}
    BY <1>1, <1>2, Zenon
  <1> QED BY <1>3, Zenon DEF OpToRel

(* Among finitely many places one has the largest number: the first bound  *)
(* below which there is none would be beaten by the place it ends with or  *)
(* by the largest before it.                                               *)
LEMMA LargestExists ==
  ASSUME NEW n \in Nat, NEW D \in SUBSET (1..n), D # {}, NEW f \in [D -> Nat]
  PROVE  \E i \in D : \A j \in D : f[j] <= f[i]
  <1> DEFINE Upto(m)    == D \cap (1..m)
             HasLargest(m) == \E i \in Upto(m) : \A j \in Upto(m) : f[j] <= f[i]
             Bad        == {m \in Nat : Upto(m) # {} /\ ~HasLargest(m)}
  <1>1. SUFFICES ASSUME Bad # {} PROVE FALSE
    <2>1. Upto(n) = D
      OBVIOUS
    <2> QED BY <2>1
  <1>2. PICK m \in Bad : \A k \in Bad : ~(<<k, m>> \in OpToRel(<, Nat))
    <2>1. Bad \subseteq Nat
      OBVIOUS
    <2> HIDE DEF Bad
    <2> QED BY <1>1, <2>1, NatLessThanWellFounded, WFMin
  <1>3. m \in Nat /\ Upto(m) # {} /\ ~HasLargest(m)
    OBVIOUS
  <1>4. m # 0 /\ m - 1 \in Nat /\ m - 1 < m
    BY <1>3
  <1>5. m - 1 \notin Bad
    <2> HIDE DEF Bad
    <2> QED BY <1>2, <1>3, <1>4, BelowIsLess
  <1>6. Upto(m - 1) = Upto(m) \ {m}
    BY <1>3, <1>4
  <1>7. Upto(m) # {m}
    BY <1>3
  <1>8. PICK i \in Upto(m) \ {m} : \A j \in Upto(m) \ {m} : f[j] <= f[i]
    <2>1. Upto(m - 1) # {}
      BY <1>3, <1>6, <1>7
    <2>2. HasLargest(m - 1)
      BY <1>4, <1>5, <2>1
    <2> HIDE DEF Upto
    <2> QED BY <1>6, <2>2
  <1>9. m \in Upto(m) /\ f[i] < f[m]
    <2>1. ~(\A j \in Upto(m) : f[j] <= f[i])
      BY <1>3, <1>8
    <2> HIDE DEF Upto
    <2>2. PICK j \in Upto(m) : ~(f[j] <= f[i])
      BY <2>1
    <2>3. j = m
      BY <1>8, <2>2
    <2>4. f[j] \in Nat /\ f[i] \in Nat
      BY <1>8, <2>2 DEF Upto
    <2> QED BY <2>2, <2>3, <2>4
  <1>10. \A j \in Upto(m) : f[j] <= f[m]
    BY <1>8, <1>9
  <1> QED BY <1>3, <1>9, <1>10

(* The longest key of a run is the key of one of its members, and no       *)
(* member has a longer one.                                                *)
LEMMA LongestKeyIsLongest ==
  ASSUME NEW body \in Body, NEW k \in DOMAIN body.entries, Aligns(body.entries[k])
  PROVE  /\ \E j \in DOMAIN body.entries : /\ OneRun(body.entries, j, k)
                                          /\ body.entries[j].key = LongestKey(body.entries, k)
         /\ \A j \in DOMAIN body.entries :
              OneRun(body.entries, j, k) => body.entries[j].key <= LongestKey(body.entries, k)
         /\ LongestKey(body.entries, k) \in Nat
  <1> DEFINE entries == body.entries
             Run   == {i \in DOMAIN entries : OneRun(entries, i, k)}
             keys  == {entries[j].key : j \in Run}
             f     == [j \in Run |-> entries[j].key]
  <1>1. entries \in Seq(Attribute \cup Block) /\ DOMAIN entries = 1..Len(entries) /\ Len(entries) \in Nat
    BY DEF Body
  <1>2. \A j \in DOMAIN entries : Aligns(entries[j]) => entries[j].key \in Nat
    BY <1>1 DEF Aligns, Attribute, Block
  <1>3. k \in Run
    <2>1. \A j \in DOMAIN entries : ~Follows(j, k, k)
      BY <1>1 DEF Follows
    <2> QED BY <2>1 DEF OneRun
  <1>4. f \in [Run -> Nat]
    BY <1>2 DEF OneRun
  <1>5. PICK i \in Run : \A j \in Run : f[j] <= f[i]
    <2>1. Run \in SUBSET (1..Len(entries)) /\ Run # {}
      BY <1>1, <1>3
    <2> HIDE DEF Run, f
    <2> QED BY <1>1, <1>4, <2>1, LargestExists
  <1>6. entries[i].key \in keys /\ \A x \in keys : entries[i].key >= x
    <2>1. \A j \in Run : entries[j].key <= entries[i].key
      BY <1>5
    <2>2. \A j \in Run : entries[j].key \in Nat
      BY <1>2 DEF OneRun
    <2> HIDE DEF Run, entries
    <2> QED BY <1>5, <2>1, <2>2
  <1>7. LongestKey(entries, k) \in keys /\ \A x \in keys : LongestKey(entries, k) >= x
    <2>1. LongestKey(entries, k) = CHOOSE x \in keys : \A y \in keys : x >= y
      BY DEF LongestKey, Max
    <2> HIDE DEF keys
    <2> QED BY <1>6, <2>1
  <1>8. \A j \in Run : entries[j].key \in Nat
    BY <1>2 DEF OneRun
  <1> QED BY <1>7, <1>8

(* Runs do not overlap: entries of one run share its longest key.          *)
LEMMA RunShared ==
  ASSUME NEW body \in Body,
         NEW j \in DOMAIN body.entries, NEW k \in DOMAIN body.entries,
         OneRun(body.entries, j, k)
  PROVE  LongestKey(body.entries, j) = LongestKey(body.entries, k)
  <1> DEFINE entries == body.entries
             Run(m) == {i \in DOMAIN entries : OneRun(entries, i, m)}
  <1>1. DOMAIN entries = 1..Len(entries) /\ Len(entries) \in Nat
    BY DEF Body
  <1>2. \A i \in DOMAIN entries : OneRun(entries, i, j) <=> OneRun(entries, i, k)
    <2>1. \A i, m \in DOMAIN entries :
            /\ Follows(m, i, k) => Follows(m, i, j) \/ Follows(m, j, k)
            /\ Follows(m, i, j) => Follows(m, i, k) \/ Follows(m, j, k)
      <3> HIDE DEF entries
      <3> QED BY <1>1 DEF Follows, entries
    <2> HIDE DEF entries
    <2>2. OneRun(entries, j, k)
      BY DEF entries
    <2> QED BY <2>1, <2>2 DEF OneRun, entries
  <1>3. Run(j) = Run(k)
    BY <1>2
  <1>4. {entries[i].key : i \in Run(j)} = {entries[i].key : i \in Run(k)}
    <2> HIDE DEF Run
    <2> QED BY <1>3
  <1> QED BY <1>4 DEF LongestKey

(* An entry that aligns is in its own run. *)
LEMMA RunReflexive ==
  ASSUME NEW body \in Body, NEW k \in DOMAIN body.entries, Aligns(body.entries[k])
  PROVE  OneRun(body.entries, k, k)
  <1>1. DOMAIN body.entries \subseteq Nat
    BY DEF Body
  <1>2. \A j \in DOMAIN body.entries : ~Follows(j, k, k)
    BY <1>1 DEF Follows
  <1> QED BY <1>2 DEF OneRun

(* The padding behind a key is what it lacks to the longest, and one.      *)
LEMMA PadIsNat ==
  ASSUME NEW body \in Body, NEW k \in DOMAIN body.entries,
         body.entries[k].kind = "attribute"
  PROVE  Pad(body.entries, k) \in Nat /\ Pad(body.entries, k) >= 1
  <1>1. CASE Aligns(body.entries[k])
    <2>1. body.entries[k].key \in Nat
      BY <1>1 DEF Body, Aligns, Attribute, Block
    <2>2. /\ LongestKey(body.entries, k) \in Nat
          /\ body.entries[k].key <= LongestKey(body.entries, k)
      BY <1>1, LongestKeyIsLongest, RunReflexive
    <2> QED BY <1>1, <2>1, <2>2 DEF Pad
  <1>2. CASE ~Aligns(body.entries[k])
    BY <1>2 DEF Pad
  <1> QED BY <1>1, <1>2

(* Formatting a body gives a body. *)
LEMMA FormatBodyType ==
  ASSUME NEW body \in Body
  PROVE  FormatBody(body) \in Body
  <1>1. ASSUME NEW k \in DOMAIN body.entries
        PROVE  FormatEntry(body.level, body.entries, k) \in Attribute \cup Block
    <2>1. body.entries[k] \in Attribute \cup Block /\ body.level \in Nat
      BY DEF Body
    <2>2. Blanks(body.entries, k) \in Nat
      BY <2>1 DEF Blanks, Attribute, Block
    <2>3. CASE body.entries[k].kind = "attribute"
      <3>1. body.entries[k].key \in Nat /\ body.entries[k].multi \in BOOLEAN
        BY <2>1, <2>3 DEF Attribute, Block
      <3>2. 2 * body.level \in Nat
        BY <2>1
      <3>3. Pad(body.entries, k) \in Nat
        BY <2>3, PadIsNat
      <3> QED BY <2>2, <2>3, <3>1, <3>2, <3>3 DEF FormatEntry, Attribute
    <2>4. CASE body.entries[k].kind # "attribute"
      BY <2>2, <2>4 DEF FormatEntry, Block
    <2> QED BY <2>3, <2>4
  <1>2. DOMAIN body.entries = 1..Len(body.entries) /\ Len(body.entries) \in Nat /\ body.level \in Nat
    BY DEF Body
  <1>3. [k \in DOMAIN body.entries |-> FormatEntry(body.level, body.entries, k)]
          \in Seq(Attribute \cup Block)
    BY <1>1, <1>2
  <1> QED BY <1>2, <1>3 DEF FormatBody, Body

(* What fmt writes, unless it tears a comment, is what the comments of the *)
(* visitor call canonical: in every body the = of a run stand in one       *)
(* column, as far left as the longest key allows, keys are indented by     *)
(* level, no comment is left beside a key, and no two blank lines follow   *)
(* each other.                                                             *)
THEOREM FormatCanonical ==
  ASSUME NEW layout \in Layout, ~Tears(layout)
  PROVE  \A b \in DOMAIN layout : Canonical(FormatLayout(layout)[b])
  <1>1. ASSUME NEW body \in Body
        PROVE  Canonical(FormatBody(body))
    <2> DEFINE old == body.entries
               new == FormatBody(body).entries
    <2>1. DOMAIN new = DOMAIN old /\ DOMAIN old = 1..Len(old) /\ Len(old) \in Nat /\ Len(new) = Len(old)
      <3>1. DOMAIN new = DOMAIN old
        BY EntryFormatted
      <3>2. old \in Seq(Attribute \cup Block) /\ new \in Seq(Attribute \cup Block)
        BY FormatBodyType DEF Body
      <3> HIDE DEF old, new
      <3> QED BY <3>1, <3>2
    <2>2. \A k \in DOMAIN old : new[k].kind = old[k].kind /\ (Aligns(new[k]) <=> Aligns(old[k]))
      BY EntryFormatted, EntryKept DEF Aligns
    <2>3. \A k \in DOMAIN old : old[k].kind = "attribute" =>
             /\ new[k].key = old[k].key /\ new[k].pad = Pad(old, k)
             /\ new[k].indent = 2 * body.level /\ new[k].inline = "none"
             /\ new[k].beside = FALSE /\ new[k].after = 1
      <3>1. SUFFICES ASSUME NEW k \in DOMAIN old, old[k].kind = "attribute"
                     PROVE  /\ new[k].key = old[k].key /\ new[k].pad = Pad(old, k)
                            /\ new[k].indent = 2 * body.level
                            /\ new[k].inline = "none" /\ new[k].beside = FALSE
                            /\ new[k].after = 1
        OBVIOUS
      <3>2. new[k] = FormatEntry(body.level, old, k)
        BY EntryFormatted
      <3>3. new[k] = [kind |-> "attribute", key |-> old[k].key, multi |-> old[k].multi,
                      indent |-> 2 * body.level, inline |-> "none", beside |-> FALSE,
                      pad |-> Pad(old, k), after |-> 1, blank |-> Blanks(old, k)]
        <4> HIDE DEF old, new
        <4> QED BY <3>1, <3>2 DEF FormatEntry
      <3> HIDE DEF old, new
      <3> QED BY <3>3
    <2>4. \A k \in DOMAIN old : old[k].kind = "attribute" => old[k].key \in Nat
      BY DEF Body, Attribute, Block
    <2>5. AlignedPairs(new)
      <3>1. SUFFICES ASSUME NEW k \in 2..Len(new),
                            Aligns(new[k - 1]), Aligns(new[k]), new[k].blank = 0
                     PROVE  new[k - 1].key + new[k - 1].pad = new[k].key + new[k].pad
        BY DEF AlignedPairs
      <3>2. k \in DOMAIN old /\ k - 1 \in DOMAIN old
        <4> HIDE DEF old, new
        <4> QED BY <2>1
      <3>3. Aligns(old[k - 1]) /\ Aligns(old[k]) /\ old[k].blank = 0
        BY <2>2, <3>1, <3>2, EntryFormatted, EntryKept
      <3>4. OneRun(old, k - 1, k)
        <4>1. \A m \in DOMAIN old : Follows(m, k - 1, k) => m = k
          <5> HIDE DEF old, new
          <5> QED BY <2>1, <3>2 DEF Follows
        <4> HIDE DEF old
        <4> QED BY <3>3, <4>1 DEF OneRun
      <3>5. LongestKey(old, k - 1) = LongestKey(old, k)
        BY <3>2, <3>4, RunShared
      <3>6. LongestKey(old, k) \in Nat
        BY <3>2, <3>3, LongestKeyIsLongest
      <3> HIDE DEF old, new
      <3> QED BY <2>3, <2>4, <3>2, <3>3, <3>5, <3>6 DEF Pad, Aligns
    <2>6. Tight(new)
      <3>1. SUFFICES ASSUME NEW k \in DOMAIN old, old[k].kind = "attribute"
                     PROVE  /\ new[k].pad >= 1
                            /\ \E j \in DOMAIN old : /\ new[j].kind = "attribute" /\ new[j].pad = 1
                                                     /\ j # k => OneRun(new, j, k)
        <4> HIDE DEF old, new
        <4> QED BY <2>1, <2>2 DEF Tight
      <3>2. new[k].pad >= 1
        BY <2>3, <3>1, PadIsNat
      <3>3. CASE ~Aligns(old[k])
        <4>1. new[k].pad = 1
          BY <2>3, <3>1, <3>3 DEF Pad
        <4> HIDE DEF old, new
        <4> QED BY <2>2, <3>1, <3>2, <4>1
      <3>4. CASE Aligns(old[k])
        <4>1. PICK j \in DOMAIN old : OneRun(old, j, k) /\ old[j].key = LongestKey(old, k)
          BY <3>4, LongestKeyIsLongest
        <4>2. Aligns(old[j]) /\ old[j].kind = "attribute"
          BY <4>1 DEF OneRun, Aligns
        <4>3. Pad(old, j) = 1
          <5>1. LongestKey(old, j) = old[j].key
            BY <4>1, RunShared
          <5>2. old[j].key \in Nat
            BY <2>4, <4>2
          <5> HIDE DEF old
          <5> QED BY <4>2, <5>1, <5>2 DEF Pad
        <4>4. OneRun(new, j, k)
          BY <4>1, RunsKept
        <4> HIDE DEF old, new
        <4> QED BY <2>2, <2>3, <3>2, <4>2, <4>3, <4>4
      <3> QED BY <3>3, <3>4
    <2>7. \A k \in DOMAIN old : k > 1 => new[k].blank <= 1
      <3>1. SUFFICES ASSUME NEW k \in DOMAIN old, k > 1 PROVE new[k].blank <= 1
        OBVIOUS
      <3>2. new[k].blank = Blanks(old, k)
        BY BlanksKept
      <3>3. old[k].blank \in Nat
        BY DEF Body, Attribute, Block
      <3> HIDE DEF old, new
      <3> QED BY <3>1, <3>2, <3>3 DEF Blanks
    <2>8. FormatBody(body).level = body.level
      BY DEF FormatBody
    <2> QED BY <2>1, <2>2, <2>3, <2>5, <2>6, <2>7, <2>8 DEF Canonical
  <1>2. \A b \in DOMAIN layout : layout[b] \in Body
    BY DEF Layout
  <1> QED BY <1>1, <1>2 DEF FormatLayout
----------------------------------------------------------------------------
(* The least number of a set. *)
LEMMA LeastExists ==
  ASSUME NEW T \in SUBSET Nat, T # {}
  PROVE  \E m \in T : \A k \in T : m <= k
  <1>1. PICK m \in T : \A k \in T : ~(<<k, m>> \in OpToRel(<, Nat))
    BY NatLessThanWellFounded, WFMin
  <1>2. \A k \in T : ~(k < m)
    BY <1>1, BelowIsLess
  <1> QED BY <1>2

(* When neighbours have their = in one column, so has the whole run: the   *)
(* first entry out of the column would differ from the one before it.      *)
LEMMA RunInOneColumn ==
  ASSUME NEW body \in Body, AlignedPairs(body.entries),
         NEW j \in DOMAIN body.entries, NEW k \in DOMAIN body.entries,
         j <= k, OneRun(body.entries, j, k)
  PROVE  body.entries[j].key + body.entries[j].pad = body.entries[k].key + body.entries[k].pad
  <1> DEFINE entries   == body.entries
             Column(m) == entries[m].key + entries[m].pad
             Bad       == {m \in j..k : Column(m) # Column(j)}
  <1>1. DOMAIN entries = 1..Len(entries) /\ Len(entries) \in Nat /\ j \in Nat /\ k \in Nat
    BY DEF Body
  <1>2. SUFFICES ASSUME Bad # {} PROVE FALSE
    BY <1>1
  <1>3. PICK m \in Bad : \A n \in Bad : m <= n
    <2>1. Bad \in SUBSET Nat
      BY <1>1
    <2> HIDE DEF Bad
    <2> QED BY <1>2, <2>1, LeastExists
  <1>4. m \in j..k /\ m # j /\ Column(m) # Column(j)
    OBVIOUS
  <1>5. m \in 2..Len(entries) /\ m - 1 \in j..k /\ m - 1 \in DOMAIN entries /\ m - 1 < m
    BY <1>1, <1>4
  <1>6. Aligns(entries[m]) /\ entries[m].blank = 0
    <2>1. Follows(m, j, k)
      BY <1>1, <1>4 DEF Follows
    <2> QED BY <1>5, <2>1 DEF OneRun
  <1>7. Aligns(entries[m - 1])
    <2>1. CASE m - 1 = j
      BY <2>1 DEF OneRun
    <2>2. CASE m - 1 # j
      <3>1. Follows(m - 1, j, k)
        BY <1>1, <1>5, <2>2 DEF Follows
      <3> QED BY <1>5, <3>1 DEF OneRun
    <2> QED BY <2>1, <2>2
  <1>8. Column(m - 1) = Column(m)
    BY <1>5, <1>6, <1>7 DEF AlignedPairs
  <1>9. m - 1 \in Bad
    BY <1>4, <1>5, <1>8
  <1> QED BY <1>1, <1>3, <1>5, <1>9

(* What is canonical is as fmt would have it: fmt leaves it alone, and     *)
(* fmt --check complains only of what is not canonical.                    *)
THEOREM CanonicalIsFormatted ==
  ASSUME NEW layout \in Layout, \A b \in DOMAIN layout : Canonical(layout[b])
  PROVE  FormatLayout(layout) = layout
  <1>1. ASSUME NEW body \in Body, Canonical(body)
        PROVE  FormatBody(body) = body
    <2> DEFINE entries == body.entries
    <2>1. DOMAIN entries = 1..Len(entries) /\ Len(entries) \in Nat
      BY DEF Body
    <2>2. ASSUME NEW k \in DOMAIN entries, entries[k].kind = "attribute"
          PROVE  Pad(entries, k) = entries[k].pad
      <3>1. entries[k] \in Attribute
        BY <2>2 DEF Body, Attribute, Block
      <3>2. entries[k].key \in Nat /\ entries[k].pad \in Nat
        BY <3>1 DEF Attribute
      <3>3. PICK j \in DOMAIN entries : /\ entries[j].kind = "attribute" /\ entries[j].pad = 1
                                        /\ j # k => OneRun(entries, j, k)
        BY <1>1, <2>2 DEF Canonical, Tight
      <3>4. CASE ~Aligns(entries[k])
        <4>1. j = k
          BY <3>3, <3>4 DEF OneRun
        <4> QED BY <3>3, <3>4, <4>1 DEF Pad
      <3>5. CASE Aligns(entries[k])
        <4>1. OneRun(entries, j, k)
          BY <3>3, <3>5, RunReflexive
        <4>2. PICK i \in DOMAIN entries : OneRun(entries, i, k) /\ entries[i].key = LongestKey(entries, k)
          BY <3>5, LongestKeyIsLongest
        <4>3. ASSUME NEW m \in DOMAIN entries, OneRun(entries, m, k)
              PROVE  /\ entries[m].key + entries[m].pad = entries[k].key + entries[k].pad
                     /\ entries[m].key \in Nat /\ entries[m].pad \in Nat /\ entries[m].pad >= 1
          <5>1. AlignedPairs(entries)
            BY <1>1 DEF Canonical
          <5>2. OneRun(entries, k, m)
            BY <4>3 DEF OneRun, Follows
          <5>3. m \in Nat /\ k \in Nat /\ (m <= k \/ k <= m)
            BY <2>1
          <5>4. entries[m].key + entries[m].pad = entries[k].key + entries[k].pad
            BY <4>3, <5>1, <5>2, <5>3, RunInOneColumn
          <5>5. entries[m].kind = "attribute" /\ entries[m] \in Attribute
            BY <4>3 DEF OneRun, Aligns, Body, Attribute, Block
          <5>6. entries[m].pad >= 1
            BY <1>1, <5>5 DEF Canonical, Tight
          <5> QED BY <5>4, <5>5, <5>6 DEF Attribute
        <4>4. entries[j].key <= entries[i].key
          BY <4>1, <4>2, LongestKeyIsLongest, <3>5
        <4>5. /\ entries[j].key + 1 = entries[k].key + entries[k].pad
              /\ entries[i].key + entries[i].pad = entries[k].key + entries[k].pad
              /\ entries[i].key \in Nat /\ entries[j].key \in Nat
              /\ entries[i].pad \in Nat /\ entries[i].pad >= 1
          BY <3>3, <4>1, <4>2, <4>3
        <4>6. LongestKey(entries, k) = entries[j].key
          <5> HIDE DEF entries
          <5> QED BY <3>2, <4>2, <4>4, <4>5
        <4>7. Pad(entries, k) = LongestKey(entries, k) - entries[k].key + 1
          BY <3>5 DEF Pad
        <4> HIDE DEF entries
        <4> QED BY <3>2, <4>5, <4>6, <4>7
      <3> QED BY <3>4, <3>5
    <2>3. ASSUME NEW k \in DOMAIN entries
          PROVE  Blanks(entries, k) = entries[k].blank
      <3>1. entries[k].blank \in Nat /\ (k > 1 => entries[k].blank <= 1)
        BY <1>1 DEF Canonical, Body, Attribute, Block
      <3> HIDE DEF entries
      <3> QED BY <3>1 DEF Blanks
    <2>4. ASSUME NEW k \in DOMAIN entries
          PROVE  FormatEntry(body.level, entries, k) = entries[k]
      <3>1. entries[k] \in Attribute \cup Block
        BY DEF Body
      <3>2. CASE entries[k].kind = "attribute"
        <4>1. entries[k] \in Attribute
          BY <3>1, <3>2 DEF Attribute, Block
        <4>2. /\ entries[k].indent = 2 * body.level /\ entries[k].after = 1
              /\ entries[k].inline = "none" /\ entries[k].beside = FALSE
          <5>1. entries[k].beside \in BOOLEAN
            BY <4>1 DEF Attribute
          <5> QED BY <1>1, <3>2, <5>1 DEF Canonical
        <4>3. Pad(entries, k) = entries[k].pad /\ Blanks(entries, k) = entries[k].blank
          BY <2>2, <2>3, <3>2
        <4>4. FormatEntry(body.level, entries, k) =
                [kind |-> "attribute", key |-> entries[k].key, multi |-> entries[k].multi,
                 indent |-> entries[k].indent, inline |-> entries[k].inline,
                 beside |-> entries[k].beside, pad |-> entries[k].pad, after |-> entries[k].after, blank |-> entries[k].blank]
          <5> HIDE DEF entries
          <5> QED BY <3>2, <4>2, <4>3 DEF FormatEntry
        <4> HIDE DEF entries
        <4> QED BY <3>2, <4>1, <4>4 DEF Attribute
      <3>3. CASE entries[k].kind # "attribute"
        <4>1. entries[k] \in Block
          BY <3>1, <3>3 DEF Attribute
        <4>2. FormatEntry(body.level, entries, k) = [kind |-> "block", blank |-> entries[k].blank]
          <5> HIDE DEF entries
          <5> QED BY <2>3, <3>3 DEF FormatEntry
        <4> HIDE DEF entries
        <4> QED BY <4>1, <4>2 DEF Block
      <3> QED BY <3>2, <3>3
    <2>5. entries = [k \in DOMAIN entries |-> entries[k]] /\ body = [level |-> body.level, entries |-> entries]
      BY DEF Body
    <2>6. [k \in DOMAIN entries |-> FormatEntry(body.level, entries, k)] = entries
      <3> HIDE DEF entries
      <3> QED BY <2>4, <2>5
    <2> QED BY <2>5, <2>6 DEF FormatBody
  <1>2. layout = [b \in DOMAIN layout |-> layout[b]] /\ \A b \in DOMAIN layout : layout[b] \in Body
    BY DEF Layout
  <1> QED BY <1>1, <1>2 DEF FormatLayout

(* Formatting a layout gives a layout. *)
LEMMA FormatLayoutType ==
  ASSUME NEW layout \in Layout
  PROVE  FormatLayout(layout) \in Layout
  <1>1. DOMAIN layout = 1..Len(layout) /\ Len(layout) \in Nat /\ \A b \in DOMAIN layout : layout[b] \in Body
    BY DEF Layout
  <1>2. \A b \in DOMAIN layout : FormatBody(layout[b]) \in Body
    BY <1>1, FormatBodyType
  <1>3. [b \in 1..Len(layout) |-> FormatBody(layout[b])] \in Seq(Body)
    BY <1>1, <1>2
  <1> QED BY <1>1, <1>3 DEF FormatLayout, Layout
============================================================================
