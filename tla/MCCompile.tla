----------------------------- MODULE MCCompile -----------------------------
(* Compilations for TLC.  Values 1 and 2 are providers and regions, 3 and  *)
(* 4 names, 5 a size, 6 a text with $name and $a.size in it, 7 the ident   *)
(* of an arm with labels, 8 a text that is an error to Tera, 9 the text    *)
(* $name_tag.  Texts are named by what is written in them, and their trees *)
(* are built from that.                                                    *)
EXTENDS CompileProperties, TLC

Var(i) == <<Bare, i>>

SomeStarts == {<<"name", "name_tag">>}

SomeHeld == {<<6, Var("name")>>, <<6, <<"a", "size">> >>, <<9, Var("name_tag")>>}

(* The code of an arm has $name twice. *)
SomeLater ==
  {<<Var("name_tag"), <<"a", "size">> >>, <<Var("name_tag"), Var("name")>>,
   << <<"a", "size">>, Var("name")>>, <<Var("name"), Var("name")>>}

Braces(ident, labels, attrs, blocks) ==
  [ident |-> ident, labels |-> labels, attrs |-> attrs, blocks |-> blocks]

Body(blocks) == [hcl |-> TRUE, blocks |-> blocks]

Plain(ident, blocks) == Braces(ident, <<>>, NoAttributes, blocks)

Attrs(f) == [i \in DOMAIN f |-> [value |-> f[i]]]
----------------------------------------------------------------------------
(* Modules.  A database has a case on the provider; one kind has arms that *)
(* Tera refuses and whose include fails.  Notes have no case and never any *)
(* output.                                                                 *)
Input(flags) == [keys |-> {"type"} \cup flags, true |-> flags]

Code(uses, fragments, flaws) ==
  [names |-> (uses \X {FALSE}) \cup {<<Var("unset"), TRUE>>, <<Var("name"), TRUE>>},
   fragments |-> fragments, broken |-> "include" \in flaws, tera |-> "tera" \notin flaws,
   blank |-> FALSE]

Arm(ident, labels, code) == Braces(ident, labels, "code" :> code, <<>>)

DatabaseInterface ==
  Plain("interface",
    <<Braces("inputs", <<>>, [i \in {"provider", "region", "name", "name_tag", "size"} |->
                                 Input(IF i = "name" THEN {"required"} ELSE {})], <<>>)>>)

Rule(allowed, severity) ==
  Braces("rule", <<"r">>, "condition" :> [on |-> "name", allowed |-> allowed] @@
                          "severity" :> [value |-> severity], <<>>)

(* The arm of 2 has its key as a label, and is there twice. *)
DatabaseCase(flaws) ==
  Braces("case", <<Var("provider")>>, NoAttributes,
    <<Arm(1, <<>>, Code({Var("name")}, {Var("size")}, flaws \ {"include"})),
      Arm(7, <<2>>, Code({Var("name"), Var("name_tag"), <<"a", "size">>}, {Var("name")},
                         flaws \ {"tera"})),
      Arm(7, <<2>>, Code({}, {}, {})) >>)

Database(flaws) ==
  Braces("module", <<"db">>, NoAttributes,
    <<Plain("metadata", <<>>), DatabaseInterface,
      Plain("validation", <<Rule({3, 4, 9}, "fatal"), Rule({3}, "warning")>>),
      Plain("generate", <<Plain("ignored", <<>>), DatabaseCase(flaws)>>)>>)

NotesSections ==
  <<Plain("generate", <<>>), Plain("validation", <<>>), Plain("metadata", <<>>),
    Plain("interface", <<Braces("inputs", <<>>, [i \in {"provider", "region", "name"} |->
                                                    [value |-> i]], <<>>)>>)>>

Notes == Braces("module", <<"notes">>, NoAttributes, NotesSections)

(* A rule that says nothing. *)
Strict ==
  Braces("module", <<"strict">>, NoAttributes,
    <<Plain("validation", <<Plain("rule", <<>>)>>)>> \o NotesSections)

ModuleTree(name) ==
  CASE name = "db"       -> Body(<<Database({})>>)
    [] name = "dbBroken" -> Body(<<Notes, Database({"include", "tera"})>>)
    [] name = "notes"    -> Body(<<Notes>>)
    [] name = "strict"   -> Body(<<Strict>>)
    [] name = "unknown"  -> Body(<<Plain("extra", <<>>), Notes>>)
    [] name = "inner"    -> Body(<<Braces("module", <<"m">>, NoAttributes,
                                          Append(NotesSections, Plain("extra", <<>>)))>>)
    [] name = "unnamed"  -> Body(<<Plain("module", NotesSections)>>)
    [] name = "empty"    -> Body(<<>>)
    [] name = "halved"   -> Body(<<Braces("module", <<"m">>, NoAttributes, Front(NotesSections))>>)
    [] name = "uncased"  -> Body(<<Braces("module", <<"m">>, NoAttributes,
                                   <<Plain("generate", <<Plain("case", <<>>)>>)>> \o NotesSections)>>)
    [] name = "garbage"  -> [hcl |-> FALSE, blocks |-> <<>>]

Mod(name) == [tree |-> ModuleTree(name)]

Library(db)  == ("db" :> Mod(db)) @@ ("notes" :> Mod("notes")) @@ ("strict" :> Mod("strict"))
CannotRead   == "db" :> Unreadable
IncludePaths == { <<Library("dbBroken")>>, <<NoValues, Library("db"), CannotRead>> }
----------------------------------------------------------------------------
(* Templates: resources of a name, a module, a wiring and dependencies. *)
Declare(name, module, wiring, dependsOn) ==
  [name |-> name, module |-> module, wiring |-> wiring, dependsOn |-> dependsOn]

Wired(literals, references) == [literals |-> literals, references |-> references, mixed |-> NoValues]

ResourceTree(d, labels) ==
  LET w      == d.wiring
      inputs == [i \in DOMAIN w.literals |-> [value |-> w.literals[i]]] @@
                [i \in DOMAIN w.references |-> [refers |-> w.references[i]]] @@
                [i \in DOMAIN w.mixed |-> [mixed |-> w.mixed[i]]]
      one    == CHOOSE x \in d.dependsOn : TRUE
  IN  Braces("resource", labels,
        "module" :> [value |-> d.module] @@
        "depends_on" :> (IF Cardinality(d.dependsOn) = 1 THEN [item |-> one]
                         ELSE [items |-> SetToSeq(d.dependsOn)]),
        <<Plain("lifecycle", <<>>), Braces("inputs", <<>>, inputs, <<>>)>>)

TemplateTree(decls, lost) ==
  LET Part(p) == IF p \in lost THEN <<>> ELSE <<Plain(p, <<>>)>>
      Name(p) == IF p \in lost THEN <<>> ELSE <<p>>
      tree(d) == ResourceTree(d, IF "label" \in lost THEN <<>> ELSE <<d.name>>)
      blocks  == Part("outputs") \o [k \in DOMAIN decls |-> tree(decls[k])]
                   \o Part("metadata") \o Part("parameters")
  IN  [hcl |-> "hcl" \notin lost,
       blocks |-> <<Plain("comment", <<>>)>> \o
                  (IF "template" \in lost THEN <<>>
                   ELSE <<Braces("template", Name("name"), NoAttributes, blocks),
                          Plain("template", <<>>)>>)]

(* A text, with some of its parts lost. *)
Without(decls, parts) == [tree |-> TemplateTree(decls, parts)]
Text(decls) == Without(decls, {})

SomeSource(text) == text.tree

(* How one resource can be wired. *)
Wirings ==
  { Wired(("name" :> 3) @@ ("provider" :> 1), "region" :> Var("region")),
    Wired(("name" :> 4) @@ ("provider" :> 1) @@ ("region" :> 1), NoValues),
    Wired(("name" :> 4) @@ ("region" :> 2), "provider" :> <<"main", "provider">>),
    Wired(("name" :> 3) @@ ("size" :> 5), NoValues),
    Wired(NoValues, ("name" :> <<"main", "name">>) @@ ("provider" :> Var("provider"))),
    [Wired(NoValues, "name" :> Var("size")) EXCEPT !.mixed = "name_tag" :> 6],
    Wired(("name" :> 3) @@ ("engine" :> 4), NoValues),
    Wired("name" :> 4, "provider" :> Var("provider-eu")),
    Wired(NoValues, NoValues) }

Document(scalars) == [p \in DOMAIN scalars |-> Scalar(scalars[p])]

Base == Document((<<"main", "provider">> :> 1) @@ (<<"main", "name">> :> 3) @@
                 (<<"region">> :> 2) @@ (<<"name_tag">> :> 3) @@ (<<"a", "size">> :> 3))

(* Files that replace, add to and wipe out what earlier files say. *)
PropertiesFiles ==
  { <<>>,
    <<Document((<<"provider">> :> 1) @@ (<<"region">> :> 1))>>,
    <<Base, Document((<<"main", "provider">> :> 2) @@ (<<"a", "class">> :> 1) @@ (<<"name_tag">> :> 4))>>,
    <<Document((<<"main">> :> 4) @@ (<<"provider">> :> 1) @@ (<<"name_tag">> :> 3)),
      Document((<<"main", "name">> :> 5) @@ (<<"a", "size">> :> 4) @@ (<<"provider">> :> 2))>>,
    <<Base, Root(Null), Document((<<"provider">> :> 1))>>,
    <<Base, (<<"main">> :> Null) @@ (<<"name_tag">> :> List),
      Document((<<"name_tag">> :> 5) @@ (<<"provider">> :> 2))>>,
    <<Base, Base @@ (<<"sizes">> :> List)>> }

Defines ==
  { <<>>,
    << <<Var("name"), 3>>, <<"noequalssign">>, <<Var("name"), 4>> >>,
    << <<Var("provider-eu"), 2>>, <<Var("name_tag"), 8>>, <<Var("name"), 9>> >>,
    << <<Var("provider"), 2>>, << <<"main", "name">>, 4>>, <<Var("name_tag"), 5>> >> }

(* Two resources: which value reaches which code. *)
Resolving ==
  {[template   |-> Text(<<Declare("a", "db", w, {}), Declare("b", "db", x, {})>>),
    includePath |-> l,
    files |-> p, defines |-> f, broken |-> {}] :
      w \in Wirings, x \in Wirings,
      l \in IncludePaths, p \in PropertiesFiles, f \in Defines}

(* Three resources: dependencies across and within groups. *)
Placements == {<<1, 1>>, <<1, 2>>, <<2, 1>>}
Placed(p)  == Wired(("name" :> 3) @@ ("provider" :> p[1]) @@ ("region" :> p[2]), NoValues)
Unplaced   == Wired("name" :> 3, NoValues)

Ordering ==
  {[template   |-> Text(<<Declare("a", "db", Placed(p), da),
                          Declare("b", "db", Unplaced, {"zz"}),
                          Declare("b", mb, q, db),
                          Declare("c", "db", Placed(r), dc)>>),
    includePath |-> <<Library("db")>>,
    files      |-> IF p[2] = 2 THEN <<Document((<<"region_mapping", 2>> :> 1) @@
                                               (<<"region_mapping", 1>> :> 3))>>
                   ELSE <<>>,
    defines    |-> <<>>, broken |-> {}] :
      p \in Placements, q \in {Placed(s) : s \in Placements} \cup {Unplaced},
      r \in {<<1, 1>>, <<2, 1>>},
      mb \in {"db", "notes"},
      da \in {{}, {"b"}, {"a"}}, db \in {{}, {"c"}}, dc \in {{}, {"a"}, {"a", "b"}}}

(* Texts no compilation gets through, and files that cannot be read. *)
BrokenTemplates ==
  {Unreadable} \cup
  {Without(<<Declare("a", "db", Unplaced, {})>>, {part}) :
     part \in {"hcl", "template", "name", "metadata", "parameters", "outputs", "label"}}

BrokenModules ==
  {"unknown", "inner", "unnamed", "empty", "halved", "uncased", "garbage"}

SelfReferring == Wired("name" :> 3, "provider" :> Var("name"))

Stopped ==
  {[template   |-> t, includePath |-> i, files |-> p, defines |-> f, broken |-> b] :
      i \in {<<Library("dbBroken")>>, <<CannotRead, Library("db")>>} \cup
            {<<"db" :> Mod(m), Library("db")>> : m \in BrokenModules},
      b \in SUBSET {"properties"},
      t \in BrokenTemplates \cup
            {Text(<<Declare("a", m, SelfReferring, d)>>) :
               m \in {"db", "strict", "lost"}, d \in {{}, {"a"}, {"zz"}}},
      p \in {q \in PropertiesFiles : Len(q) < 2}, f \in {g \in Defines : Len(g) < 3}}

SomeCompilations == Resolving \cup Ordering \cup Stopped
============================================================================
