----------------------------- MODULE MCWorkspace -----------------------------
(***************************************************************************)
(* Workspaces for TLC: commands over files of every kind of flaw and many  *)
(* layouts, and sessions of an editor beside a command.                    *)
(***************************************************************************)
EXTENDS WorkspaceProperties, TLC

Path(dir, stem, ext) == [dir |-> dir, stem |-> stem, ext |-> ext]

MainFile  == Path("ws", "main", "gtpl")
DbFile    == Path("ws/lib", "db", "gmod")
OtherFile == Path("ws/my lib", "db", "gmod")
NoteFile  == Path("ws", "arm", "gfrag")
SomePaths == {MainFile, DbFile, OtherFile, NoteFile}

SomeDocs == {MainFile, DbFile}

SomeWithin(dir) == IF dir = "ws" THEN {"ws", "ws/lib", "ws/my lib"} ELSE {dir}

SomeRoots == {<<>>, <<"ws", "ws/my lib">>, <<"ws/my lib">>}

(* A space is escaped in a URI, and a path with a space is no URI. *)
SomeInUri(dir) == IF dir = "ws/my lib" THEN "ws/my%20lib" ELSE dir

SomeAsUri(path) == IF path.dir = "ws/my lib" THEN {} ELSE {path}

SomeWord(text, place) == IF place = 1 /\ text.tree = "main" THEN "cost_tier" ELSE "db"
----------------------------------------------------------------------------
(* Module trees, by flaw.  Tuple "names" are variables and their braces.   *)
Plainly(i) == <<<<Bare, i>>, FALSE>>

Coded(names, blank) == [names |-> names, fragments |-> {}, broken |-> FALSE, tera |-> TRUE, blank |-> blank]

FlawedModule(flaw) ==
  LET uses == CASE flaw = "unused"     -> {}
                [] flaw = "braced"     -> {<<<<Bare, "size">>, TRUE>>}
                [] flaw = "dotted"     -> {<<<<"size", "size">>, FALSE>>}
                [] flaw = "usedInOutput" -> {}
                [] OTHER               -> {Plainly("size")}
      wired == Only("port", Coded(IF flaw = "usedInOutput" THEN {Plainly("size")} ELSE {}, FALSE))
      size  == [keys |-> IF flaw = "untyped" THEN {"required"} ELSE {"type", "required"},
                true |-> {"required"}]
      arm   == Written("aws", <<>>, IF flaw = "codeless" THEN NoAttributes
                                ELSE Only("code", Coded(uses, flaw = "blank")),
                       IF flaw = "unwired" THEN <<>> ELSE <<Written("outputs", <<>>, wired, <<>>)>>)
      case  == Written("case", IF flaw = "caseless" THEN <<>> ELSE <<<<Bare, "provider">>>>,
                       NoAttributes, <<arm>>)
      fields == IF flaw = "ungoverned" THEN {"cost_tier"} ELSE Governance \cup {"version"}
      sections ==
        [metadata   |-> Written("metadata", <<>>, [f \in fields |-> [value |-> f]], <<>>),
         interface  |-> Section("interface",
                          <<Written("inputs", <<>>, Only("size", size), <<>>),
                            Written("outputs", <<>>, Only("port", [value |-> "port"]), <<>>)>>),
         validation |-> Section("validation", <<>>),
         generate   |-> Section("generate", <<case>>),
         extra      |-> Section("extra", <<>>)]
      present == CASE flaw = "noMetadata" -> <<"interface", "validation", "generate">>
                   [] flaw = "noGenerate" -> <<"metadata", "interface", "validation">>
                   [] flaw = "extra"      -> <<"generate", "extra", "interface", "validation", "metadata">>
                   [] OTHER               -> <<"generate", "interface", "validation", "metadata">>
      module  == Written("module", IF flaw = "unnamed" THEN <<>> ELSE <<"db">>, NoAttributes,
                         [k \in DOMAIN present |-> sections[present[k]]])
  IN  [hcl |-> flaw \notin {"garbage", "broken"},
       blocks |-> CASE flaw = "empty"      -> <<>>
                    [] flaw = "outerExtra" -> <<module, sections.extra>>
                    [] flaw = "twice"      -> <<Section("module", <<>>), module>>
                    [] OTHER               -> <<module>>]

LintFlaws  == {"unused", "braced", "dotted", "untyped", "unwired", "blank", "codeless", "ungoverned"}
ParseFlaws == {"caseless", "noMetadata", "noGenerate", "extra", "unnamed", "garbage", "empty", "outerExtra"}
ModuleKinds == LintFlaws \cup ParseFlaws \cup {"clean", "usedInOutput", "twice"}
----------------------------------------------------------------------------
TemplateKinds == {"main", "nameless", "resourceless", "noOutputs", "noParameters", "second", "garbage"}

FlawedTemplate(flaw) ==
  LET resource == Written("resource", IF flaw = "resourceless" THEN <<>> ELSE <<"main">>,
                          Only("module", [value |-> "db"]), <<>>)
      present  == CASE flaw = "noOutputs"    -> <<"metadata", "parameters">>
                    [] flaw = "noParameters" -> <<"metadata", "outputs">>
                    [] OTHER                 -> <<"outputs", "metadata", "parameters">>
      template == Written("template", IF flaw = "nameless" THEN <<>> ELSE <<"t">>, NoAttributes,
                          <<resource>> \o [k \in DOMAIN present |-> Section(present[k], <<>>)])
  IN  [hcl |-> flaw # "garbage",
       blocks |-> IF flaw = "second" THEN <<Section("ignored", <<>>), template, Section("template", <<>>)>>
                  ELSE <<template>>]

SomeSource(tree) ==
  CASE tree = "scaffoldModule"   -> ScaffoldModule
    [] tree = "scaffoldTemplate" -> ScaffoldTemplate
    [] tree \in TemplateKinds    -> FlawedTemplate(tree)
    [] OTHER                     -> FlawedModule(tree)

SomeTrees == ModuleKinds \cup TemplateKinds \cup {"scaffoldModule", "scaffoldTemplate", "broken"}
----------------------------------------------------------------------------
(* Layouts: one body of up to three entries. *)
Attr(key, multi, pad, blank) ==
  [kind |-> "attribute", key |-> key, multi |-> multi, indent |-> 2, inline |-> "none",
   beside |-> FALSE, pad |-> pad, after |-> 1, blank |-> blank]

Commented(inline) ==
  [Attr(2, FALSE, 1, 0) EXCEPT !.indent = 1, !.inline = inline, !.beside = TRUE]

Entries == {Attr(2, FALSE, 1, 0), Attr(4, FALSE, 1, 0), Attr(4, FALSE, 1, 2), Attr(2, FALSE, 3, 1),
            Attr(3, TRUE, 2, 0), Commented("comment"),
            [kind |-> "block", blank |-> 0], [kind |-> "block", blank |-> 2]}

Bodies(entries) == <<[level |-> 1, entries |-> entries]>>

Layouts ==
  {Bodies(e) : e \in UNION {[1..n -> Entries] : n \in 1..3}} \cup
  {Bodies(<<Commented("tail")>>), Bodies(<<Attr(4, FALSE, 1, 2), Commented("tail")>>)}

Unaligned == Bodies(<<Attr(2, FALSE, 1, 0), Attr(4, FALSE, 1, 0)>>)
Neat      == Bodies(<<Attr(2, FALSE, 3, 0), Attr(4, FALSE, 1, 0)>>)

Text(tree, layout) == [tree |-> tree, layout |-> layout]
----------------------------------------------------------------------------
Disk(main, db, other) ==
  (MainFile :> main) @@ (DbFile :> db) @@ (OtherFile :> other) @@ (NoteFile :> Text("clean", Neat))

Command(name, files, flags) ==
  [name |-> name, files |-> files, check |-> "check" \in flags, strict |-> "strict" \in flags,
   kind |-> "gmod"]

NoCommand == Command("none", <<>>, {})

World(d, c, n) == [disk |-> d, command |-> c, messages |-> n]

ModuleTexts   == {Text(k, Neat) : k \in ModuleKinds} \cup {Missing, Unreadable}
TemplateTexts == {Text(k, Neat) : k \in TemplateKinds} \cup {Missing}

(* One file after another, the first with any flaw, the second one of few. *)
CheckWorlds ==
  {World(Disk(m, x, y), c, 0) :
     m \in TemplateTexts, x \in {Text("clean", Neat), Text("unnamed", Neat)}, y \in {Missing},
     c \in {Command("validate", <<MainFile, DbFile, NoteFile>>, {}),
            Command("validate", <<DbFile, MainFile>>, {})}} \cup
  {World(Disk(Missing, x, y), c, 0) :
     x \in ModuleTexts, y \in {Text("clean", Neat), Text("unused", Neat), Missing},
     c \in {Command("validate", <<DbFile, OtherFile>>, {}), Command("validate", <<OtherFile, DbFile>>, {}),
            Command("lint", <<DbFile, OtherFile>>, {}), Command("lint", <<OtherFile, DbFile>>, {"strict"})}}

FmtWorlds ==
  {World(Disk(m, Text("clean", l), Missing), Command("fmt", <<DbFile, MainFile>>, flags), 0) :
     m \in {Text("main", Unaligned)}, l \in Layouts, flags \in {{}, {"check"}}} \cup
  {World(Disk(m, Text("clean", l), Missing), Command("fmt", <<DbFile, MainFile>>, flags), 0) :
     m \in {Text("garbage", Unaligned), Missing}, l \in {Neat, Unaligned}, flags \in {{}, {"check"}}} \cup
  {World(Disk(Missing, Missing, Text("unused", Neat)), [Command("init", <<f>>, {}) EXCEPT !.kind = k], 0) :
     f \in {DbFile, OtherFile}, k \in {"gmod", "gtpl"}}

EditorWorlds ==
  {World(Disk(Text("main", Unaligned), x, y), NoCommand, 4) :
     x \in {Text("clean", Neat)}, y \in {Missing}} \cup
  {World(Disk(Text("main", Unaligned), Text("clean", Unaligned), Text("unused", Neat)),
         Command("fmt", <<MainFile, DbFile>>, {}), 2)}

SomeWorlds == CheckWorlds \cup FmtWorlds \cup EditorWorlds

SomeEdits == {Text("main", Neat), Text("unused", Neat)}
============================================================================
