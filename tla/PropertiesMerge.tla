-------------------------- MODULE PropertiesMerge --------------------------
(***************************************************************************)
(* From the properties files and -D flags to variables (resolver/merge.rs  *)
(* and steps 4 and 5 of run_compile).                                      *)
(*                                                                         *)
(* A document is a function from paths, the keys from the root, to its     *)
(* leaves; no path is the beginning of another one.  Keys hold no dot, and *)
(* a mapping has at least one entry.  Its order does not matter then.  The *)
(* empty file is the document whose root is Null.                          *)
(***************************************************************************)
EXTENDS ResolveContext

Scalar(v) == [kind |-> "scalar", value |-> v]
Null      == [kind |-> "null"]
List      == [kind |-> "sequence"]

Root(leaf) == [p \in {<<>>} |-> leaf]

(* One of the two is the other, or a mapping above it. *)
Related(p, q) == IsPrefix(p, q) \/ IsPrefix(q, p)

(* The path of a variable: its keys, and its text after the $. *)
Path(v) == IF v[1] = Bare THEN <<v[2]>> ELSE v

(* A mutant: a key of the root is replaced with all that is below it.      *)
MergeShallow(dst, src) ==
  LET kept == {p \in DOMAIN dst :
                 \A q \in DOMAIN src : ~Related(p, q) /\ Head(p) # Head(q)}
  IN  [p \in kept \cup DOMAIN src |-> IF p \in DOMAIN src THEN src[p] ELSE dst[p]]

(* deep_merge: mappings are merged key by key, anything else is replaced:  *)
(* a scalar, list or null by a mapping, and a whole mapping by one of      *)
(* these.                                                                  *)
DeepMerge(dst, src) ==
  LET kept == {p \in DOMAIN dst : \A q \in DOMAIN src : ~Related(p, q)}
  IN  [p \in kept \cup DOMAIN src |-> IF p \in DOMAIN src THEN src[p] ELSE dst[p]]

(* Step 4: in the order of the command line. *)
MergeFiles(files) ==
  LET merged[k \in 0..Len(files)] ==
        IF k = 0 THEN Root(Null) ELSE DeepMerge(merged[k - 1], files[k])
  IN  merged[Len(files)]

(* flatten_to_dotted: a list anywhere is an error, nulls have no variable, *)
(* and a scalar at the root is a variable without a name.                  *)
Flattens(doc) == \A p \in DOMAIN doc : doc[p] # List

FlattenToDotted(doc) ==
  LET named    == {p \in DOMAIN doc : p # <<>> /\ doc[p].kind = "scalar"}
      Dotted(p) == IF Len(p) = 1 THEN <<Bare, p[1]>> ELSE p
  IN  [v \in {Dotted(p) : p \in named} |-> doc[Path(v)].value]

(* Step 5: a -D flag is <<variable, value>>; one without "=" is <<text>>   *)
(* and ignored.  Collecting into the map, the last one wins.               *)
ParseCliFlags(defines) == {k \in DOMAIN defines : Len(defines[k]) = 2}

CliFlags(defines) ==
  LET flags == ParseCliFlags(defines)
  IN  [v \in {defines[k][1] : k \in flags} |->
         defines[Max({k \in flags : defines[k][1] = v})][2]]
============================================================================
