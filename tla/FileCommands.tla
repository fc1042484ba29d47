---------------------------- MODULE FileCommands ----------------------------
(***************************************************************************)
(* graydr validate, lint, fmt and init (cli/validate.rs, lint.rs, fmt.rs,  *)
(* init.rs): one process that works through a list of files.  Reading and  *)
(* parsing a file is one step.  A write is the truncation of the file and  *)
(* then its text, and other programs can use the file in between.          *)
(***************************************************************************)
EXTENDS SourceFiles, Scaffold

CONSTANT Faults          \* which of "kill" and "io" can happen

VARIABLES
  command,               \* name, or "none"; files, whether with --check,
                         \* --strict; the kind of scaffold for init
  at,                    \* the file the command is at
  phase,                 \* its next step
  held,                  \* the text it is about to write
  hasError, hasWarning,  \* what validate and lint have met
  anyChanged,            \* whether fmt has met a text it changes
  exit,                  \* success, failure; "none" while running and if killed
  seen                   \* history: what was read of the files, in order

(* What a user can call.  init is given one file. *)
Commands ==
  {c \in [name : {"none", "validate", "lint", "fmt", "init"}, files : Seq(Paths),
          check : BOOLEAN, strict : BOOLEAN, kind : {"gmod", "gtpl"}] :
     c.name = "init" => Len(c.files) = 1}

ASSUME ScaffoldsAssumption ==
  /\ {"scaffoldModule", "scaffoldTemplate"} \subseteq Trees
  /\ Source("scaffoldModule") = ScaffoldModule
  /\ Source("scaffoldTemplate") = ScaffoldTemplate

tally       == <<hasError, hasWarning, anyChanged>>
commandVars == <<command, at, phase, held, tally, exit, seen>>

Phases == {"read", "open", "write", "ended"}

CommandInit ==
  /\ at = 1
  /\ phase = CASE command.name = "none" -> "ended"
               [] command.name = "init" -> "open"
               [] OTHER                 -> "read"
  /\ held = IF command.name = "init" THEN Scaffolds[command.kind] ELSE EmptyText
  /\ hasError = FALSE /\ hasWarning = FALSE /\ anyChanged = FALSE
  /\ exit = "none" /\ seen = <<>>

File  == command.files[at]
AtEnd == at > Len(command.files)

Exit(status) ==
  /\ phase' = "ended" /\ exit' = status
  /\ UNCHANGED <<command, at, held, tally>>

(* The next file of the list. *)
Proceed ==
  /\ at' = at + 1 /\ phase' = "read"
  /\ UNCHANGED <<command, held, exit>>

Reads(name) ==
  /\ command.name = name /\ phase = "read" /\ ~AtEnd
  /\ seen' = Append(seen, disk[File])
  /\ UNCHANGED disk
----------------------------------------------------------------------------
(* A mutant: the last file decides. *)
ValidateLastFile ==
  /\ Reads("validate")
  /\ hasError' = (~Readable(disk[File]) \/ ~Parses(File, disk[File]))
  /\ UNCHANGED <<hasWarning, anyChanged>>
  /\ Proceed

(* run_validate goes on after an error; a file of another kind is read and *)
(* skipped.                                                                *)
ValidateFile ==
  /\ Reads("validate")
  /\ hasError' = (hasError \/ ~Readable(disk[File]) \/ ~Parses(File, disk[File]))
  /\ UNCHANGED <<hasWarning, anyChanged>>
  /\ Proceed

(* run_lint takes every file for a module. *)
LintFile ==
  /\ Reads("lint")
  /\ LET parses == Readable(disk[File]) /\ Accepted(ModuleOf[disk[File].tree])
         warns  == parses /\ Warnings[disk[File].tree] # {}
     IN  hasError' = (hasError \/ ~parses) /\ hasWarning' = (hasWarning \/ warns)
  /\ UNCHANGED anyChanged
  /\ Proceed

(* format_file: a text that is no HCL ends the run. *)
Formats(found) == Readable(found) /\ Source(found.tree).hcl

CannotFormat ==
  /\ Reads("fmt") /\ ~Formats(disk[File])
  /\ Exit("failure")

IsCanonical ==
  /\ Reads("fmt") /\ Formats(disk[File]) /\ FormatText(disk[File]) = disk[File]
  /\ UNCHANGED tally
  /\ Proceed

(* A mutant: --check writes. *)
WouldChangeAndWrites ==
  /\ Reads("fmt") /\ command.check
  /\ Formats(disk[File]) /\ FormatText(disk[File]) # disk[File]
  /\ held' = FormatText(disk[File]) /\ phase' = "open"
  /\ anyChanged' = TRUE
  /\ UNCHANGED <<command, at, hasError, hasWarning, exit>>

WouldChange ==
  /\ Reads("fmt") /\ command.check
  /\ Formats(disk[File]) /\ FormatText(disk[File]) # disk[File]
  /\ anyChanged' = TRUE /\ UNCHANGED <<hasError, hasWarning>>
  /\ Proceed

Changes ==
  /\ Reads("fmt") /\ ~command.check
  /\ Formats(disk[File]) /\ FormatText(disk[File]) # disk[File]
  /\ held' = FormatText(disk[File]) /\ phase' = "open"
  /\ anyChanged' = TRUE
  /\ UNCHANGED <<command, at, hasError, hasWarning, exit>>

(* fs::write creates or truncates the file and writes the text. *)
OpenFile ==
  /\ phase = "open"
  /\ Replace(File, EmptyText)
  /\ phase' = "write"
  /\ UNCHANGED <<command, at, held, tally, exit, seen>>

WriteFile ==
  /\ phase = "write"
  /\ Replace(File, held)
  /\ Proceed /\ UNCHANGED <<tally, seen>>

WriteError ==
  /\ "io" \in Faults /\ phase \in {"open", "write"}
  /\ Exit("failure") /\ UNCHANGED <<disk, seen>>

EndCommand ==
  /\ phase = "read" /\ AtEnd
  /\ LET failed == \/ hasError
                   \/ command.strict /\ hasWarning
                   \/ command.check /\ anyChanged
     IN  Exit(IF failed THEN "failure" ELSE "success")
  /\ UNCHANGED <<disk, seen>>

Kill ==
  /\ "kill" \in Faults /\ phase # "ended"
  /\ phase' = "ended"
  /\ UNCHANGED <<disk, command, at, held, tally, exit, seen>>

CommandStep ==
  \/ ValidateFile \/ LintFile
  \/ CannotFormat \/ IsCanonical \/ WouldChange \/ Changes
  \/ OpenFile \/ WriteFile \/ EndCommand
============================================================================
