------------------------------ MODULE Workspace ------------------------------
(***************************************************************************)
(* A workspace: an editor with its language server, and one command run    *)
(* beside them on the same files.                                          *)
(***************************************************************************)
EXTENDS LanguageServer, FileCommands

CONSTANT Worlds          \* disk, command and number of editor messages to start with

ASSUME WorldsAssumption ==
  \A world \in Worlds : world.disk \in [Paths -> Found] /\ world.command \in Commands

vars == <<disk, serverVars, commandVars>>

Init ==
  /\ \E world \in Worlds : /\ disk = world.disk
                          /\ command = world.command
                          /\ messages = world.messages
  /\ ServerInit /\ CommandInit

Next ==
  \/ /\ EditorStep \/ ServerStep \/ \E folders \in Roots : Initialize(folders)
     /\ UNCHANGED commandVars
  \/ /\ CommandStep \/ WriteError \/ Kill
     /\ UNCHANGED serverVars

(* tower-lsp takes the next message and tokio polls handlers that are      *)
(* ready.  Nothing is assumed of the user and of the command.              *)
Fairness ==
  /\ WF_vars(Serve /\ UNCHANGED commandVars)
  /\ \A k \in 1..Slots : WF_vars(Publish(k) /\ UNCHANGED commandVars)

Spec == Init /\ [][Next]_vars /\ Fairness
============================================================================
