------------------------------- MODULE Linter -------------------------------
(***************************************************************************)
(* The five checks of graydr lint (lint/checks) over a parsed module.      *)
(* Every diagnostic is a warning, here a pair of the check and what it is  *)
(* about.                                                                  *)
(***************************************************************************)
EXTENDS ModuleParser

Arms(module) == UNION {Range(c.arms) : c \in Range(module.cases)}

(* A mutant: only code counts. *)
ReferencedInCode(module) == UNION {arm.variables : arm \in Arms(module)}

(* The variables of code and output texts; labels of cases do not count.   *)
Referenced(module) ==
  UNION {arm.variables \cup UNION Range(arm.outputs) : arm \in Arms(module)}

UnusedInputs(module) ==
  {<<"unused-input", i>> : i \in {j \in DOMAIN module.inputs : <<Bare, j>> \notin Referenced(module)}}

UnwiredOutputs(module) ==
  {<<"unwired-output", o>> :
     o \in module.outputs \ UNION {DOMAIN arm.outputs : arm \in Arms(module)}}

EmptyCaseArms(module) ==
  {<<"empty-case-arm", Head(arm.keys)>> : arm \in {a \in Arms(module) : a.blank}}

MissingGovernance(module) ==
  {<<"missing-governance", f>> : f \in Governance \ module.metadata}

MissingType(module) ==
  {<<"missing-type", i>> : i \in {j \in DOMAIN module.inputs : ~module.inputs[j].hasType}}

LintModule(module) ==
  UnusedInputs(module) \cup UnwiredOutputs(module) \cup EmptyCaseArms(module)
    \cup MissingGovernance(module) \cup MissingType(module)
============================================================================
