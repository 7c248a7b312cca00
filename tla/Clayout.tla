------------------------------ MODULE Clayout -------------------------------
(***************************************************************************)
(* The whole program: main() indexes the types of all inputs (TypeDb) and  *)
(* then translates the destinations it collected (Translator).             *)
(***************************************************************************)
EXTENDS Translator

CONSTANTS Files,   \* what the inputs may hold: functions on TypeIndex
          Queries  \* what the user may ask for: sets of split qualified names

ASSUME FilesAssumption == Files \subseteq [TypeIndex -> Type]

VARIABLES left,    \* the types not indexed yet (TypeDb)
          asked    \* Args::dest

Index == INSTANCE TypeDb

programVars == <<vars, left, asked>>

ProgramInit ==
  /\ types \in Files
  /\ asked \in Queries
  /\ Index!IndexInit
  /\ processed = <<>>
  /\ stack = <<>>
  /\ printer = [header |-> <<>>, used |-> <<>>, uniq |-> 0]
  /\ status = "indexing"

IndexStep ==
  /\ status = "indexing"
  /\ Index!Visit
  /\ UNCHANGED <<processed, stack, printer, status>>

\* Printer::try_open succeeds, and the loop over the destinations begins.
Open ==
  /\ status = "indexing" /\ Index!AllVisited
  /\ status' = "running"
  /\ UNCHANGED <<types, typeDb, dest, processed, stack, printer, left, asked>>

\* Printer::try_open cannot create a file.
OpenFails ==
  /\ status = "indexing" /\ Index!AllVisited
  /\ status' = "failed"
  /\ UNCHANGED <<types, typeDb, dest, processed, stack, printer, left, asked>>

Translate == Step /\ UNCHANGED <<left, asked>>
TranslateFails == WriteFails /\ UNCHANGED <<left, asked>>

ProgramStep == IndexStep \/ Open \/ Translate

Ended == status \in {"done", "panicked", "failed"}

ProgramNext == ProgramStep \/ OpenFails \/ TranslateFails \/ (Ended /\ UNCHANGED programVars)

ProgramSpec == ProgramInit /\ [][ProgramNext]_programVars /\ WF_programVars(ProgramStep)

-----------------------------------------------------------------------------
\* The index that is being built holds, once built, every named definition, and what
\* it holds stays so while the translation looks declarations up in it.
IndexComplete == Index!IndexComplete

\* What is handed to the translation is exactly what the user asked for.
DestsComplete == status = "indexing" => Index!DestsComplete

\* Indexing and translating come to an end, whatever the inputs declare.
EndsEventually == <>Ended
=============================================================================
