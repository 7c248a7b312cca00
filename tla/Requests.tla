------------------------------ MODULE Requests ------------------------------
(***************************************************************************)
(* What a client may ask of the parser library besides the units: to open  *)
(* a file (File::parse), and of an opened file the details of a function   *)
(* (Function::details), the locations of a variable, and the call frame    *)
(* information of an address range (File::cfi).  A request only reads what *)
(* parse_unit built, so one behaviour is one request.                      *)
(***************************************************************************)
EXTENDS Location, Answers, Cfi, Symbols

VARIABLE request  \* what the client asked for

requestVars == <<request, locationVars, detailsVars, cfiVars, symbolsVars>>

\* The parts that a request does not use.
LocationIdle ==
  /\ frame = (CHOOSE f \in Frames : TRUE) /\ read = 0 /\ expression = 1
  /\ stack = <<>> /\ placed = Nothing /\ pieces = <<>> /\ nextBit = 0
  /\ real = FreshReal
  /\ progress = "idle"
  /\ variable = [address |-> Unknown, size |-> Unknown, locations |-> <<>>, real |-> <<>>]
DetailsIdle == die = <<>> /\ calls = <<>> /\ answer = NoDetails /\ outcome = "idle"
CfiIdle ==
  /\ section = [s \in Sections |-> <<>>] /\ tables = section
  /\ phase = "idle" /\ found = NotFound
  /\ rest = <<>> /\ loc = 0 /\ cfi = <<>>
SymbolsIdle ==
  /\ opened = [symbols |-> <<>>, sections |-> <<>>, units |-> <<>>]
  /\ symbols = <<>> /\ used = <<>> /\ units = <<>> /\ lookups = <<>>
  /\ opening = "idle"

RequestsInit ==
  \/ request = "open" /\ SymbolsInit /\ LocationIdle /\ DetailsIdle /\ CfiIdle
  \/ request = "location" /\ LocationInit /\ SymbolsIdle /\ DetailsIdle /\ CfiIdle
  \/ request = "details" /\ DetailsInit /\ SymbolsIdle /\ LocationIdle /\ CfiIdle
  \/ request = "cfi" /\ CfiInit /\ SymbolsIdle /\ LocationIdle /\ DetailsIdle

\* Steps of one request leave the others' parts alone.
ForOpen     == UNCHANGED <<request, locationVars, detailsVars, cfiVars>>
ForLocation == UNCHANGED <<request, symbolsVars, detailsVars, cfiVars>>
ForDetails  == UNCHANGED <<request, symbolsVars, locationVars, cfiVars>>
ForCfi      == UNCHANGED <<request, symbolsVars, locationVars, detailsVars>>

RequestsNext ==
  \/ ParseFile /\ ForOpen
  \/ GetSymbol /\ ForOpen
  \/ AddSymtab /\ ForOpen
  \/ AddUnknown /\ ForOpen
  \/ \E op \in Operations : \/ Compute(op) /\ ForLocation
                            \/ Place(op) /\ ForLocation
                            \/ AddPiece(op) /\ ForLocation
                            \/ Branch(op) /\ ForLocation
                            \/ Malformed(op) /\ ForLocation
  \/ Unreadable /\ ForLocation
  \/ EndExpression /\ ForLocation
  \/ Collect /\ ForLocation
  \/ FetchOrigin /\ ForDetails
  \/ NoOrigin /\ ForDetails
  \/ TakeParameter /\ ForDetails
  \/ TakeVariable /\ ForDetails
  \/ OpenBlock /\ ForDetails
  \/ CallInlined /\ ForDetails
  \/ SkipEntry /\ ForDetails
  \/ ReturnInlined /\ ForDetails
  \/ ReturnDetails /\ ForDetails
  \/ EntryFails /\ ForDetails
  \/ Load /\ ForCfi
  \/ \E s \in Sections : \/ Find(s) /\ ForCfi
                         \/ Misses(s) /\ ForCfi
  \/ ConvertInitial /\ ForCfi
  \/ BeginProgram /\ ForCfi
  \/ ConvertNext /\ ForCfi
  \/ EndProc /\ ForCfi

\* The thread that fetches details keeps running.
RequestsSpec ==
  RequestsInit /\ [][RequestsNext]_requestVars /\ WF_requestVars(DetailsNext /\ ForDetails)

-----------------------------------------------------------------------------
\* The details that a client asks for come back, or fill the thread's stack, however
\* functions are abstracted from each other.
Answered == <>(outcome # "running")
=============================================================================
