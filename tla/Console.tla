------------------------------ MODULE Console ------------------------------
(***************************************************************************)
(* ConsoleEngine: the loop of the main menu and the loop of the operations *)
(* on the cycle table, both reading one key at a time from standard input, *)
(* which the user fills at leisure and may close.                          *)
(***************************************************************************)
EXTENDS Naturals, Sequences

CONSTANT MaxTyped  \* bound: keys typed

ASSUME ConsoleAssumption == MaxTyped \in Nat

VARIABLES
  typed,   \* the keys typed so far
  closed,  \* whether the input has been closed
  read,    \* how many keys have been read
  loop     \* where run() is, or how it was left

vars == <<typed, closed, read, loop>>

\* The keys the main loop tells apart, in either case of the letter.  No key
\* differs from another in the loop of the operations.
Keys == {"C", "D", "Q", "other"}

Loops == {"main", "operations", "returned", "threw"}
Running == loop \in {"main", "operations"}

TypeOK ==
  /\ typed \in Seq(Keys) /\ closed \in BOOLEAN
  /\ read \in 0 .. Len(typed) /\ loop \in Loops

Init == typed = <<>> /\ closed = FALSE /\ read = 0 /\ loop = "main"

-----------------------------------------------------------------------------
\* The user, or rather what the terminal passes on.
Type(key) ==
  /\ ~closed /\ Len(typed) < MaxTyped
  /\ typed' = Append(typed, key)
  /\ UNCHANGED <<closed, read, loop>>

CloseInput ==
  /\ ~closed
  /\ closed' = TRUE
  /\ UNCHANGED <<typed, read, loop>>

-----------------------------------------------------------------------------
\* A mutant: the last key typed waits for another one.
WaitingForMore == read + 1 < Len(typed)

\* getchar returns the next key.
Waiting == read < Len(typed)
NextKey == typed[read + 1]

Reads(nextLoop) ==
  /\ Waiting
  /\ read' = read + 1
  /\ loop' = nextLoop
  /\ UNCHANGED <<typed, closed>>

\* A mutant: __list_cycle_table__ does not tell the loop to end.
MainCycleTableStays ==
  loop = "main" /\ Waiting /\ NextKey = "C" /\ Reads("main")

\* 'C' lists the cycle table, which tells the loop to end; the operations
\* follow it.
MainCycleTable ==
  loop = "main" /\ Waiting /\ NextKey = "C" /\ Reads("operations")

\* 'D' lists the daily table.
MainDailyTable ==
  loop = "main" /\ Waiting /\ NextKey = "D" /\ Reads("main")

\* Nothing catches what the two lists throw.
MainListThrows ==
  loop = "main" /\ Waiting /\ NextKey \in {"C", "D"} /\ Reads("threw")

\* A mutant: 'Q' breaks out of the switch only.
MainQuitBreaks ==
  loop = "main" /\ Waiting /\ NextKey = "Q" /\ Reads("main")

\* 'Q' returns from run().
MainQuit ==
  loop = "main" /\ Waiting /\ NextKey = "Q" /\ Reads("returned")

MainIgnores ==
  loop = "main" /\ Waiting /\ NextKey \notin {"C", "D", "Q"} /\ Reads("main")

\* A mutant: the end of the input is consumed like a key.
OperationsReadOn ==
  /\ loop = "operations" /\ read <= Len(typed)
  /\ read' = read + 1
  /\ UNCHANGED <<typed, closed, loop>>

\* The cases of the operations are empty, and none of them ends the loop.
Operations == loop = "operations" /\ Reads("operations")

\* At the end of the input getchar returns EOF at once, a key like any other.
ReadEnd == Running /\ closed /\ ~Waiting /\ UNCHANGED vars

Run ==
  \/ MainCycleTable \/ MainDailyTable \/ MainListThrows
  \/ MainQuit \/ MainIgnores \/ Operations \/ ReadEnd

Next == (\E key \in Keys : Type(key)) \/ CloseInput \/ Run

\* Only the program is fair: the operating system keeps running it.  Nothing
\* makes the user type.
Spec == Init /\ [][Next]_vars /\ WF_vars(Run)

-----------------------------------------------------------------------------
Before(n) == {typed[k] : k \in 1 .. n}

\* What has been read decides where the program is: it has returned exactly if
\* a 'Q' came while no 'C' had, and it is among the operations, for good,
\* exactly from a first 'C' that came while no 'Q' had.  The end of the input
\* decides nothing.
FirstKeyDecides ==
  /\ loop = "main" <=> Before(read) \cap {"C", "Q"} = {} /\ loop # "threw"
  /\ loop = "returned" => typed[read] = "Q" /\ "C" \notin Before(read)
  /\ loop = "operations" =>
       \E k \in 1 .. read : typed[k] = "C" /\ "Q" \notin Before(k)

\* Every key is read in the end, unless the program has stopped.
KeysAreRead ==
  \A n \in 1 .. MaxTyped : Len(typed) >= n ~> read >= n \/ ~Running

\* A 'Q' typed before any 'C' ends the program, whatever else was typed.
QuitIsHeeded ==
  \A n \in 1 .. MaxTyped :
    Len(typed) >= n /\ typed[n] = "Q" /\ "C" \notin Before(n) ~> ~Running
=============================================================================
