---------------------------- MODULE ConsoleProofs ----------------------------
(***************************************************************************)
(* That what has been read decides where the console program is, for any   *)
(* number of keys.  That it goes on reading is left to TLC.                *)
(***************************************************************************)
EXTENDS Console, SequenceTheorems, TLAPS

\* What was read before is read still, whatever is typed.
LEMMA TypedBefore ==
  ASSUME NEW s \in Seq(Keys), NEW key \in Keys
  PROVE  /\ Append(s, key) \in Seq(Keys) /\ Len(Append(s, key)) = Len(s) + 1
         /\ \A k \in 1 .. Len(s) : Append(s, key)[k] = s[k]
BY AppendProperties

\* Reading one key adds it to those read.
LEMMA ReadNext ==
  ASSUME TypeOK, Waiting
  PROVE  /\ read \in Nat /\ Len(typed) \in Nat /\ read + 1 \in 1 .. Len(typed)
         /\ NextKey \in Keys
         /\ Before(read + 1) = Before(read) \cup {NextKey}
<1>1. read \in Nat /\ Len(typed) \in Nat /\ read + 1 \in 1 .. Len(typed)
  BY DEF TypeOK, Waiting
<1>2. NextKey \in Keys
  BY <1>1 DEF TypeOK, NextKey
<1>3. 1 .. (read + 1) = (1 .. read) \cup {read + 1}
  BY <1>1
<1>4. Before(read + 1) = Before(read) \cup {NextKey}
  BY <1>3 DEF Before, NextKey
<1> QED
  BY <1>1, <1>2, <1>4

ConsoleInv == TypeOK /\ FirstKeyDecides

\* A step of the program reads a key and goes where the key says.
LEMMA ReadKeepsInv ==
  ASSUME ConsoleInv, NEW nextLoop \in Loops, Reads(nextLoop),
         \/ loop = "main" /\ NextKey = "C" /\ nextLoop = "operations"
         \/ loop = "main" /\ NextKey \notin {"C", "Q"} /\ nextLoop = "main"
         \/ loop = "main" /\ nextLoop = "threw"
         \/ loop = "main" /\ NextKey = "Q" /\ nextLoop = "returned"
         \/ loop = "operations" /\ nextLoop = "operations"
  PROVE  ConsoleInv'
<1>1. /\ typed' = typed /\ closed' = closed /\ read' = read + 1 /\ loop' = nextLoop
      /\ Waiting /\ TypeOK
  BY DEF Reads, ConsoleInv
<1>2. /\ read \in Nat /\ Len(typed) \in Nat /\ read + 1 \in 1 .. Len(typed)
      /\ Before(read + 1) = Before(read) \cup {NextKey}
  BY <1>1, ReadNext
<1>3. TypeOK'
  BY <1>1, <1>2 DEF TypeOK
<1>4. Before(read)' = Before(read) \cup {NextKey}
  BY <1>1, <1>2 DEF Before
<1>5. typed'[read'] = NextKey
  BY <1>1 DEF NextKey
<1>6. \A n : Before(n)' = Before(n)
  BY <1>1 DEF Before
<1>7. CASE loop = "main"
  <2>1. Before(read) \cap {"C", "Q"} = {}
    BY <1>7 DEF ConsoleInv, FirstKeyDecides
  <2>2. loop' = "main" <=> Before(read)' \cap {"C", "Q"} = {} /\ loop' # "threw"
    BY <1>1, <1>4, <1>7, <2>1
  <2>3. loop' = "returned" => typed'[read'] = "Q" /\ "C" \notin Before(read)'
    BY <1>1, <1>4, <1>5, <1>7, <2>1
  <2>4. loop' = "operations" =>
          \E k \in 1 .. read' : typed'[k] = "C" /\ "Q" \notin Before(k)'
    <3> SUFFICES ASSUME loop' = "operations"
                 PROVE  \E k \in 1 .. read' : typed'[k] = "C" /\ "Q" \notin Before(k)'
      OBVIOUS
    <3>1. PICK n \in Nat : n = read + 1
      BY <1>2
    <3>2. typed[n] = "C" /\ Before(n) = Before(read) \cup {"C"}
      BY <1>1, <1>2, <1>7, <3>1 DEF NextKey
    <3>3. n \in 1 .. read' /\ typed'[n] = "C" /\ "Q" \notin Before(n)
      BY <1>1, <1>2, <2>1, <3>1, <3>2
    <3> QED
      BY <1>6, <3>3
  <2> QED
    BY <1>3, <2>2, <2>3, <2>4 DEF ConsoleInv, FirstKeyDecides
<1>8. CASE loop = "operations"
  <2>1. PICK k \in 1 .. read : typed[k] = "C" /\ "Q" \notin Before(k)
    BY <1>8 DEF ConsoleInv, FirstKeyDecides
  <2>2. k \in 1 .. read' /\ typed'[k] = "C" /\ "Q" \notin Before(k)'
    BY <1>1, <1>2, <1>6, <2>1
  <2>3. "C" \in Before(read)'
    BY <2>2 DEF Before
  <2> QED
    BY <1>1, <1>3, <1>8, <2>2, <2>3 DEF ConsoleInv, FirstKeyDecides
<1> QED
  BY <1>7, <1>8

LEMMA ConsoleStep ==
  ASSUME ConsoleInv, [Next]_vars
  PROVE  ConsoleInv'
<1>1. ASSUME NEW key \in Keys, Type(key) PROVE ConsoleInv'
  <2>1. typed' = Append(typed, key) /\ UNCHANGED <<closed, read, loop>>
    BY <1>1 DEF Type
  <2>2. TypeOK' /\ read \in Nat /\ read <= Len(typed) /\ Len(typed) \in Nat
    BY <2>1, TypedBefore DEF ConsoleInv, TypeOK
  <2>3. \A k \in 1 .. Len(typed) : typed'[k] = typed[k]
    BY <2>1, TypedBefore DEF ConsoleInv, TypeOK
  <2>4. \A n \in 0 .. read : Before(n)' = Before(n)
    <3> SUFFICES ASSUME NEW n \in 0 .. read
                 PROVE  {typed'[k] : k \in 1 .. n} = {typed[k] : k \in 1 .. n}
      BY DEF Before
    <3>1. \A k \in 1 .. n : k \in 1 .. Len(typed)
      BY <2>2
    <3> QED
      BY <2>3, <3>1
  <2>5. Before(read)' = Before(read)
    BY <2>1, <2>2, <2>4 DEF Before
  <2>6. loop = "returned" => read \in 1 .. Len(typed)
    <3>1. ASSUME loop = "returned", read = 0 PROVE FALSE
      <4>1. Before(read) = {}
        BY <3>1 DEF Before
      <4> QED
        BY <3>1, <4>1 DEF ConsoleInv, FirstKeyDecides
    <3> QED
      BY <2>2, <3>1
  <2>7. loop = "main" <=> Before(read) \cap {"C", "Q"} = {} /\ loop # "threw"
    BY DEF ConsoleInv, FirstKeyDecides
  <2>8. loop = "returned" => typed'[read] = "Q" /\ "C" \notin Before(read)
    BY <2>3, <2>6 DEF ConsoleInv, FirstKeyDecides
  <2>9. loop = "operations" =>
          \E k \in 1 .. read : typed'[k] = "C" /\ "Q" \notin Before(k)'
    <3> SUFFICES ASSUME loop = "operations"
                 PROVE  \E k \in 1 .. read : typed'[k] = "C" /\ "Q" \notin Before(k)'
      OBVIOUS
    <3>1. PICK k \in 1 .. read : typed[k] = "C" /\ "Q" \notin Before(k)
      BY DEF ConsoleInv, FirstKeyDecides
    <3>2. k \in 0 .. read /\ k \in 1 .. Len(typed)
      BY <2>2
    <3> QED
      BY <2>3, <2>4, <3>1, <3>2
  <2> QED
    BY <2>1, <2>2, <2>5, <2>7, <2>8, <2>9 DEF ConsoleInv, FirstKeyDecides
<1>2. CASE CloseInput \/ ReadEnd \/ UNCHANGED vars
  BY <1>2 DEF CloseInput, ReadEnd, vars, ConsoleInv, TypeOK, FirstKeyDecides, Before
<1>3. CASE MainCycleTable
  BY <1>3, ReadKeepsInv DEF MainCycleTable, Loops
<1>4. CASE MainDailyTable
  BY <1>4, ReadKeepsInv DEF MainDailyTable, Loops
<1>5. CASE MainListThrows
  BY <1>5, ReadKeepsInv DEF MainListThrows, Loops
<1>6. CASE MainQuit
  BY <1>6, ReadKeepsInv DEF MainQuit, Loops
<1>7. CASE MainIgnores
  BY <1>7, ReadKeepsInv DEF MainIgnores, Loops
<1>8. CASE Operations
  BY <1>8, ReadKeepsInv DEF Operations, Loops
<1> QED
  BY <1>1, <1>2, <1>3, <1>4, <1>5, <1>6, <1>7, <1>8 DEF Next, Run

LEMMA ConsoleInvariance == Spec => []ConsoleInv
<1>1. Init => ConsoleInv
  <2> SUFFICES ASSUME Init PROVE ConsoleInv
    OBVIOUS
  <2>1. TypeOK /\ read = 0
    <3>1. typed \in Seq(Keys) /\ Len(typed) = 0
      BY DEF Init
    <3>2. read = 0 /\ read \in 0 .. 0
      BY DEF Init
    <3> QED
      BY <3>1, <3>2 DEF Init, TypeOK, Loops
  <2>2. Before(0) = {}
    BY DEF Before
  <2> QED
    BY <2>1, <2>2 DEF Init, ConsoleInv, FirstKeyDecides
<1>2. ConsoleInv /\ [Next]_vars => ConsoleInv'
  BY ConsoleStep
<1> QED
  BY <1>1, <1>2, PTL DEF Spec

\* The program never reads more keys than were typed.
THEOREM ConsoleIsTyped == Spec => []TypeOK
BY ConsoleInvariance, PTL DEF ConsoleInv

\* run() goes on in the main loop as long as neither a 'C' nor a 'Q' has come
\* and nothing was thrown; it returns only on a 'Q' that no 'C' came before; and
\* it is among the operations only after a 'C' that no 'Q' came before.
THEOREM KeysDecide == Spec => []FirstKeyDecides
BY ConsoleInvariance, PTL DEF ConsoleInv
=============================================================================
