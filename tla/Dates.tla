------------------------------- MODULE Dates -------------------------------
(***************************************************************************)
(* DateTime, and the dates TableManager gives an entry and its records.    *)
(* A DateTime keeps an instant next to the strings of its date, time and   *)
(* week day; a row keeps the strings only, and reading it makes a DateTime *)
(* of them again.  An addition and an update read the clock twice, for the *)
(* entry and for its record, and the clock runs on in between.             *)
(*                                                                         *)
(* The records are those of one entry, in the order of their IDs; the      *)
(* flaws of Ledger are left out.                                           *)
(***************************************************************************)
EXTENDS Integers, Sequences, SequencesExt

CONSTANTS
  Holder,      \* the caller's variables of type DateTime
  Hours,       \* what a caller adds to a DateTime
  MaxClock,    \* bound: the clock, and the instants a caller computes
  MaxRecords   \* bound: records of the entry

ASSUME DatesAssumption ==
  Hours \subseteq Int /\ MaxClock \in Nat /\ MaxRecords \in Nat

VARIABLES
  clock,     \* the local time
  setBack,   \* ghost: whether the clock has ever been set back
  entry,     \* the strings in the row of the entry
  records,   \* the strings in the rows of its records
  pending,   \* a call has dated the entry, but has yet to date its record
  held       \* the caller's DateTimes

vars == <<clock, setBack, entry, records, pending, held>>

Instant == 0 .. MaxClock

\* Strings that name an instant, with its numbers as they are or with zeros
\* before those of one digit.
Text == [of : Instant, padded : BOOLEAN]
DateTime == [instant : Instant, shown : Text]

TypeOK ==
  /\ clock \in Instant /\ setBack \in BOOLEAN /\ pending \in BOOLEAN
  /\ entry \in Text /\ records \in Seq(Text)
  /\ held \in [Holder -> DateTime]

-----------------------------------------------------------------------------
\* __parse__ writes its numbers with <<, which puts no zeros before them.
Strings(instant) == [of |-> instant, padded |-> FALSE]

\* boost's time_from_string, which is taken to read a number with or without
\* them: the calendar between strings and instants is not modelled.
TimeFromString(text) == text.of

\* A mutant: the strings stay as empty as they are initialised.
NowUnparsed == [instant |-> clock, shown |-> [of |-> -1, padded |-> FALSE]]

\* DateTime()
Now == [instant |-> clock, shown |-> Strings(clock)]

\* DateTime(date, time) throws unless __parse__ makes the given strings of the
\* instant they name.
Readable(text) == Strings(TimeFromString(text)) = text
Parsed(text) == [instant |-> TimeFromString(text), shown |-> text]

\* operator +: the instant is moved on, but the strings are those of the left
\* operand.
Sum(d, hours) ==
  [instant |-> d.instant + hours, shown |-> Strings(d.instant)]

Init ==
  /\ clock \in Instant /\ setBack = FALSE
  /\ entry = Now.shown /\ records = <<>> /\ pending = FALSE
  /\ held = [h \in Holder |-> Now]

-----------------------------------------------------------------------------
Tick ==
  /\ clock < MaxClock
  /\ clock' = clock + 1
  /\ UNCHANGED <<setBack, entry, records, pending, held>>

\* The end of summer time: it is the local time that DateTime reads.
SetBack ==
  /\ ~setBack /\ clock > 0
  /\ clock' = clock - 1
  /\ setBack' = TRUE
  /\ UNCHANGED <<entry, records, pending, held>>

\* add, as far as the entry.
AddEntry ==
  /\ records = <<>> /\ ~pending
  /\ entry' = Now.shown
  /\ pending' = TRUE
  /\ UNCHANGED <<clock, setBack, records, held>>

\* update, as far as the entry, which is read first.
UpdateEntry ==
  /\ records # <<>> /\ ~pending /\ Len(records) < MaxRecords
  /\ Readable(entry)
  /\ entry' = Now.shown
  /\ pending' = TRUE
  /\ UNCHANGED <<clock, setBack, records, held>>

\* The rest of either: the record.
AddRecord ==
  /\ pending
  /\ records' = Append(records, Now.shown)
  /\ pending' = FALSE
  /\ UNCHANGED <<clock, setBack, entry, held>>

\* A mutant: the entry keeps the date of the update that is undone.
UndoKeepingDate ==
  /\ ~pending /\ Len(records) > 1
  /\ records' = Front(records)
  /\ UNCHANGED <<clock, setBack, entry, pending, held>>

\* undo, reading the last record, the one before it, and the entry.
Undo ==
  /\ ~pending /\ Len(records) > 1
  /\ Readable(Last(records)) /\ Readable(Last(Front(records))) /\ Readable(entry)
  /\ records' = Front(records)
  /\ entry' = Parsed(Last(Front(records))).shown
  /\ UNCHANGED <<clock, setBack, pending, held>>

RemoveEntry ==
  /\ ~pending /\ records # <<>>
  /\ records' = <<>>
  /\ UNCHANGED <<clock, setBack, entry, pending, held>>

-----------------------------------------------------------------------------
\* The caller.
Hold(h, d) ==
  /\ d.instant \in Instant
  /\ held' = [held EXCEPT ![h] = d]
  /\ UNCHANGED <<clock, setBack, entry, records, pending>>

TakeNow(h) == Hold(h, Now)

\* Copies and moves alike: the move constructor leaves its source as it is.
Assign(h, from) == Hold(h, held[from])

AddHours(h, from, hours) == Hold(h, Sum(held[from], hours))

\* A text of the caller's own; the constructor throws if it is padded.
Construct(h, text) == Readable(text) /\ Hold(h, Parsed(text))
ConstructThrows(text) == ~Readable(text) /\ UNCHANGED vars

\* getDate and getTime of another one, as one would store them.
Reconstruct(h, from) ==
  Readable(held[from].shown) /\ Hold(h, Parsed(held[from].shown))

ReadEntry(h) == records # <<>> /\ Readable(entry) /\ Hold(h, Parsed(entry))

ReadRecord(h, text) == Readable(text) /\ Hold(h, Parsed(text))

Next ==
  \/ Tick \/ SetBack
  \/ AddEntry \/ UpdateEntry \/ AddRecord \/ Undo \/ RemoveEntry
  \/ \E h \in Holder :
       \/ TakeNow(h) \/ ReadEntry(h)
       \/ \E text \in ToSet(records) : ReadRecord(h, text)
       \/ \E text \in Text : Construct(h, text)
       \/ \E from \in Holder :
            \/ Assign(h, from) \/ Reconstruct(h, from)
            \/ \E hours \in Hours : AddHours(h, from, hours)
  \/ \E text \in Text : ConstructThrows(text)

Spec == Init /\ [][Next]_vars

-----------------------------------------------------------------------------
\* While the clock is not set back the records of an entry are in the order
\* of time, and so is the entry between the last two: never later than its
\* last record, never earlier than the one before, undo or not.
EntryDatedWithRecords ==
  ~setBack =>
    /\ \A i, j \in DOMAIN records : i < j => records[i].of <= records[j].of
    /\ records # <<>> /\ pending => Last(records).of <= entry.of
    /\ records # <<>> /\ ~pending =>
         /\ entry.of <= Last(records).of
         /\ Len(records) > 1 => Last(Front(records)).of <= entry.of
=============================================================================
