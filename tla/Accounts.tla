------------------------------ MODULE Accounts ------------------------------
(***************************************************************************)
(* What TableManager promises, in the words of table_manager.h: accounts   *)
(* that each have a history of transactions, the first of which is their   *)
(* opening; update adds to the end of a history, undo takes its last       *)
(* transaction back, remove takes an account away with its history, a      *)
(* policy moves a share of one account's balance to another.  There are no *)
(* tables, no record IDs and no counters here.                             *)
(*                                                                         *)
(* Each step is what one call, with the ID it was given and the way it     *)
(* ended, may do: to the account it names and to no other.  The amount and *)
(* text of an add or update are those of the history's new transaction.    *)
(***************************************************************************)
EXTENDS Amounts, Sequences, Functions

CONSTANTS
  Ids,          \* the IDs accounts may have
  Transaction,  \* amount, description and status: [value, desc, status]
  Written       \* what an account shows of a description given to update

VARIABLES
  history,    \* the transactions of each account, oldest first
  state,      \* what the account says of itself
  agreements, \* the policies: [source, destination, ratio, desc]
  request     \* the last call, its ID and its outcome

accountVars == <<history, state, agreements, request>>

SumOf(h) == SumFunction([n \in DOMAIN h |-> h[n].value])

Latest(h) == h[Len(h)]

\* An account's balance is the sum of its history, and it shows its latest
\* transaction unless that is its opening.
Shown(h, text) ==
  LET opening == Latest(h).status = "NEW_ENTRY"
  IN  [balance |-> Wrap(SumOf(h)), last |-> IF opening THEN 0 ELSE Latest(h).value,
       desc |-> text,
       status |-> IF opening THEN "UNKNOWN" ELSE Latest(h).status]

Extended(h, id, t) == [h EXCEPT ![id] = Append(@, t)]

\* undo leaves an account its opening.
Shortened(h, id) ==
  IF Len(h[id]) > 1 THEN [h EXCEPT ![id] = SubSeq(@, 1, Len(@) - 1)] ELSE h

\* Only the accounts named may have changed, and those show their history.
OnlyOf(ids) ==
  /\ DOMAIN state' = DOMAIN history'
  /\ \A k \in DOMAIN history' :
       \/ history'[k] = history[k] /\ state'[k] = state[k]
       \/ k \in ids /\ state'[k] = Shown(history'[k], Written[Latest(history'[k]).desc])

AccountsInit ==
  /\ history = <<>> /\ state = <<>> /\ agreements = <<>>
  /\ request = [op |-> "open", id |-> 0, outcome |-> "ok"]

Returned(op) == request'.op = op /\ request'.outcome = "ok"
Threw(op) == request'.op = op /\ request'.outcome = "throws"

\* The IDs of accounts may be used again, once they are free.
Opened ==
  LET id == request'.id
      t == Latest(history'[id])
  IN  /\ Returned("add")
      /\ id \in Ids \ DOMAIN history /\ id \in DOMAIN history'
      /\ t \in Transaction /\ t.status = "NEW_ENTRY"
      /\ history' = [k \in DOMAIN history \cup {id} |->
                       IF k = id THEN <<t>> ELSE history[k]]
      /\ state' = [k \in DOMAIN history \cup {id} |->
                     IF k = id THEN Shown(<<t>>, t.desc) ELSE state[k]]

Transacted ==
  LET id == request'.id
      t == Latest(history'[id])
  IN  /\ Returned("update") /\ id \in DOMAIN history
      /\ t \in Transaction /\ history' = Extended(history, id, t)
      /\ OnlyOf({id})

Undone ==
  /\ Returned("undo") /\ request'.id \in DOMAIN history
  /\ history' = Shortened(history, request'.id)
  /\ OnlyOf({request'.id})

Closed ==
  /\ Returned("remove") /\ request'.id \in DOMAIN history
  /\ history' = [k \in DOMAIN history \ {request'.id} |-> history[k]]
  /\ OnlyOf({})

-----------------------------------------------------------------------------
\* The policy a call names, its share of what its source has, and its parties.
Policy == agreements[request'.id]
Share == [value |-> Hundredth(Wrap(state[Policy.source].balance * Policy.ratio)),
          desc |-> Policy.desc, status |-> "APPLIED_POLICY"]
Debit == [Share EXCEPT !.value = -@]
Parties == {Policy.source, Policy.destination}

Known == request'.id \in DOMAIN agreements
HasParties == Known /\ Parties \subseteq DOMAIN history
HasSourceOnly ==
  Known /\ Policy.source \in DOMAIN history /\ Policy.destination \notin DOMAIN history

\* What the source loses the destination gains.
Transferred ==
  /\ Returned("applyPolicy") /\ HasParties
  /\ history' = Extended(Extended(history, Policy.source, Debit),
                         Policy.destination, Share)
  /\ OnlyOf(Parties)

TransferUndone ==
  /\ Returned("undoPolicy") /\ HasParties
  /\ history' = Shortened(Shortened(history, Policy.source), Policy.destination)
  /\ OnlyOf(Parties)

\* A policy whose destination is gone: the source pays, and the call throws.
Debited ==
  /\ Threw("applyPolicy") /\ HasSourceOnly
  /\ history' = Extended(history, Policy.source, Debit)
  /\ OnlyOf({Policy.source})

HalfUndone ==
  /\ Threw("undoPolicy") /\ HasSourceOnly
  /\ history' = Shortened(history, Policy.source)
  /\ OnlyOf({Policy.source})

\* The calls that leave the accounts alone: those that throw for an ID that
\* does not exist or a text that cannot be written, and opening the file.
Refused ==
  /\ \/ Threw("update") \/ Threw("applyPolicy") \/ Returned("open")
     \/ (Threw("undo") \/ Threw("remove")) /\ request'.id \notin DOMAIN history
     \/ Threw("undoPolicy") /\ (Known => Policy.source \notin DOMAIN history)
  /\ UNCHANGED <<history, state>>

\* Policies are made and withdrawn without a word to the accounts.
Agreed ==
  /\ Returned("createPolicy")
  /\ DOMAIN agreements' = DOMAIN agreements \cup {request'.id}
  /\ \A k \in DOMAIN agreements : agreements'[k] = agreements[k]
  /\ UNCHANGED <<history, state>>

Cancelled ==
  /\ Returned("deletePolicy")
  /\ agreements' = [k \in DOMAIN agreements \ {request'.id} |-> agreements[k]]
  /\ UNCHANGED <<history, state>>

AccountsNext ==
  \/ /\ \/ Opened \/ Transacted \/ Undone \/ Closed
        \/ Transferred \/ TransferUndone \/ Debited \/ HalfUndone \/ Refused
     /\ UNCHANGED agreements
  \/ Agreed \/ Cancelled

AccountsSpec == AccountsInit /\ [][AccountsNext]_accountVars
=============================================================================
