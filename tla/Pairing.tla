------------------------------- MODULE Pairing -------------------------------
(***************************************************************************)
(* combineTransactions of the cron script: it walks over the transactions  *)
(* of a batch in the order of their transId, and each rule in turn may put *)
(* the transaction it stands on together with an add-on further right.     *)
(*                                                                         *)
(* A description counts by what the rules look for: it may contain         *)
(* "compact" in any case, and it may start like an add-on.                 *)
(***************************************************************************)
EXTENDS Integers, Sequences, SequencesExt

CONSTANTS
    Count,      \* the number of transactions of the batch
    Customer,   \* pairs of a colour and an e-mail, undefined ones included
    Invoice,    \* the numbers of the invoices
    NoInvoice   \* no invoice number, or one that does not parse

ASSUME PairingAssumption == Count \in Nat /\ Invoice \subseteq Int /\ NoInvoice \notin Int

VARIABLES
    trans,      \* the transactions, by their place in the sorted batch
    list,       \* the list that is walked: singles <<t>> and pairs <<t, u>>
    position,
    rule        \* the rule whose turn it is

vars == <<trans, list, position, rule>>

Txn == 1 .. Count

\* What a description is to the rules.
Kind == {"plain", "case", "upgrade", "hardwood"}
Transaction == [kind : Kind, customer : Customer, invoice : Invoice \cup {NoInvoice}]

\* isAcceptable: CompactRule wants "compact" in any case, HardwoodRule nothing.
Accepts(r, kind) == r = "compact" => kind \in {"case", "upgrade"}

\* matchToDescription: it starts with the words of the rule.
Matches(r, kind) == IF r = "compact" THEN kind = "upgrade" ELSE kind = "hardwood"

None == -1

\* compareTransactionInvoices; None for null.
Diff(t, u) ==
    LET a == trans[t].invoice
        b == trans[u].invoice IN
    IF a = NoInvoice \/ b = NoInvoice THEN None ELSE IF a < b THEN b - a ELSE a - b

Single(entry) == Len(entry) = 1

\* u may be combined with t by rule r.
Candidate(r, t, u) ==
    /\ Matches(r, trans[u].kind)
    /\ trans[u].customer = trans[t].customer

Init ==
    /\ trans \in [Txn -> Transaction]
    /\ list = [t \in Txn |-> <<t>>]
    /\ position = 1 /\ rule = "compact"

-----------------------------------------------------------------------------
(* CombineRule.process.                                                    *)

\* Mutant of Step: the last add-on without a smaller distance is taken.
StepTakesLast(r, t, found, entry) ==
    IF ~Single(entry) \/ ~Candidate(r, t, entry[1]) THEN found
    ELSE [match |-> entry[1], diff |-> Diff(t, entry[1])]

\* Mutant of Step: a description that only contains "compact" is an add-on.
StepIncludes(r, t, found, entry) ==
    IF ~Single(entry) \/ trans[entry[1]].kind = "plain" THEN found
    ELSE [match |-> entry[1], diff |-> Diff(t, entry[1])]

\* One turn of the loop: the match so far and its distance.
Step(r, t, found, entry) ==
    IF ~Single(entry) \/ ~Candidate(r, t, entry[1]) THEN found
    ELSE LET u == entry[1]
             diff == Diff(t, u) IN
         IF diff # None /\ (found.diff = None \/ diff < found.diff)
         THEN [match |-> u, diff |-> diff]
         ELSE [found EXCEPT !.match = IF @ = None THEN u ELSE @]

Match(r, i) ==
    FoldLeft(LAMBDA found, entry : Step(r, list[i][1], found, entry),
             [match |-> None, diff |-> None],
             SubSeq(list, i + 1, Len(list))).match

\* Mutant of Combined: the add-on also stays where it was.
CombinedKeeps(i, u) == [list EXCEPT ![i] = Append(@, u)]

\* The list after transaction u went to the entry at i.
Combined(i, u) ==
    RemoveAt([list EXCEPT ![i] = Append(@, u)],
             CHOOSE j \in i + 1 .. Len(list) : list[j] = <<u>>)

-----------------------------------------------------------------------------
(* combineTransactions.                                                    *)

\* Mutant of Go: the walk steps over the entry after a pair.
GoTwice == position' = IF Len(list') < Len(list) THEN position + 2 ELSE position + 1

Go == position' = position + 1

\* Mutant of Combine: a pair may get a third transaction.
CombineArrays ==
    /\ position <= Len(list)
    /\ Accepts(rule, trans[list[position][1]].kind)
    /\ LET u == Match(rule, position) IN
       u # None /\ list' = Combined(position, u)
    /\ IF rule = "compact"
       THEN rule' = "hardwood" /\ UNCHANGED position
       ELSE rule' = "compact" /\ Go
    /\ UNCHANGED trans

\* The rule accepts the entry and finds an add-on: the other rule is skipped.
Combine ==
    /\ position <= Len(list) /\ Single(list[position])
    /\ Accepts(rule, trans[list[position][1]].kind)
    /\ LET u == Match(rule, position) IN
       u # None /\ list' = Combined(position, u)
    /\ rule' = "compact" /\ Go
    /\ UNCHANGED trans

\* The rule does not accept the entry or finds nothing.
Pass ==
    /\ position <= Len(list)
    /\ \/ ~Single(list[position])
       \/ ~Accepts(rule, trans[list[position][1]].kind)
       \/ Match(rule, position) = None
    /\ UNCHANGED <<trans, list>>
    /\ IF rule = "compact"
       THEN rule' = "hardwood" /\ UNCHANGED position
       ELSE rule' = "compact" /\ Go

Next == Combine \/ Pass

Spec == Init /\ [][Next]_vars

-----------------------------------------------------------------------------
(* Properties.                                                             *)

Over == position > Len(list)

Rule == {"compact", "hardwood"}

\* By some rule, t may take u, which comes later in the batch.
May(t, u) == t < u /\ \E r \in Rule : Accepts(r, trans[t].kind) /\ Candidate(r, t, u)

Groups == {{list[i][k] : k \in DOMAIN list[i]} : i \in DOMAIN list}

Goes == [t \in Txn |-> {u \in Txn : May(t, u)}]

GroupingOf == INSTANCE Grouping WITH groups <- Groups, goes <- Goes

\* The transactions of the list are those of the batch, each in one place; the
\* abstract state is a set, so a transaction that is kept twice shows here.
EachOnce ==
    \A t \in Txn :
        \E i \in DOMAIN list : \E k \in DOMAIN list[i] :
            /\ list[i][k] = t
            /\ \A j \in DOMAIN list : \A l \in DOMAIN list[j] :
                  list[j][l] = t => i = j /\ k = l

\* The merging of transactions refines Grouping: one pair at a time, of a
\* transaction and an add-on, and nothing that was merged is touched again.
RefinesGrouping == GroupingOf!Spec

\* A pair is two purchases of one customer in one colour, the add-on starts like
\* one (containing the word is not enough), and it came after its main.
PairsFit == \A i \in DOMAIN list : Single(list[i]) \/ May(list[i][1], list[i][2])

\* In the end no two single transactions are left that would go together.
NothingLeft ==
    Over => \A i, j \in DOMAIN list :
        Single(list[i]) /\ Single(list[j]) => ~May(list[i][1], list[j][1])

\* The add-on of a pair is the one whose invoice is closest: no other add-on that
\* was still free to go with the same main is closer.  Free are those left over
\* and those that a later transaction took.
ClosestTaken ==
    Over => \A i \in DOMAIN list, j \in DOMAIN list :
        LET t == list[i][1]
            u == list[i][2]
            c == Last(list[j])
            free == j # i /\ (Single(list[j]) \/ list[j][1] > t) IN
        \A r \in Rule :
            (/\ ~Single(list[i]) /\ free /\ t < c
             /\ Candidate(r, t, u) /\ Candidate(r, t, c)
             /\ Diff(t, c) # None)
            => Diff(t, u) # None /\ Diff(t, u) <= Diff(t, c)

=============================================================================
