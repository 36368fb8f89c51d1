------------------------------- MODULE Billing -------------------------------
(* Usage and invoices of one organization: RecordUsage and GenerateInvoice of *)
(* internal/billing/service.go over internal/database/billing.go.            *)
(* Organizations share no rows.  Every statement is a step of its own.       *)
EXTENDS Integers, FiniteSets, Functions

CONSTANTS
    Usages,      \* bound: ids of usage records
    Invoices,    \* bound: ids of invoices
    Clients,     \* concurrent requests
    Quantities,  \* quantities of a record, in 1/Scale hours
    Scale,       \* a power of two, so that sums of quantities are exact
    Months,      \* bound: months that pass
    MaxFaults    \* bound: requests that end early and reads that stop short

ASSUME QuantityAssumption == Quantities \subseteq Nat \ {0} /\ Scale \in Nat \ {0}
ASSUME UsageAssumption == IsFiniteSet(Usages)
ASSUME BoundAssumption == Months \in Nat \ {0} /\ MaxFaults \in Nat

VARIABLES
    month,    \* the current month
    usage,    \* usage_records by id
    invoice,  \* invoices by id, each with its line items
    req,      \* the request each client has in flight
    answered, \* invoices returned to a client
    faults    \* faults so far

vars == <<month, usage, invoice, req, answered, faults>>

unitPrices == [cpu_hours |-> 50, memory_gb_hours |-> 20, disk_gb_hours |-> 1]
Types == DOMAIN unitPrices

\* The order of the line items.
Position == [cpu_hours |-> 1, memory_gb_hours |-> 2, disk_gb_hours |-> 3]

NotRecorded == [type |-> "none"]
UsageRows == [type : Types, quantity : Quantities, at : 1..Months]

\* What an invoice is made from: the month it is for, the month in which the
\* usage was read, the records read, the invoices of the time, and whether the
\* read stopped short.
Bills == [month : 1..Months, read : 1..Months, covers : SUBSET Usages,
          before : SUBSET Invoices, short : BOOLEAN]

NotIssued == [amount |-> -1]
InvoiceRows == [amount : Nat, lines : [Types -> Nat], bill : Bills]

Idle == [pc |-> "idle"]
At(c, pc) == req[c].pc = pc

TypeOK ==
    /\ month \in 1..Months
    /\ usage \in [Usages -> UsageRows \cup {NotRecorded}]
    /\ invoice \in [Invoices -> InvoiceRows \cup {NotIssued}]
    /\ req \in [Clients -> {Idle}
                    \cup [pc : {"record"}, row : UsageRows]
                    \cup [pc : {"read"}, month : 1..Months]
                    \cup [pc : {"create"}, bill : Bills]
                    \cup [pc : {"lines"}, id : Invoices, due : SUBSET Types]]
    /\ answered \subseteq Invoices
    /\ faults \in 0..MaxFaults

Init ==
    /\ month = 1
    /\ usage = [u \in Usages |-> NotRecorded]
    /\ invoice = [i \in Invoices |-> NotIssued]
    /\ req = [c \in Clients |-> Idle]
    /\ answered = {}
    /\ faults = 0

Recorded == {u \in Usages : usage[u] # NotRecorded}
Issued == {i \in Invoices : invoice[i] # NotIssued}

-----------------------------------------------------------------------------
(* RecordUsage stamps the record, then inserts it.                           *)

\* Mutant: recorded_at is left at the zero time.
BeginRecord_Unstamped(c, t, q) ==
    /\ req[c] = Idle
    /\ req' = [req EXCEPT ![c] =
                 [pc |-> "record", row |-> [type |-> t, quantity |-> q, at |-> 0]]]
    /\ UNCHANGED <<month, usage, invoice, answered, faults>>

BeginRecord(c, t, q) ==
    /\ req[c] = Idle
    /\ req' = [req EXCEPT ![c] =
                 [pc |-> "record", row |-> [type |-> t, quantity |-> q, at |-> month]]]
    /\ UNCHANGED <<month, usage, invoice, answered, faults>>

Record(c, u) ==
    /\ At(c, "record")
    /\ u \notin Recorded
    /\ usage' = [usage EXCEPT ![u] = req[c].row]
    /\ req' = [req EXCEPT ![c] = Idle]
    /\ UNCHANGED <<month, invoice, answered, faults>>

-----------------------------------------------------------------------------
(* GenerateInvoice for the month in which it starts.                         *)

BeginInvoice(c) ==
    /\ req[c] = Idle
    /\ req' = [req EXCEPT ![c] = [pc |-> "read", month |-> month]]
    /\ UNCHANGED <<month, usage, invoice, answered, faults>>

\* Mutant: all usage is summed up, whenever it was recorded.
Since_Ever(m) == Recorded

\* Mutant: usage that is on an invoice already is left out.
Since_Unbilled(m) ==
    {u \in Recorded : usage[u].at >= m /\ \A i \in Issued : u \notin invoice[i].bill.covers}

\* There is a start of the period and no end.
Since(m) == {u \in Recorded : usage[u].at >= m}

Bill(m, types) ==
    LET read == {u \in Since(m) : usage[u].type \in types}
    IN [month |-> m, read |-> month, covers |-> read,
        before |-> Issued, short |-> read # Since(m)]

GetSummary(c) ==
    /\ At(c, "read")
    /\ req' = [req EXCEPT ![c] = [pc |-> "create", bill |-> Bill(req[c].month, Types)]]
    /\ UNCHANGED <<month, usage, invoice, answered, faults>>

\* The connection fails between two rows, one per type, and nobody looks at
\* rows.Err().
GetSummaryShort(c, types) ==
    /\ At(c, "read")
    /\ faults < MaxFaults
    /\ faults' = faults + 1
    /\ req' = [req EXCEPT ![c] = [pc |-> "create", bill |-> Bill(req[c].month, types)]]
    /\ UNCHANGED <<month, usage, invoice, answered>>

Quantity(bill, t) ==
    SumFunction([u \in {u \in bill.covers : usage[u].type = t} |-> usage[u].quantity])

\* int64 drops the fraction of a cent.
Cents(t, quantity) == (quantity * unitPrices[t]) \div Scale

\* Mutant: the fractions are dropped from the sum.
Total_Exact(quantity) ==
    SumFunction([t \in Types |-> quantity[t] * unitPrices[t]]) \div Scale

Total(quantity) == SumFunction([t \in Types |-> Cents(t, quantity[t])])

Lines(bill) == [t \in Types |-> Quantity(bill, t)]

\* The request has lines of invoice i left to add, or answers with i.
Continue(c, i, due) ==
    IF due = {}
    THEN req' = [req EXCEPT ![c] = Idle] /\ answered' = answered \cup {i}
    ELSE /\ req' = [req EXCEPT ![c] = [pc |-> "lines", id |-> i, due |-> due]]
         /\ answered' = answered

NoLines == [t \in Types |-> 0]

Create(c, i) ==
    LET bill == req[c].bill
    IN /\ At(c, "create")
       /\ i \notin Issued
       /\ invoice' = [invoice EXCEPT ![i] =
                        [amount |-> Total(Lines(bill)), lines |-> NoLines, bill |-> bill]]
       /\ Continue(c, i, {t \in Types : Quantity(bill, t) > 0})
       /\ UNCHANGED <<month, usage, faults>>

AddLineItem(c) ==
    \E t \in Types :
        LET i == req[c].id
            due == req[c].due
        IN /\ At(c, "lines")
           /\ t \in due /\ \A s \in due : Position[t] <= Position[s]
           /\ invoice' = [invoice EXCEPT ![i].lines[t] = Quantity(invoice[i].bill, t)]
           /\ Continue(c, i, due \ {t})
           /\ UNCHANGED <<month, usage, faults>>

-----------------------------------------------------------------------------
(* Time and failures.                                                        *)

MonthEnds ==
    /\ month < Months
    /\ month' = month + 1
    /\ UNCHANGED <<usage, invoice, req, answered, faults>>

\* A statement fails, before or after it took effect, the client goes away or
\* the server dies.
Abandon(c) ==
    /\ req[c] # Idle
    /\ faults < MaxFaults
    /\ faults' = faults + 1
    /\ req' = [req EXCEPT ![c] = Idle]
    /\ UNCHANGED <<month, usage, invoice, answered>>

Step(c) ==
    \/ \E t \in Types, q \in Quantities : BeginRecord(c, t, q)
    \/ \E u \in Usages : Record(c, u)
    \/ BeginInvoice(c) \/ GetSummary(c)
    \/ \E types \in SUBSET Types : GetSummaryShort(c, types)
    \/ \E i \in Invoices : Create(c, i)
    \/ AddLineItem(c) \/ Abandon(c)

Next == MonthEnds \/ \E c \in Clients : Step(c)

Spec == Init /\ [][Next]_vars

-----------------------------------------------------------------------------
(* Properties.                                                               *)

\* The line items of an invoice never exceed its amount, and those of an
\* invoice that was returned add up to it, cent by cent.
ItemsAddUp ==
    \A i \in Issued :
        LET items == SumFunction([t \in Types |-> Cents(t, invoice[i].lines[t])])
        IN items <= invoice[i].amount /\ (i \in answered => items = invoice[i].amount)

\* A usage record is on invoices of two months only if the month of the earlier
\* one ended between the start of its request and the read: GetSummary has a
\* start and no end.
OneMonth ==
    \A i, j \in Issued :
        /\ invoice[i].bill.month < invoice[j].bill.month
        /\ invoice[i].bill.covers \cap invoice[j].bill.covers # {}
        => invoice[i].bill.read > invoice[i].bill.month

\* An invoice supersedes those of its month that existed when its usage was
\* read: it is never for less, unless the read stopped short.
LaterIsMore ==
    \A j \in Issued : \A i \in invoice[j].bill.before :
        invoice[i].bill.month = invoice[j].bill.month /\ ~invoice[j].bill.short
            => invoice[i].amount <= invoice[j].amount
=============================================================================
