---------------------------- MODULE BillingProofs ----------------------------
(* Which usage an invoice covers and what it is for, for every number of     *)
(* records, invoices, clients, months and faults.                            *)
EXTENDS Billing, SumTheorems

\* What a bill covers was recorded from the month it is for to the month of the
\* read; and unless the read stopped short, it covers what earlier invoices of
\* its month cover.
Sound(bill) ==
    /\ bill \in Bills
    /\ bill.month <= bill.read /\ bill.read <= month
    /\ bill.before \subseteq Issued
    /\ \A u \in bill.covers :
          u \in Recorded /\ bill.month <= usage[u].at /\ usage[u].at <= bill.read
    /\ \A i \in bill.before :
          invoice[i].bill.month = bill.month /\ ~bill.short
              => invoice[i].bill.covers \subseteq bill.covers

UsagesDated ==
    \A u \in Recorded : usage[u] \in UsageRows /\ usage[u].at <= month

RequestsSound ==
    \A c \in Clients :
        /\ At(c, "record") => req[c].row \in UsageRows /\ req[c].row.at <= month
        /\ At(c, "read") => req[c].month \in 1..Months /\ req[c].month <= month
        /\ At(c, "create") => Sound(req[c].bill)
        /\ At(c, "lines") => req[c].id \in Issued

Fields == {"amount", "lines", "bill"}
InvoicesSound ==
    \A i \in Issued : Sound(invoice[i].bill) /\ DOMAIN invoice[i] = Fields

BillInv ==
    /\ month \in 1..Months
    /\ DOMAIN usage = Usages /\ DOMAIN invoice = Invoices /\ DOMAIN req = Clients
    /\ UsagesDated /\ RequestsSound /\ InvoicesSound

\* Records and bills stay what they are, and months only pass: a sound bill
\* stays sound.
Kept ==
    /\ month \in Nat /\ month' \in Nat /\ month <= month'
    /\ \A u \in Recorded : u \in Recorded' /\ usage'[u] = usage[u]
    /\ \A i \in Issued :
          /\ i \in Issued' /\ invoice'[i].bill = invoice[i].bill
          /\ DOMAIN invoice'[i] = DOMAIN invoice[i]

LEMMA SoundKept ==
    ASSUME Kept, NEW bill, Sound(bill)
    PROVE  Sound(bill)'
<1>1. bill.read \in Nat
  BY BoundAssumption DEF Sound, Bills
<1> QED
  BY <1>1 DEF Sound, Kept

LEMMA InitBillInv == Init => BillInv
<1> SUFFICES ASSUME Init PROVE BillInv
  OBVIOUS
<1>1. Recorded = {} /\ Issued = {}
  BY DEF Init, Recorded, Issued
<1>2. \A c \in Clients : req[c].pc = "idle"
  BY DEF Init, Idle
<1>3. UsagesDated /\ InvoicesSound
  BY <1>1 DEF UsagesDated, InvoicesSound
<1>4. RequestsSound
  BY <1>2 DEF RequestsSound, At
<1>5. month \in 1..Months
  BY BoundAssumption DEF Init
<1> QED
  BY <1>3, <1>4, <1>5 DEF Init, BillInv

\* What GetSummary reads, all types or some, makes a sound bill.
LEMMA BillSound ==
    ASSUME BillInv, NEW m \in 1..Months, m <= month, NEW types
    PROVE  Sound(Bill(m, types))
<1> DEFINE read == {u \in Since(m) : usage[u].type \in types}
           bill == Bill(m, types)
<1>1. /\ bill.month = m /\ bill.read = month /\ bill.covers = read
      /\ bill.before = Issued /\ bill.short = (read # Since(m))
  BY DEF Bill
<1>2. read \in SUBSET Usages /\ Issued \in SUBSET Invoices
  BY DEF Since, Recorded, Issued
<1>3. bill \in Bills
  BY <1>2 DEF BillInv, Bill, Bills
<1>4. \A u \in read : u \in Recorded /\ m <= usage[u].at /\ usage[u].at <= month
  BY DEF BillInv, UsagesDated, Since
<1>5. ASSUME NEW i \in Issued, invoice[i].bill.month = m, read = Since(m)
      PROVE  invoice[i].bill.covers \subseteq read
  <2>1. Sound(invoice[i].bill)
    BY DEF BillInv, InvoicesSound
  <2>2. invoice[i].bill.covers \subseteq Since(m)
    BY <1>5, <2>1 DEF Sound, Since
  <2> QED
    BY <1>5, <2>2
<1> HIDE DEF bill, read
<1>6. bill.month <= bill.read /\ bill.read <= month /\ bill.before \subseteq Issued
  BY <1>1, BoundAssumption DEF BillInv
<1>7. \A i \in bill.before :
          invoice[i].bill.month = bill.month /\ ~bill.short
              => invoice[i].bill.covers \subseteq bill.covers
  BY <1>1, <1>5
<1>8. Sound(bill)
  BY <1>1, <1>3, <1>4, <1>6, <1>7 DEF Sound
<1> QED
  BY <1>8 DEF bill

-----------------------------------------------------------------------------
\* A step that keeps records and bills, and leaves the request of every client
\* but c alone, has to be looked at only for c and for what it adds.
LEMMA OthersKept ==
    ASSUME BillInv, Kept, NEW c \in Clients,
           \A d \in Clients \ {c} : req'[d] = req[d],
           At(c, "record")' => req'[c].row \in UsageRows /\ req'[c].row.at <= month',
           At(c, "read")' => req'[c].month \in 1..Months /\ req'[c].month <= month',
           At(c, "create")' => Sound(req[c].bill)',
           At(c, "lines")' => req'[c].id \in Issued'
    PROVE  RequestsSound'
<1>1. ASSUME NEW d \in Clients, d # c
      PROVE  /\ At(d, "record")' => req'[d].row \in UsageRows /\ req'[d].row.at <= month'
             /\ At(d, "read")' => req'[d].month \in 1..Months /\ req'[d].month <= month'
             /\ At(d, "create")' => Sound(req[d].bill)'
             /\ At(d, "lines")' => req'[d].id \in Issued'
  <2>0. req'[d] = req[d] /\ RequestsSound
    BY <1>1 DEF BillInv
  <2>1. At(d, "record")' => req'[d].row \in UsageRows /\ req'[d].row.at <= month'
    <3>1. At(d, "record") => req[d].row \in UsageRows /\ req[d].row.at <= month
      BY <2>0 DEF RequestsSound
    <3> QED
      BY <2>0, <3>1, BoundAssumption DEF At, UsageRows, Kept
  <2>2. At(d, "read")' => req'[d].month \in 1..Months /\ req'[d].month <= month'
    <3>1. At(d, "read") => req[d].month \in 1..Months /\ req[d].month <= month
      BY <2>0 DEF RequestsSound
    <3> QED
      BY <2>0, <3>1, BoundAssumption DEF At, Kept
  <2>3. ASSUME At(d, "create")'
        PROVE  Sound(req[d].bill)'
    <3>1. PICK b : b = req[d].bill
      OBVIOUS
    <3>2. Sound(b)
      BY <2>0, <2>3, <3>1 DEF RequestsSound, At
    <3>3. Sound(b)'
      BY <3>2, SoundKept
    <3>4. req'[d].bill = b
      BY <2>0, <3>1
    <3> QED
      BY <3>3, <3>4 DEF Sound
  <2>4. At(d, "lines")' => req'[d].id \in Issued'
    <3>1. At(d, "lines") => req[d].id \in Issued
      BY <2>0 DEF RequestsSound
    <3> QED
      BY <2>0, <3>1 DEF At, Kept
  <2> QED
    BY <2>1, <2>2, <2>3, <2>4
<1> QED
  BY <1>1 DEF RequestsSound

\* A step that issues no invoice keeps the invoices sound.
LEMMA InvoicesKept ==
    ASSUME BillInv, Kept, Issued' = Issued
    PROVE  InvoicesSound'
<1> SUFFICES ASSUME NEW i \in Issued
             PROVE  Sound(invoice[i].bill)' /\ DOMAIN invoice'[i] = Fields
  BY DEF InvoicesSound
<1>0. DOMAIN invoice'[i] = Fields
  BY DEF BillInv, InvoicesSound, Kept
<1>1. PICK b : b = invoice[i].bill
  OBVIOUS
<1>2. Sound(b)
  BY <1>1 DEF BillInv, InvoicesSound
<1>3. Sound(b)' /\ invoice'[i].bill = b
  BY <1>1, <1>2, SoundKept DEF Kept
<1> QED
  BY <1>0, <1>3 DEF Sound

LEMMA BillStep ==
    ASSUME BillInv, [Next]_vars
    PROVE  BillInv'
<1>0. /\ month \in 1..Months /\ month \in Nat
      /\ DOMAIN usage = Usages /\ DOMAIN invoice = Invoices /\ DOMAIN req = Clients
      /\ UsagesDated /\ RequestsSound /\ InvoicesSound
  BY BoundAssumption DEF BillInv
\* A step that leaves time, records and invoices alone.
<1>1. ASSUME NEW c \in Clients, month' = month, usage' = usage, invoice' = invoice,
             DOMAIN req' = Clients, \A d \in Clients \ {c} : req'[d] = req[d],
             At(c, "record")' => req'[c].row \in UsageRows /\ req'[c].row.at <= month',
             At(c, "read")' => req'[c].month \in 1..Months /\ req'[c].month <= month',
             At(c, "create")' => Sound(req[c].bill)',
             At(c, "lines")' => req'[c].id \in Issued'
      PROVE  BillInv'
  <2>1. Kept /\ Issued' = Issued /\ Recorded' = Recorded
    BY <1>0, <1>1 DEF Kept, Issued, Recorded
  <2>2. RequestsSound' /\ InvoicesSound'
    BY <1>1, <2>1, OthersKept, InvoicesKept
  <2>3. UsagesDated'
    BY <1>0, <1>1, <2>1 DEF UsagesDated
  <2> QED
    BY <1>0, <1>1, <2>2, <2>3 DEF BillInv
<1>2. ASSUME NEW c \in Clients, NEW t \in Types, NEW q \in Quantities, BeginRecord(c, t, q)
      PROVE  BillInv'
  <2>1. req'[c] = [pc |-> "record", row |-> [type |-> t, quantity |-> q, at |-> month]]
        /\ DOMAIN req' = Clients /\ \A d \in Clients \ {c} : req'[d] = req[d]
    BY <1>0, <1>2 DEF BeginRecord
  <2>2. [type |-> t, quantity |-> q, at |-> month] \in UsageRows
    BY <1>0 DEF UsageRows
  <2> QED
    BY <1>0, <1>1, <1>2, <2>1, <2>2 DEF BeginRecord, At
<1>3. ASSUME NEW c \in Clients, NEW u \in Usages, Record(c, u)
      PROVE  BillInv'
  <2>1. /\ req'[c] = Idle /\ DOMAIN req' = Clients
        /\ \A d \in Clients \ {c} : req'[d] = req[d]
        /\ usage'[u] = req[c].row /\ DOMAIN usage' = Usages
        /\ \A v \in Usages \ {u} : usage'[v] = usage[v]
        /\ month' = month /\ invoice' = invoice
    BY <1>0, <1>3 DEF Record
  <2>2. usage'[u] \in UsageRows /\ usage'[u].at <= month
    BY <1>0, <1>3, <2>1 DEF Record, RequestsSound
  <2>3. Issued' = Issued /\ Recorded' \subseteq Recorded \cup {u}
    BY <2>1 DEF Issued, Recorded
  <2>4. Kept
    BY <1>0, <1>3, <2>1, <2>3 DEF Kept, Record, Recorded
  <2>5. RequestsSound' /\ InvoicesSound'
    BY <1>3, <2>1, <2>3, <2>4, OthersKept, InvoicesKept DEF At, Idle
  <2>6. UsagesDated'
    BY <1>0, <2>1, <2>2, <2>3 DEF UsagesDated, Recorded
  <2> QED
    BY <1>0, <2>1, <2>5, <2>6 DEF BillInv
<1>4. ASSUME NEW c \in Clients, BeginInvoice(c)
      PROVE  BillInv'
  <2>1. req'[c] = [pc |-> "read", month |-> month]
        /\ DOMAIN req' = Clients /\ \A d \in Clients \ {c} : req'[d] = req[d]
    BY <1>0, <1>4 DEF BeginInvoice
  <2> QED
    BY <1>0, <1>1, <1>4, <2>1 DEF BeginInvoice, At
<1>5. ASSUME NEW c \in Clients, NEW types,
             (GetSummary(c) /\ types = Types) \/ GetSummaryShort(c, types)
      PROVE  BillInv'
  <2>1. /\ req'[c] = [pc |-> "create", bill |-> Bill(req[c].month, types)]
        /\ DOMAIN req' = Clients /\ \A d \in Clients \ {c} : req'[d] = req[d]
        /\ month' = month /\ usage' = usage /\ invoice' = invoice
    BY <1>0, <1>5 DEF GetSummary, GetSummaryShort
  <2>2. PICK b : b = Bill(req[c].month, types)
    OBVIOUS
  <2>3. req[c].month \in 1..Months /\ req[c].month <= month
    BY <1>0, <1>5 DEF GetSummary, GetSummaryShort, RequestsSound
  <2>4. Sound(b)
    BY <2>2, <2>3, BillSound
  <2>5. Kept
    BY <1>0, <2>1 DEF Kept, Issued, Recorded
  <2>6. Sound(b)' /\ req'[c].bill = b
    BY <2>1, <2>2, <2>4, <2>5, SoundKept
  <2>7. Sound(req[c].bill)'
    BY <2>6 DEF Sound
  <2> QED
    BY <1>1, <2>1, <2>7 DEF At
<1>6. ASSUME NEW c \in Clients, NEW i \in Invoices, Create(c, i)
      PROVE  BillInv'
  <2> DEFINE row == [amount |-> Total(Lines(req[c].bill)), lines |-> NoLines,
                     bill |-> req[c].bill]
  <2>1. /\ invoice' = [invoice EXCEPT ![i] = row] /\ i \notin Issued
        /\ month' = month /\ usage' = usage
    BY <1>6 DEF Create
  <2>2. /\ DOMAIN req' = Clients /\ \A d \in Clients \ {c} : req'[d] = req[d]
        /\ req'[c] = Idle \/ \E due : req'[c] = [pc |-> "lines", id |-> i, due |-> due]
    BY <1>0, <1>6 DEF Create, Continue
  <2>3. PICK b : b = req[c].bill
    OBVIOUS
  <2>4. Sound(b)
    BY <1>0, <1>6, <2>3 DEF Create, RequestsSound
  <2>5. /\ DOMAIN invoice' = Invoices /\ invoice'[i].bill = b /\ invoice'[i] # NotIssued
        /\ \A j \in Invoices \ {i} : invoice'[j] = invoice[j]
        /\ DOMAIN invoice'[i] = Fields
    <3>1. row # NotIssued /\ row.bill = b /\ DOMAIN row = Fields
      BY <2>3 DEF NotIssued, Fields
    <3> HIDE DEF row
    <3> QED
      BY <1>0, <2>1, <3>1
  <2>6. Issued' = Issued \cup {i} /\ Recorded' = Recorded
    BY <2>1, <2>5 DEF Issued, Recorded
  <2>7. Kept
    BY <1>0, <2>1, <2>5, <2>6 DEF Kept, Issued
  <2>8. RequestsSound'
    BY <2>2, <2>6, <2>7, OthersKept DEF At, Idle
  <2>9. InvoicesSound'
    <3> SUFFICES ASSUME NEW j \in Issued'
                 PROVE  Sound(invoice[j].bill)' /\ DOMAIN invoice'[j] = Fields
      BY DEF InvoicesSound
    <3>1. CASE j = i
      <4>1. Sound(b)'
        BY <2>4, <2>7, SoundKept
      <4> QED
        BY <2>5, <3>1, <4>1 DEF Sound
    <3>2. CASE j # i
      <4>1. j \in Issued /\ invoice'[j] = invoice[j]
        BY <2>5, <2>6, <3>2 DEF Issued
      <4>2. PICK e : e = invoice[j].bill
        OBVIOUS
      <4>3. Sound(e) /\ DOMAIN invoice[j] = Fields
        BY <1>0, <4>1, <4>2 DEF InvoicesSound
      <4>4. Sound(e)' /\ invoice'[j].bill = e
        BY <2>7, <4>1, <4>2, <4>3, SoundKept
      <4> QED
        BY <4>1, <4>3, <4>4 DEF Sound
    <3> QED
      BY <3>1, <3>2
  <2>10. UsagesDated'
    BY <1>0, <2>1, <2>6 DEF UsagesDated
  <2> QED
    BY <1>0, <2>1, <2>2, <2>5, <2>8, <2>9, <2>10 DEF BillInv
<1>7. ASSUME NEW c \in Clients, AddLineItem(c)
      PROVE  BillInv'
  <2>1. PICK t \in Types :
          /\ At(c, "lines")
          /\ invoice' = [invoice EXCEPT ![req[c].id].lines[t]
                                          = Quantity(invoice[req[c].id].bill, t)]
          /\ Continue(c, req[c].id, req[c].due \ {t})
          /\ month' = month /\ usage' = usage
    BY <1>7 DEF AddLineItem
  <2>2. PICK k \in Issued : k = req[c].id
    BY <1>0, <2>1 DEF RequestsSound
  <2>3. /\ DOMAIN req' = Clients /\ \A d \in Clients \ {c} : req'[d] = req[d]
        /\ req'[c] = Idle \/ \E due : req'[c] = [pc |-> "lines", id |-> k, due |-> due]
    BY <1>0, <2>1, <2>2 DEF Continue
  <2>4. /\ DOMAIN invoice' = Invoices
        /\ \A j \in Invoices \ {k} : invoice'[j] = invoice[j]
        /\ invoice'[k] = [invoice[k] EXCEPT
                           !.lines = [@ EXCEPT ![t] = Quantity(invoice[k].bill, t)]]
    BY <1>0, <2>1, <2>2 DEF Issued
  <2>5. DOMAIN invoice[k] = Fields
    BY <1>0, <2>2 DEF InvoicesSound
  <2>6. DOMAIN invoice'[k] = Fields /\ invoice'[k].bill = invoice[k].bill
    BY <2>4, <2>5 DEF Fields
  <2>7. invoice'[k] # NotIssued
    <3>1. DOMAIN NotIssued # Fields
      BY DEF NotIssued, Fields
    <3> QED
      BY <2>6, <3>1
  <2>8. Issued' = Issued /\ Recorded' = Recorded
    BY <2>1, <2>2, <2>4, <2>7 DEF Issued, Recorded
  <2>9. Kept
    BY <1>0, <2>1, <2>4, <2>5, <2>6, <2>8 DEF Kept, Issued
  <2>10. RequestsSound' /\ InvoicesSound'
    BY <2>2, <2>3, <2>8, <2>9, OthersKept, InvoicesKept DEF At, Idle
  <2>11. UsagesDated'
    BY <1>0, <2>1, <2>8 DEF UsagesDated
  <2> QED
    BY <1>0, <2>1, <2>3, <2>4, <2>10, <2>11 DEF BillInv
<1>8. CASE MonthEnds
  <2>1. month' \in 1..Months /\ month <= month' /\ month' \in Nat
    BY <1>0, <1>8, BoundAssumption DEF MonthEnds
  <2>2. usage' = usage /\ invoice' = invoice /\ req' = req
    BY <1>8 DEF MonthEnds
  <2>3. Kept /\ Issued' = Issued /\ Recorded' = Recorded
    BY <1>0, <2>1, <2>2 DEF Kept, Issued, Recorded
  <2>4. InvoicesSound'
    BY <2>3, InvoicesKept
  <2>5. UsagesDated'
    BY <1>0, <2>1, <2>2, <2>3, BoundAssumption DEF UsagesDated, UsageRows
  <2>6. RequestsSound'
    <3>1. ASSUME NEW c \in Clients
          PROVE  RequestsSound'
      <4>1. /\ At(c, "record") => req[c].row \in UsageRows /\ req[c].row.at <= month
            /\ At(c, "read") => req[c].month \in 1..Months /\ req[c].month <= month
            /\ At(c, "create") => Sound(req[c].bill)
            /\ At(c, "lines") => req[c].id \in Issued
        BY <1>0 DEF RequestsSound
      <4>2. /\ At(c, "record")' => req'[c].row \in UsageRows /\ req'[c].row.at <= month'
            /\ At(c, "read")' => req'[c].month \in 1..Months /\ req'[c].month <= month'
            /\ At(c, "lines")' => req'[c].id \in Issued'
        BY <1>0, <2>1, <2>2, <2>3, <4>1, BoundAssumption DEF At, UsageRows
      <4>3. ASSUME At(c, "create")'
            PROVE  Sound(req[c].bill)'
        <5>1. PICK b : b = req[c].bill
          OBVIOUS
        <5>2. Sound(b) /\ req'[c].bill = b
          BY <2>2, <4>1, <4>3, <5>1 DEF At
        <5>3. Sound(b)'
          BY <2>3, <5>2, SoundKept
        <5> QED
          BY <5>2, <5>3 DEF Sound
      <4> QED
        BY <2>2, <2>3, <4>2, <4>3, OthersKept
    <3> QED
      BY <3>1 DEF RequestsSound
  <2> QED
    BY <1>0, <2>1, <2>2, <2>4, <2>5, <2>6 DEF BillInv
<1>9. ASSUME NEW c \in Clients, Abandon(c)
      PROVE  BillInv'
  <2>1. req'[c] = Idle /\ DOMAIN req' = Clients /\ \A d \in Clients \ {c} : req'[d] = req[d]
    BY <1>0, <1>9 DEF Abandon
  <2> QED
    BY <1>1, <1>9, <2>1 DEF Abandon, At, Idle
<1>10. CASE UNCHANGED vars
  <2>1. UNCHANGED <<month, usage, invoice, req>>
    BY <1>10 DEF vars
  <2>2. UsagesDated' /\ RequestsSound' /\ InvoicesSound'
    BY <1>0, <2>1 DEF UsagesDated, RequestsSound, InvoicesSound, Sound, At, Recorded, Issued
  <2> QED
    BY <1>0, <2>1, <2>2 DEF BillInv
<1> QED
  BY <1>2, <1>3, <1>4, <1>5, <1>6, <1>7, <1>8, <1>9, <1>10 DEF Next, Step

THEOREM BillInvHolds == Spec => []BillInv
<1>1. BillInv /\ [Next]_vars => BillInv'
  BY BillStep
<1> QED
  BY <1>1, InitBillInv, PTL DEF Spec

\* For any number of clients and months, a usage record is billed in two months
\* only if a request was overtaken by the end of its month.
THEOREM BilledInOneMonth == Spec => []OneMonth
<1>1. BillInv => OneMonth
  <2> SUFFICES ASSUME BillInv, NEW i \in Issued, NEW j \in Issued,
                      invoice[i].bill.month < invoice[j].bill.month,
                      NEW u \in invoice[i].bill.covers, u \in invoice[j].bill.covers
               PROVE  invoice[i].bill.read > invoice[i].bill.month
    BY DEF OneMonth
  <2>1. Sound(invoice[i].bill) /\ Sound(invoice[j].bill)
    BY DEF BillInv, InvoicesSound
  <2>2. invoice[j].bill.month <= usage[u].at /\ usage[u].at <= invoice[i].bill.read
    BY <2>1 DEF Sound
  <2>3. /\ invoice[j].bill.month \in 1..Months /\ invoice[i].bill.month \in 1..Months
        /\ invoice[i].bill.read \in 1..Months /\ usage[u].at \in 1..Months
    BY <2>1 DEF Sound, Bills, BillInv, UsagesDated, UsageRows
  <2> QED
    BY <2>2, <2>3, BoundAssumption
<1> QED
  BY <1>1, BillInvHolds, PTL

\* An invoice covers all the usage of those of its month that existed when its
\* usage was read, unless the read stopped short: what LaterIsMore rests on.
THEOREM LaterCoversMore ==
    Spec => [](\A j \in Issued : \A i \in invoice[j].bill.before :
                  invoice[i].bill.month = invoice[j].bill.month /\ ~invoice[j].bill.short
                      => invoice[i].bill.covers \subseteq invoice[j].bill.covers)
<1> DEFINE Covers ==
        \A j \in Issued : \A i \in invoice[j].bill.before :
            invoice[i].bill.month = invoice[j].bill.month /\ ~invoice[j].bill.short
                => invoice[i].bill.covers \subseteq invoice[j].bill.covers
<1>1. BillInv => Covers
  BY DEF BillInv, InvoicesSound, Sound
<1> QED
  BY <1>1, BillInvHolds, PTL

-----------------------------------------------------------------------------
(* Amounts.  Quantities and line items are sums that stay what they are.     *)

\* There are three types of usage, each with a price.
LEMMA TypesAreFinite ==
    IsFiniteSet(Types) /\ \A t \in Types : unitPrices[t] \in Nat
<1>1. Types = {"cpu_hours", "memory_gb_hours"} \cup {"disk_gb_hours"}
  BY DEF Types, unitPrices
<1>2. IsFiniteSet({"cpu_hours"} \cup {"memory_gb_hours"})
  BY FS_Singleton, FS_Union
<1>3. {"cpu_hours", "memory_gb_hours"} = {"cpu_hours"} \cup {"memory_gb_hours"}
  OBVIOUS
<1>4. IsFiniteSet(Types)
  BY <1>1, <1>2, <1>3, FS_Singleton, FS_Union
<1> QED
  BY <1>4 DEF Types, unitPrices

\* A larger quantity is worth no fewer cents.
LEMMA MoreCents ==
    ASSUME NEW t \in Types, NEW p \in Nat, NEW q \in Nat, p <= q
    PROVE  Cents(t, p) \in Nat /\ Cents(t, p) <= Cents(t, q)
<1> DEFINE price == unitPrices[t]
<1>1. price \in Nat /\ Scale \in Nat \ {0}
  BY TypesAreFinite, QuantityAssumption
<1> HIDE DEF price
<1>2. p * price \in Nat /\ q * price \in Nat /\ p * price <= q * price
  BY <1>1, ProductOrder
<1>3. /\ (p * price) \div Scale \in Nat
      /\ (p * price) \div Scale <= (q * price) \div Scale
  BY <1>1, <1>2, DivisionOrder
<1> QED
  BY <1>3 DEF Cents, price

\* Larger quantities are worth no less in total.
LEMMA MoreInTotal ==
    ASSUME NEW p \in [Types -> Nat], NEW q \in [Types -> Nat],
           \A t \in Types : p[t] <= q[t]
    PROVE  Total(p) \in Nat /\ Total(p) <= Total(q)
<1> DEFINE f == [t \in Types |-> Cents(t, p[t])]
           g == [t \in Types |-> Cents(t, q[t])]
<1>1. ASSUME NEW t \in Types
      PROVE  Cents(t, p[t]) \in Nat /\ Cents(t, q[t]) \in Nat
             /\ Cents(t, p[t]) <= Cents(t, q[t])
  <2>1. p[t] \in Nat /\ q[t] \in Nat /\ p[t] <= q[t] /\ q[t] <= q[t]
    OBVIOUS
  <2> QED
    BY <2>1, MoreCents
<1>2. f \in [Types -> Nat] /\ g \in [Types -> Nat] /\ \A t \in Types : f[t] <= g[t]
  BY <1>1
<1> HIDE DEF f, g
<1>3. SumFunction(f) \in Nat /\ SumFunction(f) <= SumFunction(g)
  BY <1>2, TypesAreFinite, SumCounts, SumMonotone
<1> QED
  BY <1>3 DEF Total, f, g

Covered(bill, t) == {u \in bill.covers : usage[u].type = t}
Covering(bill, t) == [u \in Covered(bill, t) |-> usage[u].quantity]

\* The quantity on a sound bill is a number.
LEMMA QuantityType ==
    ASSUME UsagesDated, NEW bill, Sound(bill), NEW t
    PROVE  /\ IsFiniteSet(Covered(bill, t)) /\ Quantity(bill, t) \in Nat
           /\ Covering(bill, t) \in [Covered(bill, t) -> Nat]
           /\ Quantity(bill, t) = SumFunction(Covering(bill, t))
<1>1. Covered(bill, t) \subseteq Usages
  BY DEF Covered, Sound, Recorded
<1>2. IsFiniteSet(Covered(bill, t))
  BY <1>1, UsageAssumption, FS_Subset
<1>3. \A u \in Covered(bill, t) : usage[u].quantity \in Nat
  BY QuantityAssumption DEF Covered, Sound, UsagesDated, UsageRows
<1>4. Covering(bill, t) \in [Covered(bill, t) -> Nat]
  BY <1>3 DEF Covering
<1>5. Quantity(bill, t) = SumFunction(Covering(bill, t))
  BY DEF Quantity, Covering, Covered
<1> QED
  BY <1>2, <1>4, <1>5, SumCounts

\* It grows with the records covered.
LEMMA MoreQuantity ==
    ASSUME UsagesDated, NEW a, Sound(a), NEW b, Sound(b),
           a.covers \subseteq b.covers, NEW t
    PROVE  Quantity(a, t) <= Quantity(b, t)
<1>1. Covered(a, t) \in SUBSET Covered(b, t)
  BY DEF Covered
<1>2. \A u \in Covered(a, t) : Covering(a, t)[u] <= Covering(b, t)[u]
  <2>1. \A u \in Covered(a, t) : Covering(a, t)[u] = Covering(b, t)[u]
    BY <1>1 DEF Covering
  <2>2. \A u \in Covered(a, t) : Covering(a, t)[u] \in Nat
    BY QuantityType
  <2> QED
    BY <2>1, <2>2
<1> QED
  BY <1>1, <1>2, QuantityType, SumMonotone

\* And it stays what it is.
LEMMA QuantityKept ==
    ASSUME Kept, NEW bill, Sound(bill), NEW t
    PROVE  Quantity(bill, t)' = Quantity(bill, t)
<1>1. \A u \in bill.covers : usage'[u] = usage[u]
  BY DEF Kept, Sound
<1>2. {u \in bill.covers : usage'[u].type = t} = {u \in bill.covers : usage[u].type = t}
  BY <1>1
<1>3. [u \in {u \in bill.covers : usage'[u].type = t} |-> usage'[u].quantity]
      = [u \in {u \in bill.covers : usage[u].type = t} |-> usage[u].quantity]
  BY <1>1, <1>2
<1> QED
  BY <1>3 DEF Quantity
-----------------------------------------------------------------------------
(* Line items.  An item is missing or is the quantity on the bill; the items  *)
(* a request has not added yet are those it has still to add.                 *)

Priced(inv) ==
    /\ inv \in InvoiceRows
    /\ inv.amount = Total(Lines(inv.bill))
    /\ \A t \in Types : inv.lines[t] \in {0, Quantity(inv.bill, t)}

Full(inv, t) == inv.lines[t] = Quantity(inv.bill, t)

ItemsInv ==
    /\ \A i \in Issued : Priced(invoice[i])
    /\ answered \subseteq Issued
    /\ \A i \in answered, t \in Types : Full(invoice[i], t)
    /\ \A c \in Clients : At(c, "lines") =>
          /\ req[c].due \subseteq Types
          /\ \A t \in Types \ req[c].due : Full(invoice[req[c].id], t)

\* Prices and line items hold as long as records are kept.
LEMMA PricedKept ==
    ASSUME Kept, NEW inv, Sound(inv.bill)
    PROVE  /\ Priced(inv) => Priced(inv)'
           /\ \A t \in Types : Full(inv, t) => Full(inv, t)'
<1>1. \A t \in Types : Quantity(inv.bill, t)' = Quantity(inv.bill, t)
  BY QuantityKept
<1>2. Lines(inv.bill)' = Lines(inv.bill)
  BY <1>1 DEF Lines
<1> QED
  BY <1>1, <1>2 DEF Priced, Full

\* A line item that is added is the one that was missing.
LEMMA LineAdded ==
    ASSUME UsagesDated, NEW inv, Sound(inv.bill), Priced(inv), NEW t \in Types,
           NEW new,
           new = [inv EXCEPT !.lines = [@ EXCEPT ![t] = Quantity(inv.bill, t)]]
    PROVE  /\ Priced(new) /\ new.bill = inv.bill /\ Full(new, t)
           /\ \A s \in Types : Full(inv, s) => Full(new, s)
<1>1. inv \in InvoiceRows /\ Quantity(inv.bill, t) \in Nat
  BY QuantityType DEF Priced
<1>2. /\ new \in InvoiceRows /\ new.bill = inv.bill /\ new.amount = inv.amount
      /\ new.lines[t] = Quantity(inv.bill, t)
      /\ \A s \in Types \ {t} : new.lines[s] = inv.lines[s]
  BY <1>1 DEF InvoiceRows
<1> QED
  BY <1>2 DEF Priced, Full

\* What a step keeps of the invoices there are, and what it may do to one.
Grown(old, new) ==
    /\ Priced(new) /\ new.bill = old.bill
    /\ \A t \in Types : Full(old, t) => Full(new, t)

\* A step that lets the invoices grow keeps the invariant, if what it issues,
\* answers with and has still to add is right.
LEMMA ItemsKept ==
    ASSUME BillInv, BillInv', Kept, ItemsInv,
           \A i \in Issued : Grown(invoice[i], invoice'[i]),
           \A i \in Issued' \ Issued : Priced(invoice[i])',
           NEW moved, \A d \in Clients \ moved : req'[d] = req[d],
           answered' \subseteq Issued',
           \A i \in answered' \ answered, t \in Types : Full(invoice[i], t)',
           \A c \in moved : At(c, "lines")' =>
               /\ req'[c].due \subseteq Types
               /\ \A t \in Types \ req'[c].due : Full(invoice[req[c].id], t)'
    PROVE  ItemsInv'
<1>1. ASSUME NEW i \in Issued
      PROVE  Priced(invoice[i])' /\ \A t \in Types : Full(invoice[i], t) => Full(invoice[i], t)'
  <2>1. PICK inv : inv = invoice'[i]
    OBVIOUS
  <2>2. Sound(inv.bill) /\ Priced(inv)
    BY <2>1 DEF Grown, BillInv, InvoicesSound
  <2>3. \A t \in Types : Full(invoice[i], t) => Full(inv, t)
    BY <2>1 DEF Grown
  <2>4. Priced(inv)' /\ \A t \in Types : Full(inv, t) => Full(inv, t)'
    BY <2>2, PricedKept
  <2> QED
    BY <2>1, <2>3, <2>4 DEF Priced, Full
<1>2. \A i \in Issued' : Priced(invoice[i])'
  BY <1>1
<1>3. \A i \in answered', t \in Types : Full(invoice[i], t)'
  BY <1>1 DEF ItemsInv
<1>4. ASSUME NEW d \in Clients, At(d, "lines")'
      PROVE  /\ req'[d].due \subseteq Types
             /\ \A t \in Types \ req'[d].due : Full(invoice[req[d].id], t)'
  <2>1. CASE d \in moved
    BY <1>4, <2>1
  <2>2. CASE d \notin moved
    <3>1. req'[d] = req[d] /\ At(d, "lines")
      BY <1>4, <2>2 DEF At
    <3>2. PICK i \in Issued : i = req[d].id
      BY <3>1 DEF BillInv, RequestsSound
    <3>3. /\ req[d].due \subseteq Types
          /\ \A t \in Types \ req[d].due : Full(invoice[i], t)
      BY <3>1, <3>2 DEF ItemsInv
    <3>4. \A t \in Types \ req[d].due : Full(invoice[i], t)'
      BY <1>1, <3>3
    <3> QED
      BY <3>1, <3>2, <3>3, <3>4 DEF Full
  <2> QED
    BY <2>1, <2>2
<1> QED
  BY <1>2, <1>3, <1>4 DEF ItemsInv

\* Every step keeps records and bills.
LEMMA StepKept ==
    ASSUME BillInv, [Next]_vars
    PROVE  Kept
<1>0. /\ month \in Nat /\ DOMAIN usage = Usages /\ DOMAIN invoice = Invoices
      /\ InvoicesSound /\ RequestsSound
  BY BoundAssumption DEF BillInv
<1>1. ASSUME usage' = usage, invoice' = invoice, month' \in Nat, month <= month'
      PROVE  Kept
  BY <1>0, <1>1 DEF Kept, Recorded, Issued
<1>2. ASSUME NEW c \in Clients, NEW u \in Usages, Record(c, u) PROVE Kept
  <2>1. /\ month' = month /\ invoice' = invoice /\ u \notin Recorded
        /\ \A v \in Usages \ {u} : usage'[v] = usage[v]
    BY <1>0, <1>2 DEF Record
  <2> QED
    BY <1>0, <2>1 DEF Kept, Recorded, Issued
<1>3. ASSUME NEW c \in Clients, NEW i \in Invoices, Create(c, i) PROVE Kept
  <2>1. /\ month' = month /\ usage' = usage /\ i \notin Issued
        /\ \A j \in Invoices \ {i} : invoice'[j] = invoice[j]
    BY <1>0, <1>3 DEF Create
  <2> QED
    BY <1>0, <2>1 DEF Kept, Recorded, Issued
<1>4. ASSUME NEW c \in Clients, AddLineItem(c) PROVE Kept
  <2>1. PICK k \in Issued : k = req[c].id
    BY <1>0, <1>4 DEF AddLineItem, RequestsSound
  <2>2. PICK t \in Types :
            invoice' = [invoice EXCEPT ![k].lines[t] = Quantity(invoice[k].bill, t)]
    BY <1>4, <2>1 DEF AddLineItem
  <2>3. /\ \A j \in Invoices \ {k} : invoice'[j] = invoice[j]
        /\ invoice'[k] = [invoice[k] EXCEPT
                           !.lines = [@ EXCEPT ![t] = Quantity(invoice[k].bill, t)]]
    BY <1>0, <2>1, <2>2 DEF Issued
  <2>4. DOMAIN invoice[k] = Fields
    BY <1>0, <2>1 DEF InvoicesSound
  <2>5. DOMAIN invoice'[k] = Fields /\ invoice'[k].bill = invoice[k].bill
    BY <2>3, <2>4 DEF Fields
  <2>6. invoice'[k] # NotIssued
    <3>1. DOMAIN NotIssued # Fields
      BY DEF NotIssued, Fields
    <3> QED
      BY <2>5, <3>1
  <2>7. month' = month /\ usage' = usage
    BY <1>4 DEF AddLineItem
  <2>8. \A u \in Recorded : u \in Recorded' /\ usage'[u] = usage[u]
    BY <2>7 DEF Recorded
  <2>9. \A i \in Issued : /\ i \in Issued' /\ invoice'[i].bill = invoice[i].bill
                         /\ DOMAIN invoice'[i] = DOMAIN invoice[i]
    BY <2>1, <2>3, <2>4, <2>5, <2>6 DEF Issued
  <2> QED
    BY <1>0, <2>7, <2>8, <2>9 DEF Kept
<1>5. CASE MonthEnds
  BY <1>0, <1>1, <1>5 DEF MonthEnds
<1>6. CASE UNCHANGED vars
  BY <1>0, <1>1, <1>6 DEF vars
<1>7. ASSUME NEW c \in Clients, Step(c),
             \A u \in Usages : ~Record(c, u),
             \A i \in Invoices : ~Create(c, i), ~AddLineItem(c)
      PROVE  Kept
  <2>1. UNCHANGED <<month, usage, invoice>>
    BY <1>7 DEF Step, BeginRecord, BeginInvoice, GetSummary, GetSummaryShort, Abandon
  <2> QED
    BY <1>0, <1>1, <2>1
<1> QED
  BY <1>2, <1>3, <1>4, <1>5, <1>6, <1>7 DEF Next

\* Every step keeps the line items right.
LEMMA ItemsStep ==
    ASSUME BillInv, BillInv', ItemsInv, [Next]_vars
    PROVE  ItemsInv'
<1>0. /\ Kept /\ DOMAIN invoice = Invoices /\ DOMAIN req = Clients
      /\ InvoicesSound /\ RequestsSound /\ UsagesDated
  BY StepKept DEF BillInv
<1>1. \A i \in Issued : Grown(invoice[i], invoice[i])
  BY DEF ItemsInv, Grown
<1>2. ASSUME invoice' = invoice, answered' = answered, NEW moved,
             \A d \in Clients \ moved : req'[d] = req[d],
             \A d \in moved : req'[d].pc # "lines"
      PROVE  ItemsInv'
  <2>1. Issued' = Issued
    BY <1>2 DEF Issued
  <2>2. \A i \in Issued : Grown(invoice[i], invoice'[i])
    BY <1>1, <1>2
  <2>3. \A d \in moved : ~At(d, "lines")'
    BY <1>2 DEF At
  <2>4. answered' \subseteq Issued'
    BY <1>2, <2>1 DEF ItemsInv
  <2> QED
    BY <1>0, <1>2, <2>1, <2>2, <2>3, <2>4, ItemsKept
<1>3. ASSUME NEW c \in Clients, Step(c),
             \A i \in Invoices : ~Create(c, i), ~AddLineItem(c)
      PROVE  ItemsInv'
  <2>1. /\ invoice' = invoice /\ answered' = answered
        /\ \A d \in Clients \ {c} : req'[d] = req[d]
        /\ req'[c].pc # "lines"
    BY <1>0, <1>3 DEF Step, BeginRecord, Record, BeginInvoice, GetSummary,
                      GetSummaryShort, Abandon, Idle
  <2>2. PICK moved : moved = {c}
    OBVIOUS
  <2>3. \A d \in Clients \ moved : req'[d] = req[d]
    BY <2>1, <2>2
  <2>4. \A d \in moved : req'[d].pc # "lines"
    BY <2>1, <2>2
  <2> QED
    BY <1>2, <2>1, <2>3, <2>4
<1>4. ASSUME NEW c \in Clients, NEW i \in Invoices, Create(c, i) PROVE ItemsInv'
  <2>1. PICK b : b = req[c].bill
    OBVIOUS
  <2>2. Sound(b) /\ i \notin Issued
    BY <1>0, <1>4, <2>1 DEF Create, RequestsSound
  <2> DEFINE due == {t \in Types : Quantity(b, t) > 0}
  <2>3. PICK inv : inv = [amount |-> Total(Lines(b)), lines |-> NoLines, bill |-> b]
    OBVIOUS
  <2>4. invoice'[i] = inv /\ \A j \in Invoices \ {i} : invoice'[j] = invoice[j]
    BY <1>0, <1>4, <2>1, <2>3 DEF Create
  <2>5. \A t \in Types : Quantity(b, t) \in Nat
    BY <1>0, <2>2, QuantityType
  <2>6. Lines(b) \in [Types -> Nat]
    BY <2>5 DEF Lines
  <2>7. Total(Lines(b)) \in Nat
    <3>1. \A t \in Types : Lines(b)[t] <= Lines(b)[t]
      BY <2>6
    <3> QED
      BY <2>6, <3>1, MoreInTotal
  <2>8. Priced(inv) /\ \A t \in Types \ due : Full(inv, t)
    <3>1. inv \in InvoiceRows /\ inv.amount = Total(Lines(b)) /\ inv.bill = b
          /\ \A t \in Types : inv.lines[t] = 0
      BY <2>2, <2>3, <2>7 DEF InvoiceRows, NoLines, Sound
    <3> QED
      BY <2>5, <3>1 DEF Priced, Full
  <2>9. Priced(inv)' /\ \A t \in Types \ due : Full(inv, t)'
    <3>1. Sound(inv.bill)
      BY <2>2, <2>3
    <3> QED
      BY <1>0, <2>8, <3>1, PricedKept
  <2>10. /\ Priced(invoice[i])' /\ \A t \in Types \ due : Full(invoice[i], t)'
    BY <2>4, <2>9 DEF Priced, Full
  <2>11. Issued' = Issued \cup {i}
    <3>1. inv # NotIssued
      BY <2>3 DEF NotIssued
    <3> QED
      BY <2>4, <3>1 DEF Issued
  <2>12. \A d \in Clients \ {c} : req'[d] = req[d]
    BY <1>0, <1>4 DEF Create, Continue
  <2>13. \A j \in Issued : Grown(invoice[j], invoice'[j])
    BY <1>1, <2>2, <2>4 DEF Issued
  <2>14. Continue(c, i, due)
    BY <1>4, <2>1 DEF Create
  <2> HIDE DEF due
  <2>15. \/ req'[c] = Idle /\ due = {} /\ answered' = answered \cup {i}
         \/ req'[c] = [pc |-> "lines", id |-> i, due |-> due] /\ answered' = answered
    BY <1>0, <2>14 DEF Continue
  <2>16. answered' \subseteq Issued'
    BY <2>11, <2>15 DEF ItemsInv
  <2>17. \A j \in answered' \ answered, t \in Types : Full(invoice[j], t)'
    BY <2>10, <2>15
  <2>18. At(c, "lines")' => /\ req'[c].due \subseteq Types
                            /\ \A t \in Types \ req'[c].due : Full(invoice[req[c].id], t)'
    <3>1. due \subseteq Types
      BY DEF due
    <3> QED
      BY <2>10, <2>15, <3>1 DEF At, Idle, Full
  <2>19. \A j \in Issued' \ Issued : Priced(invoice[j])'
    BY <2>10, <2>11
  <2>20. PICK moved : moved = {c}
    OBVIOUS
  <2>21. /\ \A d \in Clients \ moved : req'[d] = req[d]
         /\ \A d \in moved : At(d, "lines")' =>
                /\ req'[d].due \subseteq Types
                /\ \A t \in Types \ req'[d].due : Full(invoice[req[d].id], t)'
    BY <2>12, <2>18, <2>20
  <2> QED
    BY <1>0, <2>13, <2>16, <2>17, <2>19, <2>21, ItemsKept
<1>5. ASSUME NEW c \in Clients, AddLineItem(c) PROVE ItemsInv'
  <2>1. PICK k \in Issued : k = req[c].id
    BY <1>0, <1>5 DEF AddLineItem, RequestsSound
  <2>2. PICK due : due = req[c].due
    OBVIOUS
  <2>3. PICK t \in Types :
            /\ At(c, "lines")
            /\ invoice' = [invoice EXCEPT ![k].lines[t] = Quantity(invoice[k].bill, t)]
            /\ Continue(c, k, due \ {t})
    BY <1>5, <2>1, <2>2 DEF AddLineItem
  <2>4. /\ \A j \in Invoices \ {k} : invoice'[j] = invoice[j]
        /\ invoice'[k] = [invoice[k] EXCEPT
                           !.lines = [@ EXCEPT ![t] = Quantity(invoice[k].bill, t)]]
    BY <1>0, <2>1, <2>3 DEF Issued
  <2>5. PICK inv : inv = invoice'[k]
    OBVIOUS
  <2>6. PICK old : old = invoice[k] /\ Sound(old.bill) /\ Priced(old)
    BY <1>0, <2>1 DEF InvoicesSound, ItemsInv
  <2>7. inv = [old EXCEPT !.lines = [@ EXCEPT ![t] = Quantity(old.bill, t)]]
    BY <2>4, <2>5, <2>6
  <2>8. /\ Priced(inv) /\ inv.bill = old.bill /\ Full(inv, t)
        /\ \A s \in Types : Full(old, s) => Full(inv, s)
    BY <1>0, <2>6, <2>7, LineAdded
  <2>9. \A s \in Types : Full(inv, s) => Full(invoice[k], s)'
    <3>1. Sound(inv.bill)
      BY <2>6, <2>8
    <3>2. \A s \in Types : Full(inv, s) => Full(inv, s)'
      BY <1>0, <3>1, PricedKept
    <3> QED
      BY <2>5, <3>2 DEF Full
  <2>10. \A j \in Issued : Grown(invoice[j], invoice'[j])
    <3>1. Grown(invoice[k], invoice'[k])
      BY <2>5, <2>6, <2>8 DEF Grown
    <3> QED
      BY <1>1, <2>4, <3>1 DEF Issued
  <2>11. due \subseteq Types /\ \A s \in Types \ due : Full(old, s)
    BY <2>1, <2>2, <2>3, <2>6 DEF ItemsInv
  <2>12. \A s \in Types \ (due \ {t}) : Full(invoice[k], s)'
    BY <2>8, <2>9, <2>11
  <2>13. \/ req'[c] = Idle /\ due \ {t} = {} /\ answered' = answered \cup {k}
         \/ req'[c] = [pc |-> "lines", id |-> k, due |-> due \ {t}] /\ answered' = answered
    BY <1>0, <2>3 DEF Continue
  <2>14. \A d \in Clients \ {c} : req'[d] = req[d]
    BY <1>0, <2>3 DEF Continue
  <2>15. Issued' = Issued
    <3>1. inv # NotIssued
      <4>1. DOMAIN inv = Fields
        BY <2>8 DEF Priced, InvoiceRows, Fields
      <4>2. DOMAIN NotIssued # Fields
        BY DEF NotIssued, Fields
      <4> QED
        BY <4>1, <4>2
    <3> QED
      BY <2>1, <2>4, <2>5, <3>1 DEF Issued
  <2>16. answered' \subseteq Issued'
    BY <2>1, <2>13, <2>15 DEF ItemsInv
  <2>17. \A j \in answered' \ answered, s \in Types : Full(invoice[j], s)'
    BY <2>12, <2>13
  <2>18. At(c, "lines")' => /\ req'[c].due \subseteq Types
                            /\ \A s \in Types \ req'[c].due : Full(invoice[req[c].id], s)'
    BY <2>11, <2>12, <2>13 DEF At, Idle, Full
  <2>19. PICK moved : moved = {c}
    OBVIOUS
  <2>20. /\ \A d \in Clients \ moved : req'[d] = req[d]
         /\ \A d \in moved : At(d, "lines")' =>
                /\ req'[d].due \subseteq Types
                /\ \A s \in Types \ req'[d].due : Full(invoice[req[d].id], s)'
    BY <2>14, <2>18, <2>19
  <2>21. \A j \in Issued' \ Issued : Priced(invoice[j])'
    BY <2>15
  <2> QED
    BY <1>0, <2>10, <2>16, <2>17, <2>20, <2>21, ItemsKept
<1>6. CASE MonthEnds \/ UNCHANGED vars
  <2>1. req' = req /\ invoice' = invoice /\ answered' = answered
    BY <1>6 DEF MonthEnds, vars
  <2>2. PICK moved : moved = {}
    OBVIOUS
  <2>3. \A d \in Clients \ moved : req'[d] = req[d]
    BY <2>1
  <2>4. \A d \in moved : req'[d].pc # "lines"
    BY <2>2
  <2> QED
    BY <1>2, <2>1, <2>3, <2>4
<1> QED
  BY <1>3, <1>4, <1>5, <1>6 DEF Next

LEMMA ItemsInvHolds == Spec => [](BillInv /\ ItemsInv)
<1>1. Init => ItemsInv
  BY DEF Init, ItemsInv, Issued, At, Idle
<1>2. ItemsInv /\ BillInv /\ BillInv' /\ [Next]_vars => ItemsInv'
  BY ItemsStep
<1> QED
  BY <1>1, <1>2, BillInvHolds, PTL DEF Spec

\* For any number of usage records, clients and invoices, the line items of an
\* invoice never exceed its amount, and those of an invoice GenerateInvoice
\* returned add up to it.
THEOREM LineItemsAddUp == Spec => []ItemsAddUp
<1>1. BillInv /\ ItemsInv => ItemsAddUp
  <2> SUFFICES ASSUME BillInv, ItemsInv, NEW i \in Issued
               PROVE  /\ Total(invoice[i].lines) <= invoice[i].amount
                      /\ i \in answered => Total(invoice[i].lines) = invoice[i].amount
    BY DEF ItemsAddUp, Total
  <2>1. PICK inv : inv = invoice[i]
    OBVIOUS
  <2>2. Sound(inv.bill) /\ Priced(inv) /\ UsagesDated
    BY <2>1 DEF BillInv, InvoicesSound, ItemsInv
  <2>3. \A t \in Types : Quantity(inv.bill, t) \in Nat
    BY <2>2, QuantityType
  <2>4. Lines(inv.bill) \in [Types -> Nat]
    BY <2>3 DEF Lines
  <2>5. inv.lines \in [Types -> Nat] /\ inv.amount = Total(Lines(inv.bill))
    BY <2>2 DEF Priced, InvoiceRows
  <2>6. \A t \in Types : inv.lines[t] <= Lines(inv.bill)[t]
    BY <2>2, <2>3 DEF Lines, Priced
  <2>7. Total(inv.lines) <= inv.amount
    BY <2>4, <2>5, <2>6, MoreInTotal
  <2>8. ASSUME i \in answered PROVE Total(inv.lines) = inv.amount
    <3>1. \A t \in Types : inv.lines[t] = Lines(inv.bill)[t]
      BY <2>1, <2>8 DEF ItemsInv, Full, Lines
    <3>2. inv.lines = Lines(inv.bill)
      BY <2>4, <2>5, <3>1
    <3> QED
      BY <2>5, <3>2
  <2> QED
    BY <2>1, <2>7, <2>8
<1> QED
  BY <1>1, ItemsInvHolds, PTL

\* For any usage and any number of requests, an invoice is never for less than
\* one of its month that existed when its usage was read, unless the read
\* stopped short.
THEOREM LaterBillsMore == Spec => []LaterIsMore
<1>1. BillInv /\ ItemsInv => LaterIsMore
  <2> SUFFICES ASSUME BillInv, ItemsInv, NEW j \in Issued, NEW i \in invoice[j].bill.before,
                      invoice[i].bill.month = invoice[j].bill.month,
                      ~invoice[j].bill.short
               PROVE  invoice[i].amount <= invoice[j].amount
    BY DEF LaterIsMore
  <2>1. Sound(invoice[j].bill) /\ Priced(invoice[j]) /\ UsagesDated
    BY DEF BillInv, InvoicesSound, ItemsInv
  <2>2. i \in Issued /\ invoice[i].bill.covers \subseteq invoice[j].bill.covers
    BY <2>1 DEF Sound
  <2>3. PICK a, b : a = invoice[i].bill /\ b = invoice[j].bill
    OBVIOUS
  <2>4. Sound(a) /\ Sound(b) /\ a.covers \subseteq b.covers
    BY <2>1, <2>2, <2>3 DEF BillInv, InvoicesSound
  <2>5. \A t \in Types : /\ Quantity(a, t) \in Nat /\ Quantity(b, t) \in Nat
                         /\ Quantity(a, t) <= Quantity(b, t)
    BY <2>1, <2>4, QuantityType, MoreQuantity
  <2>6. /\ Lines(a) \in [Types -> Nat] /\ Lines(b) \in [Types -> Nat]
        /\ \A t \in Types : Lines(a)[t] <= Lines(b)[t]
    BY <2>5 DEF Lines
  <2>7. Total(Lines(a)) <= Total(Lines(b))
    BY <2>6, MoreInTotal
  <2>8. invoice[i].amount = Total(Lines(a)) /\ invoice[j].amount = Total(Lines(b))
    BY <2>1, <2>2, <2>3 DEF ItemsInv, Priced
  <2> QED
    BY <2>7, <2>8
<1> QED
  BY <1>1, ItemsInvHolds, PTL

-----------------------------------------------------------------------------
(* Types.                                                                    *)

RowOrNone == UsageRows \cup {NotRecorded}
InvoiceOrNone == InvoiceRows \cup {NotIssued}
Requests == {Idle}
    \cup [pc : {"record"}, row : UsageRows]
    \cup [pc : {"read"}, month : 1..Months]
    \cup [pc : {"create"}, bill : Bills]
    \cup [pc : {"lines"}, id : Invoices, due : SUBSET Types]

\* What GetSummary returns is a bill.
LEMMA BillIsBill ==
    ASSUME BillInv, NEW m \in 1..Months, NEW types
    PROVE  Bill(m, types) \in Bills
BY DEF BillInv, Bill, Since, Recorded, Issued, Bills

\* The request a client has in flight after a step of its own.
LEMMA RequestType ==
    ASSUME TypeOK, BillInv, NEW c \in Clients, Step(c)
    PROVE  req' \in [Clients -> Requests]
<1> USE DEF Requests
<1>0. req \in [Clients -> Requests] /\ month \in 1..Months
  BY DEF TypeOK
<1>1. ASSUME NEW t \in Types, NEW q \in Quantities, BeginRecord(c, t, q)
      PROVE  req' \in [Clients -> Requests]
  <2>1. [type |-> t, quantity |-> q, at |-> month] \in UsageRows
    BY <1>0 DEF UsageRows
  <2> QED
    BY <1>0, <1>1, <2>1 DEF BeginRecord
<1>2. CASE \/ \E u \in Usages : Record(c, u)
           \/ BeginInvoice(c)
           \/ Abandon(c)
  BY <1>0, <1>2 DEF Record, BeginInvoice, Abandon
<1>3. CASE GetSummary(c) \/ \E types \in SUBSET Types : GetSummaryShort(c, types)
  <2>1. req[c].month \in 1..Months
    BY <1>3 DEF GetSummary, GetSummaryShort, BillInv, RequestsSound
  <2>2. \A types : Bill(req[c].month, types) \in Bills
    BY <2>1, BillIsBill
  <2>3. PICK b \in Bills : req' = [req EXCEPT ![c] = [pc |-> "create", bill |-> b]]
    BY <1>3, <2>2 DEF GetSummary, GetSummaryShort
  <2> QED
    BY <1>0, <2>3
<1>4. ASSUME NEW i \in Invoices, NEW due \in SUBSET Types, Continue(c, i, due)
      PROVE  req' \in [Clients -> Requests]
  BY <1>0, <1>4 DEF Continue
<1>5. ASSUME NEW i \in Invoices, Create(c, i) PROVE req' \in [Clients -> Requests]
  BY <1>4, <1>5 DEF Create
<1>6. ASSUME AddLineItem(c) PROVE req' \in [Clients -> Requests]
  <2>1. req[c] \in Requests /\ At(c, "lines")
    BY <1>0, <1>6 DEF AddLineItem
  <2>2. req[c].id \in Invoices /\ req[c].due \in SUBSET Types
    BY <2>1 DEF At, Idle
  <2>3. PICK i \in Invoices, due \in SUBSET Types : Continue(c, i, due)
    BY <1>6, <2>2 DEF AddLineItem
  <2> QED
    BY <1>4, <2>3
<1> QED
  BY <1>1, <1>2, <1>3, <1>5, <1>6 DEF Step

\* The tables after a step: what is written has the type of a row.
LEMMA TablesType ==
    ASSUME TypeOK, BillInv, BillInv', ItemsInv', [Next]_vars
    PROVE  /\ usage' \in [Usages -> RowOrNone]
           /\ invoice' \in [Invoices -> InvoiceOrNone]
<1>0. usage \in [Usages -> RowOrNone] /\ invoice \in [Invoices -> InvoiceOrNone]
  BY DEF TypeOK, RowOrNone, InvoiceOrNone
<1>1. \A i \in Invoices : invoice'[i] \in InvoiceOrNone
  BY DEF ItemsInv, Priced, Issued, InvoiceOrNone
<1>2. \A u \in Usages : usage'[u] \in RowOrNone
  BY DEF BillInv, UsagesDated, Recorded, RowOrNone
<1>3. \/ usage' = usage
      \/ \E u, row : usage' = [usage EXCEPT ![u] = row]
  BY DEF Next, MonthEnds, Step, BeginRecord, Record, BeginInvoice, GetSummary,
         GetSummaryShort, Create, AddLineItem, Abandon, vars
<1>4. \/ invoice' = invoice
      \/ \E i, inv : invoice' = [invoice EXCEPT ![i] = inv]
  <2>1. ASSUME NEW c \in Clients, Step(c), ~AddLineItem(c)
        PROVE  invoice' = invoice \/ \E i, inv : invoice' = [invoice EXCEPT ![i] = inv]
    BY <2>1 DEF Step, BeginRecord, Record, BeginInvoice, GetSummary,
                GetSummaryShort, Create, Abandon
  <2>2. ASSUME NEW c \in Clients, AddLineItem(c)
        PROVE  \E i, inv : invoice' = [invoice EXCEPT ![i] = inv]
    BY <2>2 DEF AddLineItem
  <2> QED
    BY <2>1, <2>2 DEF Next, MonthEnds, vars
<1>5. usage' = [u \in Usages |-> usage'[u]]
  BY <1>0, <1>3
<1>6. invoice' = [i \in Invoices |-> invoice'[i]]
  BY <1>0, <1>4
<1> QED
  BY <1>1, <1>2, <1>5, <1>6

LEMMA TypeStep ==
    ASSUME TypeOK, BillInv, BillInv', ItemsInv', [Next]_vars
    PROVE  TypeOK'
<1>1. req' \in [Clients -> Requests]
  <2>1. CASE MonthEnds \/ UNCHANGED vars
    BY <2>1 DEF MonthEnds, vars, TypeOK, Requests
  <2> QED
    BY <2>1, RequestType DEF Next
<1>2. answered' \subseteq Invoices
  BY DEF ItemsInv, Issued
<1>3. faults' \in 0..MaxFaults
  <2>1. faults \in 0..MaxFaults /\ MaxFaults \in Nat
    BY BoundAssumption DEF TypeOK
  <2>2. faults' = faults \/ (faults < MaxFaults /\ faults' = faults + 1)
    BY DEF Next, MonthEnds, Step, BeginRecord, Record, BeginInvoice, GetSummary,
           GetSummaryShort, Create, AddLineItem, Abandon, vars
  <2> QED
    BY <2>1, <2>2
<1>4. month' \in 1..Months
  BY DEF BillInv
<1> QED
  BY <1>1, <1>2, <1>3, <1>4, TablesType
     DEF TypeOK, Requests, RowOrNone, InvoiceOrNone

\* Whatever the clients do, every variable keeps its type: an invoice is created
\* with a natural amount, and it never loses a line.
THEOREM TypesHold == Spec => []TypeOK
<1>1. Init => TypeOK
  BY BoundAssumption DEF Init, TypeOK
<1>2. TypeOK /\ (BillInv /\ ItemsInv) /\ (BillInv /\ ItemsInv)' /\ [Next]_vars => TypeOK'
  BY TypeStep
<1> QED
  BY <1>1, <1>2, ItemsInvHolds, PTL DEF Spec
=============================================================================
