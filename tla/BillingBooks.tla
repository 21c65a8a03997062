---------------------------- MODULE BillingBooks ----------------------------
(***************************************************************************)
(* The books of a refund balance: for any number of drainers, any amounts, *)
(* any failures and any withdrawals, once the credit note of a refund is   *)
(* recorded the invoice it credits owes nothing, provided the money was    *)
(* taken out once.                                                         *)
(*                                                                         *)
(* IssueCreditNote opens the invoice (the payment is given back) and then  *)
(* closes it (the credit note is applied), and it may be cut off and       *)
(* repeated anywhere.  The invariant says that an open invoice always has  *)
(* a note that can close it: the note the row names is for the amount of   *)
(* the refund and has all of it left.                                      *)
(***************************************************************************)
EXTENDS BillingProofs
-----------------------------------------------------------------------------
(* The refund. *)

\* The invoice that is credited.
Doc == invoices[receipt.ref]

\* It owes nothing, unless more was given back than the refund; and it owes
\* what was given back.
Even(v) == v.back <= refund.amount => v.owed = 0
Open(v) == v.back <= refund.amount /\ v.owed = v.back

NoteOk(c) ==
    \/ credits[c].state = "deleted"
    \/ credits[c].state \in {"draft", "sent"} /\ credits[c].left = refund.amount

\* The row of a crediter: the refund it listed, and it is not recorded yet.
CrediterRow(e) ==
    /\ crediter[e].n <= refund.n
    /\ (crediter[e].pc # "idle" /\ crediter[e].n = refund.n) => crediter[e].amount = refund.amount
    /\ crediter[e].pc \notin {"idle", "claim", "plan", "release"} => refund.status # "issued"

\* What a crediter read is what the invoice and the note still say.
CrediterBooks(e) ==
    /\ crediter[e].pc \in {"getcredit", "newcredit", "setcredit", "sendcredit", "refund", "apply"} =>
           crediter[e].owed = Doc.owed
    /\ crediter[e].pc \in AtInvoice => crediter[e].ref = receipt.ref
    /\ crediter[e].pc = "setcredit" => NoteOk(crediter[e].credit)
    /\ crediter[e].pc \in {"refund", "reget", "apply"} => (Open(Doc) => crediter[e].left = refund.amount)
    /\ crediter[e].pc = "mark" => Even(Doc)

\* Until money was taken out twice, none was or the refund was; the note can
\* still close what it opened; and the record of it says that it did.
RefundRow ==
    /\ refund.credit = 0 => Doc.back = 0 /\ Doc.owed = 0
    /\ Doc.back <= refund.amount =>
           \/ Doc.back = 0 /\ Doc.owed = 0
           \/ Doc.back = refund.amount /\ Doc.owed \in {0, refund.amount}
    /\ (refund.credit # 0 /\ Open(Doc)) => NoteOk(refund.credit)
    /\ (refund.status = "issued" /\ refund.credit # 0) => Even(Doc)

InBooks == ~early /\ receipt.status = "issued" /\ Doc.state = "sent"

BookInv ==
    /\ \A e \in Crediters : CrediterRow(e)
    /\ (~early /\ receipt.status # "issued") => refund.credit = 0
    /\ InBooks => RefundRow /\ \A e \in Crediters : CrediterBooks(e)

\* The row keeps its refund, and is not recorded as issued.
RefundSays ==
    /\ refund'.n = refund.n /\ refund'.amount = refund.amount /\ refund'.credit = refund.credit
    /\ refund'.status = "issued" => refund.status = "issued"

NotesStay == \A c \in Notes : NoteOk(c) => NoteOk(c)'

\* The credited invoice, its note and the row are as they were.
LEMMA BooksStill ==
  ASSUME BookInv, Types, ReceiptSays, RefundSays, NotesStay,
         InBooks' => Doc' = Doc,
         \A e \in Crediters : crediter'[e] = crediter[e] \/ (CrediterRow(e)' /\ (InBooks' => CrediterBooks(e)'))
  PROVE  BookInv'
<1>1. ASSUME NEW e \in Crediters, crediter'[e] = crediter[e] PROVE CrediterRow(e)'
  BY <1>1, Zenon DEF BookInv, CrediterRow, RefundSays
<1>2. (~early' /\ receipt'.status # "issued") => refund'.credit = 0
  BY Zenon DEF BookInv, ReceiptSays, RefundSays
<1>3. ASSUME InBooks' PROVE RefundRow' /\ \A e \in Crediters : CrediterBooks(e)'
  <2>1. InBooks /\ Doc' = Doc
    BY <1>3, Zenon DEF InBooks, ReceiptSays
  <2>2. RefundRow /\ \A e \in Crediters : CrediterBooks(e)
    BY <2>1, Zenon DEF BookInv
  <2>3. (Open(Doc)' <=> Open(Doc)) /\ (Even(Doc)' <=> Even(Doc))
    BY <2>1, Zenon DEF Open, Even, RefundSays
  <2>4. RefundRow'
    <3>1. (refund'.credit # 0 /\ Open(Doc)') => NoteOk(refund.credit)'
      <4>1. PICK c : c = refund.credit
        OBVIOUS
      <4>2. (c # 0 /\ Open(Doc)) => c \in Notes /\ NoteOk(c)
        BY <2>2, <4>1, Zenon DEF RefundRow, Types
      <4>3. (c # 0 /\ Open(Doc)) => NoteOk(c)'
        BY <4>2, Zenon DEF NotesStay
      <4>4. refund'.credit = c
        BY <4>1, Zenon DEF RefundSays
      <4> QED BY <2>3, <4>3, <4>4, Zenon
    <3>2. refund'.credit = 0 => Doc'.back = 0 /\ Doc'.owed = 0
      BY <2>1, <2>2, Zenon DEF RefundRow, RefundSays
    <3>3. Doc'.back <= refund'.amount =>
           \/ Doc'.back = 0 /\ Doc'.owed = 0
           \/ Doc'.back = refund'.amount /\ Doc'.owed \in {0, refund'.amount}
      BY <2>1, <2>2, Zenon DEF RefundRow, RefundSays
    <3>4. (refund'.status = "issued" /\ refund'.credit # 0) => Even(Doc)'
      BY <2>2, <2>3, Zenon DEF RefundRow, RefundSays
    <3> QED BY <3>1, <3>2, <3>3, <3>4, Zenon DEF RefundRow
  <2>5. ASSUME NEW e \in Crediters, crediter'[e] = crediter[e] PROVE CrediterBooks(e)'
    <3>1. CrediterBooks(e)
      BY <2>2
    <3>2. crediter[e].pc = "setcredit" => NoteOk(crediter[e].credit)'
      <4>1. PICK c : c = crediter[e].credit
        OBVIOUS
      <4>2. crediter[e].pc = "setcredit" => c \in Notes /\ NoteOk(c)
        BY <3>1, <4>1 DEF CrediterBooks, Types, Sums, AtNote
      <4>3. crediter[e].pc = "setcredit" => NoteOk(c)'
        BY <4>2, Zenon DEF NotesStay
      <4> QED BY <2>5, <4>1, <4>3, Zenon
    <3> QED BY <2>1, <2>3, <2>5, <3>1, <3>2, Zenon DEF CrediterBooks, RefundSays, ReceiptSays
  <2> QED BY <1>3, <2>4, <2>5, Zenon
<1> QED BY <1>1, <1>2, <1>3, Zenon DEF BookInv

\* A crediter that reads nothing of the books.
LEMMA BooksFree ==
  ASSUME NEW e, crediter'[e].pc \in {"idle", "claim", "receipt", "reread", "park", "close", "plan", "release", "block"}
  PROVE  CrediterBooks(e)'
BY DEF CrediterBooks, AtInvoice

\* The one busy crediter takes a step.
LEMMA BooksMove ==
  ASSUME RefundOk, NEW e \in Crediters, Busy(e), \A f \in Crediters : f # e => crediter'[f] = crediter[f],
         \A f \in Crediters : CrediterRow(f)',
         (~early' /\ receipt'.status # "issued") => refund'.credit = 0,
         InBooks' => RefundRow' /\ CrediterBooks(e)'
  PROVE  BookInv'
<1>1. ASSUME NEW f \in Crediters, f # e PROVE CrediterBooks(f)'
  <2>1. crediter'[f].pc \in {"idle", "claim"}
    BY <1>1, RefundAlone DEF Busy
  <2> QED BY <2>1, BooksFree
<1> QED BY <1>1, Zenon DEF BookInv

LEMMA RowGoes ==
  ASSUME RefundSays, NEW e, CrediterRow(e), crediter[e].pc # "idle",
         crediter'[e].n = crediter[e].n, crediter'[e].amount = crediter[e].amount,
         crediter'[e].pc \in {"plan", "release", "idle"} \/ crediter[e].pc \notin {"claim", "plan", "release"}
  PROVE  CrediterRow(e)'
<1>1. crediter'[e].n <= refund'.n /\ (crediter'[e].n = refund'.n => crediter'[e].amount = refund'.amount)
  BY Zenon DEF CrediterRow, RefundSays
<1>2. crediter'[e].pc \notin {"idle", "claim", "plan", "release"} => refund'.status # "issued"
  BY Zenon DEF CrediterRow, RefundSays
<1> QED BY <1>1, <1>2, Zenon DEF CrediterRow

\* Nothing changes for the refund before the receipt is issued.
LEMMA BooksNot ==
  ASSUME BookInv, receipt.status # "issued", receipt'.status # "issued", UNCHANGED <<refund, crediter, early>>
  PROVE  BookInv'
<1>1. \A e \in Crediters : CrediterRow(e)'
  BY Zenon DEF BookInv, CrediterRow
<1>2. ~early' => refund'.credit = 0
  BY Zenon DEF BookInv
<1>3. ~InBooks'
  BY Zenon DEF InBooks
<1> QED BY <1>1, <1>2, <1>3, Zenon DEF BookInv

LEMMA RowsStill ==
  ASSUME BookInv, Types, ReceiptSays, UNCHANGED <<refund, crediter, invoices, credits>>
  PROVE  BookInv'
<1>1. RefundSays
  BY Zenon DEF RefundSays
<1>2. NotesStay
  BY Zenon DEF NotesStay, NoteOk
<1>3. InBooks' => Doc' = Doc
  BY Zenon DEF Doc, ReceiptSays
<1> QED BY <1>1, <1>2, <1>3, BooksStill, Zenon

\* When the receipt is issued its invoice owes nothing, and there is no refund.
LEMMA MarkReceiptIssuedBooks ==
  ASSUME BookInv, PayOk, ReceiptOk, Types, Shape, NEW d \in Issuers, MarkReceiptIssued(d)
  PROVE  BookInv'
<1>1. UNCHANGED <<invoices, refund, credits, crediter, early>> /\ issuer[d].pc = "mark"
  BY Zenon DEF MarkReceiptIssued, books
<1>2. receipt.status # "issued" /\ issuer[d].ref = receipt.ref /\ Done(receipt.ref)
  <2>1. issuer[d].ref = receipt.ref
    BY <1>1, IssuerFinds, Zenon
  <2>2. IssuerOk(d)
    BY DEF PayOk
  <2> QED BY <1>1, <2>1, <2>2, Zenon DEF IssuerOk
<1>3. receipt'.ref = receipt.ref
  BY <1>2, Zenon DEF MarkReceiptIssued, Shape
<1>4. CASE receipt'.status # "issued"
  BY <1>1, <1>2, <1>4, BooksNot, Zenon
<1>5. CASE receipt'.status = "issued"
  <2>1. \A e \in Crediters : CrediterRow(e)'
    BY <1>1, Zenon DEF BookInv, CrediterRow
  <2>2. ASSUME InBooks' PROVE RefundRow' /\ \A e \in Crediters : CrediterBooks(e)'
    <3>1. ~early /\ Doc' = Doc /\ Doc.state = "sent" /\ receipt.ref \in Ids
      BY <1>1, <1>2, <1>3, <2>2, Zenon DEF InBooks, Doc, Done
    <3>2. InvoiceOk(Doc)
      BY <3>1, Zenon DEF PayOk, Doc
    <3>3. Settled(receipt.ref)
      BY <1>2, <3>1 DEF Done, Doc
    <3>4. Doc.back = 0 /\ Doc.owed = 0
      BY ZenonT(40), <1>2, <3>1, <3>2, <3>3, BillingAssumption DEF InvoiceOk, Settled, Doc
    <3>5. refund'.credit = 0 /\ refund'.amount \in 1 .. Amount
      BY <1>1, <1>2, <3>1, Zenon DEF BookInv, Types
    <3>6. RefundRow'
      BY <3>1, <3>4, <3>5 DEF RefundRow
    <3>7. ASSUME NEW e \in Crediters PROVE CrediterBooks(e)'
      <4>1. crediter'[e].pc \in {"idle", "claim"}
        BY <1>1, <1>2, <3>1 DEF PayOk, CrediterPaid, Busy
      <4> QED BY <4>1, BooksFree
    <3> QED BY <3>6, <3>7
  <2> QED BY <1>5, <2>1, <2>2, Zenon DEF BookInv
<1> QED BY <1>4, <1>5

LEMMA IssuerBooks ==
  ASSUME BookInv, PayOk, ReceiptOk, Types, Shape, NEW d \in Issuers, IssuerStep(d) \/ StopIssuer(d)
  PROVE  BookInv'
<1>1. UNCHANGED <<refund, credits, crediter, early>>
  BY Zenon DEF IssuerStep, StopIssuer, ListDueReceipts, ClaimReceipt, GetInvoice, CreateInvoice, SetReceiptInvoice,
     MarkSent, RecordPayment, MarkReceiptIssued, BlockReceipt, ReleaseReceipt, rows, books
<1>2. CASE ListDueReceipts(d) \/ ClaimReceipt(d) \/ GetInvoice(d) \/ BlockReceipt(d) \/ ReleaseReceipt(d) \/ StopIssuer(d)
  <2>1. invoices' = invoices
    BY <1>2, Zenon DEF ListDueReceipts, ClaimReceipt, GetInvoice, BlockReceipt, ReleaseReceipt, StopIssuer, books
  <2>2. \/ receipt' \in {receipt, Parked(receipt)} \/ receipt' = [receipt EXCEPT !.leased = TRUE]
        \/ receipt' = [receipt EXCEPT !.leased = FALSE]
    BY <1>2, Zenon DEF ListDueReceipts, ClaimReceipt, GetInvoice, BlockReceipt, ReleaseReceipt, StopIssuer, rows
  <2>3. ReceiptSays
    BY <1>1, <2>2 DEF Parked, ReceiptSays, Shape
  <2> QED BY <1>1, <2>1, <2>3, RowsStill, Zenon
<1>3. CASE CreateInvoice(d) \/ SetReceiptInvoice(d) \/ MarkSent(d) \/ RecordPayment(d)
  <2>1. issuer[d].pc \notin {"idle", "claim", "release"}
    BY <1>3 DEF CreateInvoice, SetReceiptInvoice, MarkSent, RecordPayment
  <2>2. receipt.status # "issued"
    BY <2>1, Zenon DEF PayOk, IssuerOk
  <2>3. receipt'.status = receipt.status
    BY <1>3 DEF CreateInvoice, SetReceiptInvoice, MarkSent, RecordPayment, rows, Shape
  <2> QED BY <1>1, <2>2, <2>3, BooksNot, Zenon
<1> QED BY <1>2, <1>3, MarkReceiptIssuedBooks, Zenon DEF IssuerStep

\* A person withdraws a document; the rows are requeued, or their leases lapse.
LEMMA DeleteInvoiceBooks ==
  ASSUME BookInv, PayOk, Types, Shape, NEW i \in Ids, DeleteInvoice(i)
  PROVE  BookInv'
<1>1. UNCHANGED <<receipt, refund, credits, crediter, early>>
  BY Zenon DEF DeleteInvoice, rows
<1>2. invoices'[i].state = "deleted" /\ \A j \in Ids : j # i => invoices'[j] = invoices[j]
  BY DEF DeleteInvoice, Shape
<1>3. ReceiptSays /\ RefundSays
  BY <1>1, Zenon DEF ReceiptSays, RefundSays
<1>4. NotesStay
  BY <1>1, Zenon DEF NotesStay, NoteOk
<1>5. InBooks' => Doc' = Doc
  <2>1. InBooks' => receipt.ref \in Ids
    BY <1>1, Zenon DEF InBooks, PayOk, IssuedOk, Done
  <2>2. InBooks' => invoices'[receipt.ref].state = "sent"
    BY <1>1, Zenon DEF InBooks, Doc
  <2> QED BY <1>1, <1>2, <2>1, <2>2 DEF Doc
<1> QED BY <1>1, <1>3, <1>4, <1>5, BooksStill, Zenon

LEMMA DeleteCreditBooks ==
  ASSUME BookInv, Types, Shape, NEW c \in Notes, DeleteCredit(c)
  PROVE  BookInv'
<1>1. UNCHANGED <<receipt, refund, invoices, crediter, early>>
  BY Zenon DEF DeleteCredit, rows
<1>2. credits'[c].state = "deleted" /\ \A k \in Notes : k # c => credits'[k] = credits[k]
  BY DEF DeleteCredit, Shape
<1>3. ReceiptSays /\ RefundSays
  BY <1>1, Zenon DEF ReceiptSays, RefundSays
<1>4. NotesStay
  BY <1>1, <1>2, Zenon DEF NotesStay, NoteOk
<1>5. InBooks' => Doc' = Doc
  BY <1>1, Zenon DEF Doc
<1> QED BY <1>1, <1>3, <1>4, <1>5, BooksStill, Zenon

LEMMA OthersBook ==
  ASSUME BookInv, Types, Shape,
         \/ DeleteRefund \/ RequeueReceipt \/ RequeueRefund \/ ReceiptLeaseLapses \/ RefundLeaseLapses
         \/ UNCHANGED vars
  PROVE  BookInv'
<1>1. UNCHANGED <<invoices, credits, crediter, early>>
  BY Zenon DEF DeleteRefund, RequeueReceipt, RequeueRefund, ReceiptLeaseLapses, RefundLeaseLapses, books, vars
<1>2. receipt' = receipt \/ RequeueReceipt \/ ReceiptLeaseLapses
  BY Zenon DEF DeleteRefund, RequeueRefund, RefundLeaseLapses, rows, vars
<1>3. receipt'.ref = receipt.ref /\ (receipt'.status = "issued" <=> receipt.status = "issued")
  BY <1>2 DEF RequeueReceipt, ReceiptLeaseLapses, Shape
<1>4. ReceiptSays
  BY <1>1, <1>3, Zenon DEF ReceiptSays
<1>5. refund' = refund \/ DeleteRefund \/ RequeueRefund \/ RefundLeaseLapses
  BY Zenon DEF RequeueReceipt, ReceiptLeaseLapses, rows, vars
<1>6. RefundSays
  <2>1. CASE refund' = refund
    BY <2>1, Zenon DEF RefundSays
  <2>2. CASE refund' = [refund EXCEPT !.status = "none", !.leased = FALSE]
    BY <2>2 DEF RefundSays, Shape
  <2>3. CASE refund' = [refund EXCEPT !.status = "pending"]
    BY <2>3 DEF RefundSays, Shape
  <2>4. CASE refund' = [refund EXCEPT !.leased = FALSE]
    BY <2>4 DEF RefundSays, Shape
  <2> QED BY <1>5, <2>1, <2>2, <2>3, <2>4, Zenon DEF DeleteRefund, RequeueRefund, RefundLeaseLapses
<1>7. NotesStay
  BY <1>1, <1>6, Zenon DEF NotesStay, NoteOk, RefundSays
<1>8. InBooks' => Doc' = Doc
  BY <1>1, <1>3, Zenon DEF Doc
<1> QED BY <1>1, <1>4, <1>6, <1>7, <1>8, BooksStill, Zenon

\* A new refund finds nothing given back, and no crediter at work.
LEMMA RecordRefundBooks ==
  ASSUME BookInv, RefundOk, Types, Shape, NEW a \in Refundable, RecordRefund(a)
  PROVE  BookInv'
<1>1. UNCHANGED <<receipt, invoices, credits, crediter, early>> /\ refund.status = "none"
  BY Zenon DEF RecordRefund, books
<1>2. refund.credit = 0 /\ \A e \in Crediters : ~Busy(e)
  BY <1>1, Zenon DEF RefundOk, RowOk, Same
<1>3. /\ refund'.n = refund.n + 1 /\ refund'.status = "pending" /\ refund'.credit = 0
      /\ refund'.amount \in 1 .. Amount
  BY BillingAssumption DEF RecordRefund
<1>4. ASSUME NEW e \in Crediters PROVE CrediterRow(e)'
  <2>1. CrediterRow(e) /\ crediter[e].n \in Nat /\ refund.n \in Nat
    BY Zenon DEF BookInv, Types, Sums, Shape
  <2>2. crediter'[e].n <= refund'.n /\ crediter'[e].n # refund'.n
    BY <1>1, <1>3, <2>1 DEF CrediterRow
  <2> QED BY ZenonT(40), <1>3, <2>2 DEF CrediterRow
<1>5. ASSUME InBooks' PROVE RefundRow' /\ \A e \in Crediters : CrediterBooks(e)'
  <2>1. Doc' = Doc /\ InBooks
    BY <1>1, <1>5, Zenon DEF Doc, InBooks
  <2>2. Doc.back = 0 /\ Doc.owed = 0
    BY <1>2, <2>1, Zenon DEF BookInv, RefundRow
  <2>3. RefundRow'
    BY <1>3, <2>1, <2>2 DEF RefundRow
  <2>4. ASSUME NEW e \in Crediters PROVE CrediterBooks(e)'
    <3>1. crediter'[e].pc \in {"idle", "claim"}
      BY <1>1, <1>2 DEF Busy
    <3> QED BY SMTT(40), <3>1, BooksFree
  <2> QED BY <2>3, <2>4
<1> QED BY <1>3, <1>4, <1>5, Zenon DEF BookInv

\* A crediter that takes a step within its row.
LEMMA CrediterOnBooks ==
  ASSUME BookInv, Types, ReceiptSays, RefundSays, NotesStay, invoices' = invoices, NEW e \in Crediters,
         \A f \in Crediters : f # e => crediter'[f] = crediter[f],
         CrediterRow(e)', InBooks' => CrediterBooks(e)'
  PROVE  BookInv'
<1>1. InBooks' => Doc' = Doc
  BY Zenon DEF Doc, ReceiptSays
<1>2. \A f \in Crediters : crediter'[f] = crediter[f] \/ (CrediterRow(f)' /\ (InBooks' => CrediterBooks(f)'))
  BY Zenon
<1> QED BY <1>1, <1>2, BooksStill, Zenon

LEMMA CrediterAtRow ==
  ASSUME Shape, NEW e \in Crediters, NEW pc, CrediterAt(e, pc)
  PROVE  /\ crediter'[e].pc = pc /\ crediter'[e].n = crediter[e].n /\ crediter'[e].amount = crediter[e].amount
         /\ crediter'[e].credit = crediter[e].credit /\ crediter'[e].ref = crediter[e].ref
         /\ crediter'[e].owed = crediter[e].owed /\ crediter'[e].left = crediter[e].left
         /\ \A f \in Crediters : f # e => crediter'[f] = crediter[f]
BY DEF Shape, CrediterAt

\* The crediter gives up, or ends its work.
LEMMA CrediterEndsBooks ==
  ASSUME BookInv, Types, Shape, ReceiptSays, RefundSays, NotesStay, invoices' = invoices, NEW e \in Crediters,
         crediter[e].pc # "idle",
         NEW pc \in {"release", "block", "park", "close"}, CrediterAt(e, pc),
         pc = "release" \/ crediter[e].pc \notin {"claim", "plan", "release"}
  PROVE  BookInv'
<1>1. /\ crediter'[e].pc = pc /\ crediter'[e].n = crediter[e].n /\ crediter'[e].amount = crediter[e].amount
      /\ \A f \in Crediters : f # e => crediter'[f] = crediter[f]
  BY CrediterAtRow, Zenon
<1>2. CrediterRow(e)'
  BY <1>1, RowGoes, Zenon DEF BookInv
<1>3. CrediterBooks(e)'
  BY <1>1, BooksFree
<1> QED BY <1>1, <1>2, <1>3, CrediterOnBooks, Zenon

\* The steps that read or write nothing of the books.
LEMMA CrediterPlainBooks ==
  ASSUME BookInv, Types, Shape, NEW e \in Crediters, Reread(e) \/ ParkReceipt(e) \/ ReversePlan(e) \/ BlockRefund(e)
  PROVE  BookInv'
<1>1. UNCHANGED <<invoices, credits, early>>
  BY Zenon DEF Reread, ParkReceipt, ReversePlan, BlockRefund, books
<1>2. ReceiptSays
  <2>1. receipt' = receipt \/ receipt' = Parked(receipt)
    BY Zenon DEF Reread, ParkReceipt, ReversePlan, BlockRefund, rows
  <2>2. Parked(receipt).status = "issued" <=> receipt.status = "issued"
    BY DEF Parked, Shape
  <2> QED BY <1>1, <2>1, <2>2, ParkedOnly, Zenon DEF ReceiptSays
<1>3. RefundSays
  <2>1. refund' = refund \/ refund' = [refund EXCEPT !.status = "blocked"]
    BY Zenon DEF Reread, ParkReceipt, ReversePlan, BlockRefund, WriteRefund, rows
  <2> QED BY <2>1 DEF RefundSays, Shape
<1>4. NotesStay
  BY <1>1, <1>3, Zenon DEF NotesStay, NoteOk, RefundSays
<1>5. \E pc \in {"release", "block", "park", "close"} :
         CrediterAt(e, pc) /\ (pc = "release" \/ crediter[e].pc \notin {"claim", "plan", "release"})
  BY DEF Reread, ParkReceipt, ReversePlan, BlockRefund
<1>6. crediter[e].pc # "idle"
  BY DEF Reread, ParkReceipt, ReversePlan, BlockRefund
<1> QED BY <1>1, <1>2, <1>3, <1>4, <1>5, <1>6, CrediterEndsBooks, Zenon

\* The steps before and after the crediter's work.
LEMMA CrediterOutsideBooks ==
  ASSUME BookInv, Types, Shape, NEW e \in Crediters, ListDueRefunds(e) \/ ReleaseRefund(e) \/ StopCrediter(e)
  PROVE  BookInv'
<1>1. UNCHANGED <<receipt, invoices, credits, early>>
  BY Zenon DEF ListDueRefunds, ReleaseRefund, StopCrediter, rows, books
<1>2. ReceiptSays
  BY <1>1, Zenon DEF ReceiptSays
<1>3. RefundSays
  <2>1. refund' = refund \/ refund' = [refund EXCEPT !.leased = FALSE]
    BY Zenon DEF ListDueRefunds, ReleaseRefund, StopCrediter, WriteRefund, rows
  <2> QED BY <2>1 DEF RefundSays, Shape
<1>4. NotesStay
  BY <1>1, <1>3, Zenon DEF NotesStay, NoteOk, RefundSays
<1>5. PICK w : /\ crediter' = [crediter EXCEPT ![e] = w]
               /\ \/ w = Uncredited
                  \/ w = [Uncredited EXCEPT !.pc = "claim", !.n = refund.n, !.amount = refund.amount,
                                            !.credit = refund.credit]
  BY Zenon DEF ListDueRefunds, ReleaseRefund, StopCrediter
<1>6. \/ w.pc = "idle" /\ w.n = 0
      \/ w.pc = "claim" /\ w.n = refund.n /\ w.amount = refund.amount
  <2>1. CASE w = Uncredited
    BY <2>1 DEF Uncredited
  <2>2. CASE w = [Uncredited EXCEPT !.pc = "claim", !.n = refund.n, !.amount = refund.amount,
                                    !.credit = refund.credit]
    BY <2>2 DEF Uncredited
  <2> QED BY <1>5, <2>1, <2>2, Zenon
<1>7. crediter'[e] = w /\ \A f \in Crediters : f # e => crediter'[f] = crediter[f]
  BY <1>5, CrediterStays, Zenon
<1>8. CrediterRow(e)'
  <2>1. refund.n \in Nat
    BY DEF Shape
  <2>2. w.n <= refund.n
    BY <1>6, <2>1
  <2> QED BY ZenonT(40), <1>3, <1>6, <1>7, <2>2 DEF CrediterRow, RefundSays
<1>9. CrediterBooks(e)'
  BY <1>6, <1>7, BooksFree
<1> QED BY <1>1, <1>2, <1>3, <1>4, <1>7, <1>8, <1>9, CrediterOnBooks, Zenon

LEMMA ClaimRefundBooks ==
  ASSUME BookInv, Types, Shape, NEW e \in Crediters, ClaimRefund(e), ~stale'
  PROVE  BookInv'
<1>1. UNCHANGED <<receipt, invoices, credits>> /\ crediter[e].pc = "claim"
  BY Zenon DEF ClaimRefund, books
<1>2. ReceiptSays
  <2>1. early' = early \/ early' = (early \/ receipt.status # "issued")
    BY Zenon DEF ClaimRefund
  <2>2. early => early'
    BY <2>1, Zenon
  <2> QED BY <1>1, <2>2, Zenon DEF ReceiptSays
<1>3. RefundSays
  <2>1. refund' = refund \/ refund' = [refund EXCEPT !.leased = TRUE]
    BY Zenon DEF ClaimRefund
  <2> QED BY <2>1 DEF RefundSays, Shape
<1>4. NotesStay
  BY <1>1, <1>3, Zenon DEF NotesStay, NoteOk, RefundSays
<1>5. CrediterAt(e, "idle") \/ (CrediterAt(e, "receipt") /\ refund.status = "pending")
  <2>1. \/ CrediterAt(e, "idle")
        \/ CrediterAt(e, "receipt") /\ stale' = (stale \/ refund.status # "pending" \/ refund.credit # crediter[e].credit)
    BY Zenon DEF ClaimRefund
  <2> QED BY <2>1, Zenon
<1>6. /\ crediter'[e].pc = "idle" \/ (crediter'[e].pc = "receipt" /\ refund.status = "pending")
      /\ crediter'[e].n = crediter[e].n /\ crediter'[e].amount = crediter[e].amount
      /\ \A f \in Crediters : f # e => crediter'[f] = crediter[f]
  BY <1>5, CrediterAtRow, Zenon
<1>7. CrediterRow(e)'
  <2>1. CrediterRow(e)
    BY DEF BookInv
  <2>2. crediter'[e].n <= refund'.n /\ (crediter'[e].n = refund'.n => crediter'[e].amount = refund'.amount)
    BY ZenonT(40), <1>1, <1>3, <1>6, <2>1 DEF CrediterRow, RefundSays
  <2>3. crediter'[e].pc = "receipt" => refund'.status # "issued"
    BY <1>3, <1>6 DEF RefundSays
  <2> QED BY <1>6, <2>2, <2>3 DEF CrediterRow
<1>8. CrediterBooks(e)'
  BY <1>6, BooksFree
<1> QED BY <1>1, <1>2, <1>3, <1>4, <1>6, <1>7, <1>8, CrediterOnBooks, Zenon

\* A crediter at work goes on.
LEMMA CrediterGoesBooks ==
  ASSUME BookInv, Types, Shape, UNCHANGED <<receipt, refund, invoices, early>>, NotesStay, NEW e \in Crediters,
         crediter[e].pc \notin {"idle", "claim", "plan", "release"},
         NEW w, crediter' = [crediter EXCEPT ![e] = w], w.n = crediter[e].n, w.amount = crediter[e].amount,
         InBooks' => CrediterBooks(e)'
  PROVE  BookInv'
<1>1. ReceiptSays /\ RefundSays
  BY Zenon DEF ReceiptSays, RefundSays
<1>2. crediter'[e] = w /\ \A f \in Crediters : f # e => crediter'[f] = crediter[f]
  BY CrediterStays, Zenon
<1>3. CrediterRow(e)'
  BY <1>1, <1>2, RowGoes, Zenon DEF BookInv
<1> QED BY <1>1, <1>2, <1>3, CrediterOnBooks, Zenon

\* It gives up with the rows as they were.
LEMMA CrediterGivesUpBooks ==
  ASSUME BookInv, Types, Shape, UNCHANGED <<receipt, refund, invoices, early>>, NotesStay, NEW e \in Crediters,
         crediter[e].pc \notin {"idle", "claim", "plan", "release"},
         NEW pc \in {"release", "block"}, CrediterAt(e, pc)
  PROVE  BookInv'
<1>1. ReceiptSays /\ RefundSays
  BY Zenon DEF ReceiptSays, RefundSays
<1> QED BY <1>1, CrediterEndsBooks, Zenon

LEMMA NotesSame == ASSUME UNCHANGED <<refund, credits>> PROVE NotesStay
BY Zenon DEF NotesStay, NoteOk

LEMMA GetReceiptBooks ==
  ASSUME BookInv, Types, Shape, NEW e \in Crediters, GetReceipt(e)
  PROVE  BookInv'
<1>1. UNCHANGED <<receipt, refund, invoices, early>> /\ NotesStay /\ crediter[e].pc = "receipt"
  <2>1. UNCHANGED <<receipt, refund, invoices, credits, early>> /\ crediter[e].pc = "receipt"
    BY Zenon DEF GetReceipt, rows, books
  <2> QED BY <2>1, NotesSame, Zenon
<1>2. crediter[e].pc \notin {"idle", "claim", "plan", "release"}
  BY <1>1
<1>3. CASE CrediterAt(e, "release")
  BY ZenonT(40), <1>1, <1>2, <1>3, CrediterGivesUpBooks
<1>4. CASE ~CrediterAt(e, "release")
  <2>1. PICK w : w = [crediter[e] EXCEPT !.ref = receipt.ref, !.pc = IF receipt.ref = 0 THEN "reread" ELSE "invoice"]
    OBVIOUS
  <2>2. crediter' = [crediter EXCEPT ![e] = w]
    BY <1>4, <2>1, Zenon DEF GetReceipt
  <2>3. /\ w.n = crediter[e].n /\ w.amount = crediter[e].amount /\ w.ref = receipt.ref
        /\ w.pc \in {"reread", "invoice"}
    BY <2>1 DEF Shape
  <2>4. crediter'[e] = w
    BY <2>2, CrediterStays, Zenon
  <2>5. CrediterBooks(e)'
    BY <1>1, <2>3, <2>4 DEF CrediterBooks, AtInvoice
  <2> QED BY <1>1, <1>2, <2>2, <2>3, <2>5, CrediterGoesBooks, Zenon
<1> QED BY <1>3, <1>4

\* What a crediter at work has read, and what the row says of its note.
LEMMA CrediterReads ==
  ASSUME BookInv, PayOk, RefundOk, NEW e \in Crediters, InBooks
  PROVE  /\ CrediterBooks(e) /\ RefundRow /\ receipt.ref \in Ids
         /\ Busy(e) => Relies(e) /\ crediter[e].n = refund.n
         /\ Busy(e) => crediter[e].amount = refund.amount
<1>1. CrediterBooks(e) /\ RefundRow
  BY Zenon DEF BookInv
<1>2. receipt.ref \in Ids
  BY Zenon DEF PayOk, IssuedOk, Done, InBooks
<1>3. Busy(e) => Relies(e) /\ crediter[e].n = refund.n
  BY Zenon DEF RefundOk, Same
<1>4. Busy(e) => crediter[e].amount = refund.amount
  BY <1>3, Zenon DEF BookInv, CrediterRow, Busy
<1> QED BY <1>1, <1>2, <1>3, <1>4, Zenon

LEMMA InvoiceWithPaymentsBooks ==
  ASSUME BookInv, PayOk, RefundOk, Types, Shape, NEW e \in Crediters, InvoiceWithPayments(e)
  PROVE  BookInv'
<1>1. UNCHANGED <<receipt, refund, invoices, early>> /\ NotesStay /\ crediter[e].pc \in {"invoice", "reget"}
  <2>1. UNCHANGED <<receipt, refund, invoices, credits, early>> /\ crediter[e].pc \in {"invoice", "reget"}
    BY Zenon DEF InvoiceWithPayments, rows, books
  <2> QED BY <2>1, NotesSame, Zenon
<1>2. crediter[e].pc \notin {"idle", "claim", "plan", "release"}
  BY <1>1
<1>3. CASE \E pc \in {"release", "block"} : CrediterAt(e, pc)
  BY <1>1, <1>2, <1>3, CrediterGivesUpBooks, Zenon
<1>4. CASE ~\E pc \in {"release", "block"} : CrediterAt(e, pc)
  <2>1. PICK next : next = (IF invoices[crediter[e].ref].state = "deleted" THEN "block"
                ELSE IF crediter[e].pc = "reget" THEN "apply"
                ELSE IF crediter[e].credit # 0 THEN "getcredit" ELSE "newcredit")
    OBVIOUS
  <2>2. PICK w : w = [crediter[e] EXCEPT !.pc = next, !.owed = Balance(crediter[e].ref),
                                         !.pays = invoices[crediter[e].ref].pays]
    OBVIOUS
  <2>3. crediter' = [crediter EXCEPT ![e] = w]
    BY <1>4, <2>1, <2>2, Zenon DEF InvoiceWithPayments
  <2>4. /\ w.n = crediter[e].n /\ w.amount = crediter[e].amount /\ w.ref = crediter[e].ref
        /\ w.left = crediter[e].left /\ w.pc = next /\ w.owed = Balance(crediter[e].ref)
    BY <2>2 DEF Shape
  <2>5. crediter'[e] = w
    BY <2>3, CrediterStays, Zenon
  <2>6. next \in {"block", "getcredit", "newcredit"} \/ (next = "apply" /\ crediter[e].pc = "reget")
    BY <2>1
  <2>7. ASSUME InBooks PROVE CrediterBooks(e)'
    <3>1. CrediterBooks(e)
      BY <2>7, CrediterReads, Zenon
    <3>2. crediter[e].ref = receipt.ref
      BY <1>1, <3>1 DEF CrediterBooks, AtInvoice
    <3>3. w.owed = Doc.owed
      BY <2>4, <2>7, <3>2, Zenon DEF Balance, InBooks, Doc
    <3>4. next = "apply" => (Open(Doc) => w.left = refund.amount)
      BY ZenonT(40), <2>4, <2>6, <3>1 DEF CrediterBooks
    <3>5. Doc' = Doc /\ (Open(Doc)' <=> Open(Doc))
      BY <1>1, Zenon DEF Doc, Open
    <3> QED BY ZenonT(40), <1>1, <2>4, <2>5, <2>6, <3>2, <3>3, <3>4, <3>5 DEF CrediterBooks, AtInvoice
  <2>8. InBooks' => CrediterBooks(e)'
    BY <1>1, <2>7, Zenon DEF InBooks, Doc
  <2> QED BY <1>1, <1>2, <2>3, <2>4, <2>8, CrediterGoesBooks, Zenon
<1> QED BY ZenonT(40), <1>3, <1>4

LEMMA GetCreditBooks ==
  ASSUME BookInv, PayOk, RefundOk, Types, Shape, NEW e \in Crediters, GetCredit(e)
  PROVE  BookInv'
<1>1. UNCHANGED <<receipt, refund, invoices, credits, early>> /\ NotesStay /\ crediter[e].pc = "getcredit"
  <2>1. UNCHANGED <<receipt, refund, invoices, credits, early>> /\ crediter[e].pc = "getcredit"
    BY Zenon DEF GetCredit, rows, books
  <2> QED BY <2>1, NotesSame, Zenon
<1>2. crediter[e].pc \notin {"idle", "claim", "plan", "release"} /\ Busy(e)
  BY <1>1 DEF Busy
<1>3. CASE \E pc \in {"release", "block"} : CrediterAt(e, pc)
  BY <1>1, <1>2, <1>3, CrediterGivesUpBooks, Zenon
<1>4. CASE ~\E pc \in {"release", "block"} : CrediterAt(e, pc)
  <2>1. PICK c : c = crediter[e].credit
    OBVIOUS
  <2>2. PICK next : next = (IF credits[c].state = "deleted" THEN "newcredit"
                            ELSE IF credits[c].state = "draft" THEN "sendcredit" ELSE "refund")
    OBVIOUS
  <2>3. PICK w : w = [crediter[e] EXCEPT !.left = CreditLeft(c), !.pc = next]
    OBVIOUS
  <2>4. crediter' = [crediter EXCEPT ![e] = w]
    BY <1>4, <2>1, <2>2, <2>3, Zenon DEF GetCredit
  <2>5. /\ w.n = crediter[e].n /\ w.amount = crediter[e].amount /\ w.ref = crediter[e].ref
        /\ w.left = CreditLeft(c) /\ w.pc = next /\ w.owed = crediter[e].owed
    BY SMTT(40), <2>3 DEF Shape
  <2>6. crediter'[e] = w
    BY <2>4, CrediterStays, Zenon
  <2>7. ASSUME InBooks PROVE CrediterBooks(e)'
    <3>1. CrediterBooks(e) /\ RefundRow /\ Relies(e)
      BY <1>2, <2>7, CrediterReads, Zenon
    <3>2. w.ref = receipt.ref /\ w.owed = Doc.owed
      BY ZenonT(40), <1>1, <2>5, <3>1 DEF CrediterBooks, AtInvoice
    <3>3. c = refund.credit /\ c # 0
      BY ZenonT(40), <1>1, <2>1, <3>1 DEF Relies, Types, Sums, AtNote
    <3>4. Open(Doc) => NoteOk(c)
      BY <3>1, <3>3, Zenon DEF RefundRow
    <3>5. next = "refund" => (Open(Doc) => w.left = refund.amount)
      BY ZenonT(40), <2>2, <2>5, <3>4 DEF NoteOk, CreditLeft
    <3>6. Doc' = Doc /\ (Open(Doc)' <=> Open(Doc))
      BY <1>1, Zenon DEF Doc, Open
    <3>7. next \in {"newcredit", "sendcredit", "refund"}
      BY <2>2
    <3> QED BY ZenonT(40), <1>1, <2>5, <2>6, <3>2, <3>5, <3>6, <3>7 DEF CrediterBooks, AtInvoice
  <2>8. InBooks' => CrediterBooks(e)'
    BY <1>1, <2>7, Zenon DEF InBooks, Doc
  <2> QED BY <1>1, <1>2, <2>4, <2>5, <2>8, CrediterGoesBooks, Zenon
<1> QED BY <1>3, <1>4

\* The new credit note is for the refund.
LEMMA CreateCreditBooks ==
  ASSUME BookInv, PayOk, RefundOk, Types, Shape, NEW e \in Crediters, CreateCredit(e)
  PROVE  BookInv'
<1>1. UNCHANGED <<receipt, refund, invoices, early>> /\ crediter[e].pc = "newcredit"
  BY Zenon DEF CreateCredit, rows
<1>2. crediter[e].pc \notin {"idle", "claim", "plan", "release"} /\ Busy(e)
  BY <1>1 DEF Busy
<1>3. crediter[e].amount = refund.amount
  BY <1>2, Zenon DEF BookInv, CrediterRow, RefundOk, Same
<1>4. PICK c \in Notes :
         /\ NewCredit(c)
         /\ credits' \in {credits, [credits EXCEPT ![c] = [state |-> "draft", left |-> crediter[e].amount]]}
         /\ \/ \E pc \in {"release", "block"} : CrediterAt(e, pc)
            \/ /\ credits' = [credits EXCEPT ![c] = [state |-> "draft", left |-> crediter[e].amount]]
               /\ crediter' = [crediter EXCEPT ![e] = [crediter[e] EXCEPT !.pc = "setcredit", !.credit = c]]
  BY ZenonT(40) DEF CreateCredit
<1>5. \A k \in Notes : credits'[k] = credits[k] \/ (credits'[k].state = "draft" /\ credits'[k].left = refund.amount)
  BY <1>3, <1>4 DEF Shape
<1>6. NotesStay
  BY <1>1, <1>5, Zenon DEF NotesStay, NoteOk
<1>7. CASE \E pc \in {"release", "block"} : CrediterAt(e, pc)
  BY <1>1, <1>2, <1>6, <1>7, CrediterGivesUpBooks, Zenon
<1>8. CASE ~\E pc \in {"release", "block"} : CrediterAt(e, pc)
  <2>1. credits' = [credits EXCEPT ![c] = [state |-> "draft", left |-> crediter[e].amount]]
    BY <1>4, <1>8, Zenon
  <2>2. NoteOk(c)'
    BY ZenonT(40), <1>1, <1>3, <2>1 DEF NoteOk, Shape
  <2>3. PICK w : w = [crediter[e] EXCEPT !.pc = "setcredit", !.credit = c]
    OBVIOUS
  <2>4. crediter' = [crediter EXCEPT ![e] = w]
    BY <1>4, <1>8, <2>3, Zenon
  <2>5. /\ w.n = crediter[e].n /\ w.amount = crediter[e].amount /\ w.ref = crediter[e].ref
        /\ w.pc = "setcredit" /\ w.owed = crediter[e].owed /\ w.credit = c
    BY <2>3 DEF Shape
  <2>6. crediter'[e] = w
    BY <2>4, CrediterStays, Zenon
  <2>7. ASSUME InBooks PROVE CrediterBooks(e)'
    <3>1. CrediterBooks(e)
      BY <2>7, CrediterReads, Zenon
    <3>2. w.ref = receipt.ref /\ w.owed = Doc.owed
      BY ZenonT(40), <1>1, <2>5, <3>1 DEF CrediterBooks, AtInvoice
    <3>3. Doc' = Doc
      BY <1>1, Zenon DEF Doc
    <3>4. NoteOk(crediter[e].credit)'
      BY <2>2, <2>5, <2>6, Zenon
    <3> QED BY ZenonT(40), <1>1, <2>5, <2>6, <3>2, <3>3, <3>4 DEF CrediterBooks, AtInvoice
  <2>8. InBooks' => CrediterBooks(e)'
    BY <1>1, <2>7, Zenon DEF InBooks, Doc
  <2> QED BY <1>1, <1>2, <1>6, <2>4, <2>5, <2>8, CrediterGoesBooks, Zenon
<1> QED BY <1>7, <1>8

LEMMA MarkCreditSentBooks ==
  ASSUME BookInv, PayOk, RefundOk, Types, Shape, NEW e \in Crediters, MarkCreditSent(e)
  PROVE  BookInv'
<1>1. UNCHANGED <<receipt, refund, invoices, early>> /\ crediter[e].pc = "sendcredit"
  BY Zenon DEF MarkCreditSent, rows
<1>2. crediter[e].pc \notin {"idle", "claim", "plan", "release"} /\ Busy(e)
  BY ZenonT(40), <1>1 DEF Busy
<1>3. PICK c : c = crediter[e].credit
  OBVIOUS
<1>4. c \in Notes /\ c # 0
  BY <1>1, <1>3 DEF Types, Sums, AtNote
<1>5. PICK w : w = [crediter[e] EXCEPT !.pc = "refund", !.left = credits[c].left]
  OBVIOUS
<1>6. /\ credits' = credits \/ (credits[c].state # "deleted" /\ credits' = [credits EXCEPT ![c].state = "sent"])
      /\ \/ \E pc \in {"release", "block"} : CrediterAt(e, pc)
         \/ credits[c].state # "deleted" /\ crediter' = [crediter EXCEPT ![e] = w]
  BY <1>3, <1>5, Zenon DEF MarkCreditSent
<1>7. \A k \in Notes : \/ credits'[k] = credits[k]
                       \/ credits[k].state # "deleted" /\ credits'[k].state = "sent" /\ credits'[k].left = credits[k].left
  BY SMTT(40), <1>4, <1>6 DEF Shape
<1>8. NotesStay
  BY <1>1, <1>7, Zenon DEF NotesStay, NoteOk
<1>9. CASE \E pc \in {"release", "block"} : CrediterAt(e, pc)
  BY <1>1, <1>2, <1>8, <1>9, CrediterGivesUpBooks, Zenon
<1>10. CASE ~\E pc \in {"release", "block"} : CrediterAt(e, pc)
  <2>1. credits[c].state # "deleted" /\ crediter' = [crediter EXCEPT ![e] = w]
    BY <1>6, <1>10, Zenon
  <2>2. /\ w.n = crediter[e].n /\ w.amount = crediter[e].amount /\ w.ref = crediter[e].ref
        /\ w.pc = "refund" /\ w.owed = crediter[e].owed /\ w.left = credits[c].left
    BY <1>5 DEF Shape
  <2>3. crediter'[e] = w
    BY <2>1, CrediterStays, Zenon
  <2>4. ASSUME InBooks PROVE CrediterBooks(e)'
    <3>1. CrediterBooks(e) /\ RefundRow /\ Relies(e)
      BY <1>2, <2>4, CrediterReads, Zenon
    <3>2. w.ref = receipt.ref /\ w.owed = Doc.owed
      BY ZenonT(40), <1>1, <2>2, <3>1 DEF CrediterBooks, AtInvoice
    <3>3. c = refund.credit
      BY ZenonT(40), <1>1, <1>3, <3>1 DEF Relies
    <3>4. Open(Doc) => w.left = refund.amount
      BY <1>4, <2>1, <2>2, <3>1, <3>3, Zenon DEF RefundRow, NoteOk
    <3>5. Doc' = Doc /\ (Open(Doc)' <=> Open(Doc))
      BY <1>1, Zenon DEF Doc, Open
    <3> QED BY ZenonT(40), <1>1, <2>2, <2>3, <3>2, <3>4, <3>5 DEF CrediterBooks, AtInvoice
  <2>5. InBooks' => CrediterBooks(e)'
    BY <1>1, <2>4, Zenon DEF InBooks, Doc
  <2> QED BY <1>1, <1>2, <1>8, <2>1, <2>2, <2>5, CrediterGoesBooks, Zenon
<1> QED BY <1>9, <1>10

\* The row takes the note.
LEMMA SetRefundCreditBooks ==
  ASSUME BookInv, PayOk, RefundOk, Types, Shape, NEW e \in Crediters, SetRefundCredit(e)
  PROVE  BookInv'
<1>1. UNCHANGED <<receipt, invoices, credits, early>> /\ crediter[e].pc = "setcredit"
  BY Zenon DEF SetRefundCredit, books
<1>2. crediter[e].pc \notin {"idle", "claim", "plan", "release"} /\ Busy(e)
  BY <1>1 DEF Busy
<1>3. Same(e)
  BY <1>2, BusyKnows
<1>4. PICK c : c = crediter[e].credit
  OBVIOUS
<1>5. PICK pc \in {"sendcredit", "release"} :
         CrediterAt(e, pc) /\ (refund' = [refund EXCEPT !.credit = c] \/ (refund' = refund /\ pc = "release"))
  BY <1>3, <1>4, Zenon DEF SetRefundCredit, WriteRefund
<1>6. CASE refund' = refund /\ pc = "release"
  <2>1. NotesStay
    BY <1>1, <1>6, NotesSame, Zenon
  <2> QED BY ZenonT(40), <1>1, <1>2, <1>5, <1>6, <2>1, CrediterGivesUpBooks
<1>7. CASE refund' = [refund EXCEPT !.credit = c]
  <2>1. /\ refund'.n = refund.n /\ refund'.amount = refund.amount /\ refund'.credit = c
        /\ refund'.status = refund.status
    BY <1>7 DEF Shape
  <2>2. /\ crediter'[e].pc = pc /\ crediter'[e].n = crediter[e].n /\ crediter'[e].amount = crediter[e].amount
        /\ crediter'[e].ref = crediter[e].ref /\ crediter'[e].owed = crediter[e].owed
        /\ \A f \in Crediters : f # e => crediter'[f] = crediter[f]
    BY <1>5, CrediterAtRow, Zenon
  <2>3. ASSUME NEW f \in Crediters PROVE CrediterRow(f)'
    <3>1. CrediterRow(f) /\ CrediterRow(e)
      BY DEF BookInv
    <3>2. CASE f = e
      BY ZenonT(40), <1>2, <2>1, <2>2, <3>1, <3>2 DEF CrediterRow
    <3>3. CASE f # e
      BY <2>1, <2>2, <3>1, <3>3, Zenon DEF CrediterRow
    <3> QED BY <3>2, <3>3
  <2>4. ~early' => receipt'.status = "issued"
    BY <1>1, <1>2, Zenon DEF PayOk, CrediterPaid
  <2>5. ASSUME InBooks' PROVE RefundRow' /\ CrediterBooks(e)'
    <3>1. InBooks /\ Doc' = Doc
      BY <1>1, <2>5, Zenon DEF InBooks, Doc
    <3>2. CrediterBooks(e) /\ RefundRow /\ CrediterRow(e)
      BY <3>1, CrediterReads, Zenon DEF BookInv
    <3>3. (Open(Doc)' <=> Open(Doc)) /\ c # 0 /\ refund.status # "issued"
      BY ZenonT(40), <1>1, <1>2, <1>4, <2>1, <3>1, <3>2 DEF Open, Types, Sums, AtNote, CrediterRow
    <3>4. NoteOk(c)'
      <4>1. NoteOk(c)
        BY ZenonT(40), <1>1, <1>4, <3>2 DEF CrediterBooks
      <4> QED BY <1>1, <2>1, <4>1, Zenon DEF NoteOk
    <3>5. RefundRow'
      <4>1. refund'.credit # 0 /\ NoteOk(refund.credit)' /\ refund'.status # "issued"
        BY <2>1, <3>3, <3>4, Zenon
      <4>2. Doc'.back <= refund'.amount =>
               \/ Doc'.back = 0 /\ Doc'.owed = 0
               \/ Doc'.back = refund'.amount /\ Doc'.owed \in {0, refund'.amount}
        BY <2>1, <3>1, <3>2, ZenonT(60) DEF RefundRow
      <4> QED BY <4>1, <4>2, Zenon DEF RefundRow
    <3>6. CrediterBooks(e)'
      <4>1. crediter[e].owed = Doc.owed /\ crediter[e].ref = receipt.ref
        BY <1>1, <3>2 DEF CrediterBooks, AtInvoice
      <4> QED BY ZenonT(40), <1>1, <2>2, <3>1, <4>1 DEF CrediterBooks, AtInvoice
    <3> QED BY <3>5, <3>6
  <2> QED BY <1>2, <2>2, <2>3, <2>4, <2>5, BooksMove, Zenon
<1> QED BY <1>5, <1>6, <1>7

LEMMA MarkRefundIssuedBooks ==
  ASSUME BookInv, PayOk, RefundOk, Types, Shape, NEW e \in Crediters, MarkRefundIssued(e)
  PROVE  BookInv'
<1>1. UNCHANGED <<receipt, invoices, credits, early>> /\ crediter[e].pc \in {"mark", "close"}
  BY Zenon DEF MarkRefundIssued, books
<1>2. crediter[e].pc \notin {"idle", "claim", "plan", "release"} /\ Busy(e)
  BY ZenonT(40), <1>1 DEF Busy
<1>3. Same(e) /\ Relies(e) /\ \A f \in Crediters : f # e => ~Busy(f)
  BY ZenonT(40), <1>2, BusyKnows
<1>4. PICK c : c = IF crediter[e].pc = "mark" THEN crediter[e].credit ELSE 0
  BY ZenonT(40)
<1>5. c = refund.credit
  BY ZenonT(40), <1>1, <1>3, <1>4 DEF Relies
<1>6. PICK pc \in {"plan", "release"} :
         /\ CrediterAt(e, pc)
         /\ \/ refund' = [refund EXCEPT !.status = "issued", !.credit = c]
            \/ refund' = refund /\ pc = "release"
  BY <1>3, <1>4, Zenon DEF MarkRefundIssued, WriteRefund
<1>7. CASE refund' = refund /\ pc = "release"
  <2>1. NotesStay
    BY <1>1, <1>7, NotesSame, Zenon
  <2> QED BY ZenonT(40), <1>1, <1>2, <1>6, <1>7, <2>1, CrediterGivesUpBooks
<1>8. CASE refund' = [refund EXCEPT !.status = "issued", !.credit = c]
  <2>1. refund'.n = refund.n /\ refund'.amount = refund.amount /\ refund'.credit = refund.credit
    BY ZenonT(40), <1>5, <1>8 DEF Shape
  <2>2. /\ crediter'[e].pc = pc /\ crediter'[e].n = crediter[e].n /\ crediter'[e].amount = crediter[e].amount
        /\ \A f \in Crediters : f # e => crediter'[f] = crediter[f]
    BY <1>6, CrediterAtRow, Zenon
  <2>3. ASSUME NEW f \in Crediters PROVE CrediterRow(f)'
    <3>1. CrediterRow(f)
      BY DEF BookInv
    <3>2. crediter'[f].n = crediter[f].n /\ crediter'[f].amount = crediter[f].amount
      BY <2>2, Zenon
    <3>3. crediter'[f].pc \in {"idle", "claim", "plan", "release"} /\ (crediter'[f].pc # "idle" => crediter[f].pc # "idle")
      BY ZenonT(40), <1>2, <1>3, <2>2 DEF Busy
    <3> QED BY <2>1, <3>1, <3>2, <3>3, Zenon DEF CrediterRow
  <2>4. (~early' /\ receipt'.status # "issued") => refund'.credit = 0
    BY <1>1, <2>1, Zenon DEF BookInv
  <2>5. ASSUME InBooks' PROVE RefundRow' /\ CrediterBooks(e)'
    <3>1. InBooks /\ Doc' = Doc
      BY <1>1, <2>5, Zenon DEF InBooks, Doc
    <3>2. CrediterBooks(e) /\ RefundRow
      BY <3>1, CrediterReads, Zenon
    <3>3. (Open(Doc)' <=> Open(Doc)) /\ (Even(Doc)' <=> Even(Doc))
      BY <2>1, <3>1, Zenon DEF Open, Even
    <3>4. refund'.credit # 0 => Even(Doc)'
      BY ZenonT(40), <1>1, <1>3, <2>1, <3>2, <3>3 DEF CrediterBooks, Relies
    <3>5. (refund'.credit # 0 /\ Open(Doc)') => NoteOk(refund.credit)'
      BY <1>1, <2>1, <3>2, <3>3, Zenon DEF RefundRow, NoteOk
    <3>6. refund'.credit = 0 => Doc'.back = 0 /\ Doc'.owed = 0
      BY <2>1, <3>1, <3>2, Zenon DEF RefundRow
    <3>7. Doc'.back <= refund'.amount =>
             \/ Doc'.back = 0 /\ Doc'.owed = 0
             \/ Doc'.back = refund'.amount /\ Doc'.owed \in {0, refund'.amount}
      BY <2>1, <3>1, <3>2, Zenon DEF RefundRow
    <3>8. RefundRow'
      BY <3>4, <3>5, <3>6, <3>7, Zenon DEF RefundRow
    <3> QED BY SMTT(40), <2>2, <3>8, BooksFree
  <2> QED BY <1>2, <2>2, <2>3, <2>4, <2>5, BooksMove, Zenon
<1> QED BY ZenonT(40), <1>6, <1>7, <1>8

\* The one request of the crediter: nothing happened, or it took effect.
LEMMA AskBooksEnds ==
  ASSUME NEW e \in Crediters, NEW possible, NEW inv, NEW crd, NEW next, AskBooks(e, possible, inv, crd, next)
  PROVE  \/ invoices' = invoices /\ credits' = credits /\ \E pc \in {"release", "block"} : CrediterAt(e, pc)
         \/ possible /\ invoices' = inv /\ credits' = crd /\ \E pc \in {next, "release"} : CrediterAt(e, pc)
BY Zenon DEF AskBooks, books

\* The crediter changes the invoice, and the row stays.
LEMMA BooksChange ==
  ASSUME BookInv, RefundOk, Shape, NEW e \in Crediters, crediter[e].pc \in {"refund", "apply"},
         NEW pc, CrediterAt(e, pc), UNCHANGED <<receipt, refund, early>>,
         InBooks' => RefundRow' /\ CrediterBooks(e)'
  PROVE  BookInv'
<1>1. Busy(e) /\ crediter[e].pc \notin {"idle", "claim", "plan", "release"}
  BY DEF Busy
<1>2. RefundSays
  BY Zenon DEF RefundSays
<1>3. /\ crediter'[e].pc = pc /\ crediter'[e].n = crediter[e].n /\ crediter'[e].amount = crediter[e].amount
      /\ \A f \in Crediters : f # e => crediter'[f] = crediter[f]
  BY CrediterAtRow, Zenon
<1>4. CrediterRow(e)'
  BY <1>1, <1>2, <1>3, RowGoes, Zenon DEF BookInv
<1>5. ASSUME NEW f \in Crediters PROVE CrediterRow(f)'
  <2>1. CASE f # e
    BY <1>3, <2>1, Zenon DEF BookInv, CrediterRow
  <2> QED BY <1>4, <2>1
<1>6. (~early' /\ receipt'.status # "issued") => refund'.credit = 0
  BY Zenon DEF BookInv
<1> QED BY <1>1, <1>3, <1>5, <1>6, BooksMove, ZenonT(60)

\* The invoice that is changed is the one the receipt names.
LEMMA ChangedDoc ==
  ASSUME BookInv, PayOk, RefundOk, Types, Shape, NEW e \in Crediters, crediter[e].pc \in {"refund", "apply"},
         invoices'[crediter[e].ref].state = invoices[crediter[e].ref].state,
         \A j \in Ids : j # crediter[e].ref => invoices'[j] = invoices[j],
         UNCHANGED <<receipt, refund, early>>, InBooks'
  PROVE  /\ InBooks /\ crediter[e].ref = receipt.ref
         /\ CrediterBooks(e) /\ RefundRow /\ refund.status # "issued"
         /\ refund.credit = crediter[e].credit /\ refund.credit # 0
         /\ crediter[e].amount = refund.amount /\ refund.amount \in 1 .. Amount
         /\ Doc.back \in Int /\ Doc.owed \in Int
<1>1. PICK i : i = crediter[e].ref
  OBVIOUS
<1>2. PICK k : k = receipt.ref
  BY ZenonT(40)
<1>3. i \in Ids /\ k \in Ids
  <2>1. receipt.status = "issued"
    BY Zenon DEF InBooks
  <2>2. k \in Ids
    BY <1>2, <2>1, Zenon DEF PayOk, IssuedOk, Done
  <2> QED BY ZenonT(40), <1>1, <2>2 DEF Types, Sums, AtInvoice
<1>4. invoices'[k].state = invoices[k].state
  BY <1>1, <1>3, Zenon
<1>5. InBooks
  BY <1>2, <1>4, Zenon DEF InBooks, Doc
<1>6. Busy(e)
  BY DEF Busy
<1>7. /\ CrediterBooks(e) /\ RefundRow /\ Relies(e) /\ crediter[e].amount = refund.amount
  BY <1>5, <1>6, CrediterReads, Zenon
<1>8. i = k
  BY ZenonT(40), <1>1, <1>2, <1>7 DEF CrediterBooks, AtInvoice
<1>9. refund.status # "issued"
  BY ZenonT(40) DEF BookInv, CrediterRow
<1>10. refund.credit = crediter[e].credit /\ refund.credit # 0
  BY <1>7 DEF Relies, Types, Sums, AtNote
<1>11. refund.amount \in 1 .. Amount /\ Doc.back \in Int /\ Doc.owed \in Int
  BY <1>2, <1>3, Zenon DEF Types, Figures, Doc
<1> QED BY <1>1, <1>2, <1>5, <1>7, <1>8, <1>9, <1>10, <1>11, Zenon

\* The money is given back: the invoice is open, and the note can close it.
LEMMA RefundPaymentBooks ==
  ASSUME BookInv, PayOk, RefundOk, Types, Shape, NEW e \in Crediters, RefundPayment(e)
  PROVE  BookInv'
<1>1. PICK i : i = crediter[e].ref
  OBVIOUS
<1>2. PICK a : a = crediter[e].amount
  OBVIOUS
<1>3. PICK p : p = Payable(crediter[e].pays, a)
  OBVIOUS
<1>4. PICK v : v = GivenBack(invoices[i], p, a)
  BY ZenonT(40)
<1>5. crediter[e].pc = "refund" /\ UNCHANGED <<receipt, refund, early>>
  BY ZenonT(40) DEF RefundPayment, rows
<1>6. crediter[e].pc \notin {"idle", "claim", "plan", "release"} /\ i \in Ids
  BY ZenonT(40), <1>1, <1>5 DEF Types, Sums, AtInvoice
<1>7. \/ invoices' = invoices /\ credits' = credits
            /\ (CrediterAt(e, "apply") \/ \E pc \in {"release", "block"} : CrediterAt(e, pc))
      \/ invoices' = [invoices EXCEPT ![i] = v] /\ credits' = credits /\ \E pc \in {"reget", "release"} : CrediterAt(e, pc)
  <2>1. CASE p = 0
    BY <1>2, <1>3, <2>1, Zenon DEF RefundPayment, books
  <2>2. CASE p # 0
    <3>1. AskBooks(e, invoices[i].state = "sent" /\ Amount - invoices[i].pays[p] >= a,
                   [invoices EXCEPT ![i] = v], credits, "reget")
      BY <1>1, <1>2, <1>3, <1>4, <2>2, Zenon DEF RefundPayment
    <3> QED BY <3>1, AskBooksEnds, Zenon
  <2> QED BY ZenonT(40), <2>1, <2>2
<1>8. CASE invoices' = invoices /\ credits' = credits /\ \E pc \in {"release", "block"} : CrediterAt(e, pc)
  <2>1. NotesStay
    BY <1>5, <1>8, NotesSame, Zenon
  <2> QED BY <1>5, <1>6, <1>8, <2>1, CrediterGivesUpBooks, Zenon
<1>9. CASE invoices' = invoices /\ credits' = credits /\ CrediterAt(e, "apply")
  <2>1. NotesStay
    BY <1>5, <1>9, NotesSame, Zenon
  <2>2. PICK w : w = [crediter[e] EXCEPT !.pc = "apply"]
    BY Zenon
  <2>3. crediter' = [crediter EXCEPT ![e] = w]
    BY <1>9, <2>2, Zenon DEF CrediterAt
  <2>4. /\ w.n = crediter[e].n /\ w.amount = crediter[e].amount /\ w.pc = "apply" /\ w.ref = crediter[e].ref
        /\ w.owed = crediter[e].owed /\ w.left = crediter[e].left
    BY SMTT(40), <2>2 DEF Shape
  <2>5. crediter'[e] = w
    BY <2>3, CrediterStays, Zenon
  <2>6. ASSUME InBooks' PROVE CrediterBooks(e)'
    <3>1. InBooks /\ Doc' = Doc /\ (Open(Doc)' <=> Open(Doc))
      BY <1>5, <1>9, <2>6, Zenon DEF InBooks, Doc, Open
    <3>2. CrediterBooks(e)
      BY <3>1, CrediterReads, Zenon
    <3>3. w.owed = Doc.owed /\ w.ref = receipt.ref /\ (Open(Doc) => w.left = refund.amount)
      BY ZenonT(40), <1>5, <2>4, <3>2 DEF CrediterBooks, AtInvoice
    <3> QED BY ZenonT(40), <1>5, <2>4, <2>5, <3>1, <3>3 DEF CrediterBooks
  <2> QED BY <1>5, <1>6, <1>9, <2>1, <2>3, <2>4, <2>6, CrediterGoesBooks, Zenon
<1>10. CASE invoices' = [invoices EXCEPT ![i] = v] /\ credits' = credits /\ \E pc \in {"reget", "release"} : CrediterAt(e, pc)
  <2>1. PICK pc \in {"reget", "release"} : CrediterAt(e, pc)
    BY ZenonT(40), <1>10
  <2>2. v.state = invoices[i].state /\ v.back = invoices[i].back + a /\ v.owed = invoices[i].owed + a
    BY SMTT(40), <1>4, <1>6 DEF GivenBack, Shape
  <2>3. /\ crediter'[e].pc = pc /\ crediter'[e].ref = crediter[e].ref /\ crediter'[e].left = crediter[e].left
    BY <2>1, CrediterAtRow, Zenon
  <2>4. ASSUME InBooks' PROVE RefundRow' /\ CrediterBooks(e)'
    <3>1. /\ invoices'[i] = v /\ invoices'[i].state = invoices[i].state
          /\ \A j \in Ids : j # i => invoices'[j] = invoices[j]
      BY ZenonT(40), <1>6, <1>10, <2>2 DEF Shape
    <3>2. /\ crediter[e].ref = receipt.ref
          /\ CrediterBooks(e) /\ RefundRow /\ refund.status # "issued" /\ refund.credit # 0
          /\ crediter[e].amount = refund.amount /\ refund.amount \in 1 .. Amount
          /\ Doc.back \in Int /\ Doc.owed \in Int
      BY <1>1, <1>5, <2>4, <3>1, ChangedDoc, Zenon
    <3>3. PICK r : r = refund.amount
      OBVIOUS
    <3>4. r \in 1 .. Amount /\ r = refund'.amount /\ Doc'.back = Doc.back + r /\ Doc'.owed = Doc.owed + r
      BY <1>1, <1>2, <1>5, <2>2, <3>1, <3>2, <3>3, ZenonT(60) DEF Doc
    <3>5. Doc.back <= r => (Doc.back = 0 /\ Doc.owed = 0) \/ Doc.back = r
      BY <3>2, <3>3, Zenon DEF RefundRow
    <3>6. Doc'.back <= r => Doc.back = 0 /\ Doc.owed = 0 /\ Doc'.back = r /\ Doc'.owed = r
      BY SMTT(40), <3>2, <3>4, <3>5, BillingAssumption
    <3>7. Doc'.back <= r => Open(Doc)
      BY SMTT(40), <3>3, <3>4, <3>6, BillingAssumption DEF Open
    <3>8. Open(Doc)' => Open(Doc)
      BY <3>4, <3>7, Zenon DEF Open
    <3>9. Open(Doc) => NoteOk(refund.credit)'
      BY <1>5, <1>10, <3>2, Zenon DEF RefundRow, NoteOk
    <3>10. RefundRow'
      BY <1>5, <3>2, <3>4, <3>6, <3>8, <3>9, Zenon DEF RefundRow
    <3>11. CrediterBooks(e)'
      <4>1. Open(Doc)' => crediter[e].left = refund.amount
        BY ZenonT(40), <1>5, <3>2, <3>8 DEF CrediterBooks
      <4> QED BY ZenonT(40), <1>5, <2>3, <3>2, <4>1 DEF CrediterBooks
    <3> QED BY ZenonT(40), <3>10, <3>11
  <2>5. crediter[e].pc \in {"refund", "apply"} /\ UNCHANGED <<receipt, refund, early>>
    BY ZenonT(40), <1>5
  <2> QED BY <2>1, <2>4, <2>5, BooksChange, Zenon
<1> QED BY <1>7, <1>8, <1>9, <1>10, ZenonT(60)

\* The crediter applies what the refund opened, all of it.
LEMMA AppliesAll ==
  ASSUME BookInv, PayOk, RefundOk, Types, NEW e \in Crediters, crediter[e].pc = "apply", InBooks,
         NEW a, a = Least({crediter[e].amount, crediter[e].owed, crediter[e].left}), Doc.back <= refund.amount
  PROVE  /\ a <= 0 => Doc.owed = 0
         /\ ~(a <= 0) => Doc.back = refund.amount /\ Doc.owed = refund.amount /\ a = refund.amount
<1>1. CrediterBooks(e) /\ RefundRow /\ crediter[e].amount = refund.amount
  BY CrediterReads DEF Busy
<1>2. PICK r : r = refund.amount
  OBVIOUS
<1>3. r \in 1 .. Amount /\ crediter[e].owed \in Int /\ crediter[e].left \in Int /\ crediter[e].amount = r
  BY <1>1, <1>2, Zenon DEF Types, Sums
<1>4. r \in Int /\ r > 0
  BY SMTT(40), <1>3, BillingAssumption
<1>5. crediter[e].owed = Doc.owed /\ (Open(Doc) => crediter[e].left = r)
  BY ZenonT(40), <1>1, <1>2 DEF CrediterBooks
<1>6. /\ a \in {r, crediter[e].owed, crediter[e].left}
      /\ a <= r /\ a <= crediter[e].owed /\ a <= crediter[e].left
  BY <1>3, <1>4, LeastIs, Zenon
<1>7. (Doc.back = 0 /\ Doc.owed = 0) \/ (Doc.back = r /\ Doc.owed \in {0, r})
  BY <1>1, <1>2, Zenon DEF RefundRow
<1>8. CASE Doc.owed = 0
  BY ZenonT(40), <1>3, <1>4, <1>5, <1>6, <1>8
<1>9. CASE Doc.back = r /\ Doc.owed = r
  <2>1. Open(Doc)
    BY <1>2, <1>9, Zenon DEF Open
  <2>2. a = r
    BY <1>5, <1>6, <1>9, <2>1, Zenon
  <2> QED BY SMTT(40), <1>2, <1>4, <1>9, <2>2
<1> QED BY ZenonT(40), <1>7, <1>8, <1>9

LEMMA ApplyCreditBooks ==
  ASSUME BookInv, PayOk, RefundOk, Types, Shape, NEW e \in Crediters, ApplyCredit(e)
  PROVE  BookInv'
<1>1. PICK i : i = crediter[e].ref
  OBVIOUS
<1>2. PICK a : a = Least({crediter[e].amount, crediter[e].owed, crediter[e].left})
  OBVIOUS
<1>3. PICK v : v = Credited(invoices[i], a)
  BY ZenonT(40)
<1>4. crediter[e].pc = "apply" /\ UNCHANGED <<receipt, refund, early>>
  BY ZenonT(40) DEF ApplyCredit, rows
<1>5. crediter[e].pc \notin {"idle", "claim", "plan", "release"} /\ i \in Ids
  BY ZenonT(40), <1>1, <1>4 DEF Types, Sums, AtInvoice
<1>6. \/ invoices' = invoices /\ credits' = credits
            /\ ((a <= 0 /\ CrediterAt(e, "mark")) \/ \E pc \in {"release", "block"} : CrediterAt(e, pc))
      \/ ~(a <= 0) /\ invoices' = [invoices EXCEPT ![i] = v] /\ \E pc \in {"mark", "release"} : CrediterAt(e, pc)
  <2>1. CASE a <= 0
    BY <1>2, <2>1, Zenon DEF ApplyCredit, books
  <2>2. CASE ~(a <= 0)
    <3>1. AskBooks(e, a <= Balance(i) /\ a <= CreditLeft(crediter[e].credit),
                   [invoices EXCEPT ![i] = v], [credits EXCEPT ![crediter[e].credit].left = @ - a], "mark")
      BY <1>1, <1>2, <1>3, <2>2, Zenon DEF ApplyCredit
    <3> QED BY <2>2, <3>1, AskBooksEnds, Zenon
  <2> QED BY <2>1, <2>2
<1>7. CASE invoices' = invoices /\ credits' = credits /\ \E pc \in {"release", "block"} : CrediterAt(e, pc)
  <2>1. NotesStay
    BY <1>4, <1>7, NotesSame, Zenon
  <2> QED BY <1>4, <1>5, <1>7, <2>1, CrediterGivesUpBooks, Zenon
<1>8. CASE invoices' = invoices /\ credits' = credits /\ a <= 0 /\ CrediterAt(e, "mark")
  <2>1. NotesStay
    BY <1>4, <1>8, NotesSame, Zenon
  <2>2. PICK w : w = [crediter[e] EXCEPT !.pc = "mark"]
    BY Zenon
  <2>3. crediter' = [crediter EXCEPT ![e] = w]
    BY <1>8, <2>2, Zenon DEF CrediterAt
  <2>4. w.n = crediter[e].n /\ w.amount = crediter[e].amount /\ w.pc = "mark" /\ w.ref = crediter[e].ref
    BY ZenonT(40), <2>2 DEF Shape
  <2>5. crediter'[e] = w
    BY <2>3, CrediterStays, Zenon
  <2>6. ASSUME InBooks' PROVE CrediterBooks(e)'
    <3>1. InBooks /\ Doc' = Doc /\ (Even(Doc)' <=> Even(Doc))
      BY <1>4, <1>8, <2>6, Zenon DEF InBooks, Doc, Even
    <3>2. CrediterBooks(e)
      BY <3>1, CrediterReads, Zenon
    <3>3. w.ref = receipt.ref
      BY ZenonT(40), <1>4, <2>4, <3>2 DEF CrediterBooks, AtInvoice
    <3>4. Even(Doc)
      BY <1>2, <1>4, <1>8, <3>1, AppliesAll, Zenon DEF Even
    <3> QED BY ZenonT(40), <1>4, <2>4, <2>5, <3>1, <3>3, <3>4 DEF CrediterBooks
  <2> QED BY <1>4, <1>5, <1>8, <2>1, <2>3, <2>4, <2>6, CrediterGoesBooks, Zenon
<1>9. CASE ~(a <= 0) /\ invoices' = [invoices EXCEPT ![i] = v] /\ \E pc \in {"mark", "release"} : CrediterAt(e, pc)
  <2>1. PICK pc \in {"mark", "release"} : CrediterAt(e, pc)
    BY ZenonT(40), <1>9
  <2>2. v.state = invoices[i].state /\ v.back = invoices[i].back /\ v.owed = invoices[i].owed - a
    BY ZenonT(40), <1>3, <1>5 DEF Credited, Shape
  <2>3. crediter'[e].pc = pc /\ crediter'[e].ref = crediter[e].ref
    BY <2>1, CrediterAtRow, Zenon
  <2>4. ASSUME InBooks' PROVE RefundRow' /\ CrediterBooks(e)'
    <3>1. /\ invoices'[i] = v /\ invoices'[i].state = invoices[i].state
          /\ \A j \in Ids : j # i => invoices'[j] = invoices[j]
      BY ZenonT(40), <1>5, <1>9, <2>2 DEF Shape
    <3>2. crediter[e].pc \in {"refund", "apply"}
      BY <1>4
    <3>3. /\ InBooks /\ crediter[e].ref = receipt.ref /\ refund.status # "issued" /\ refund.credit # 0
          /\ refund.amount \in 1 .. Amount
      BY <1>1, <1>4, <2>4, <3>1, <3>2, ChangedDoc, Zenon
    <3>4. PICK r : r = refund.amount
      OBVIOUS
    <3>5. r = refund'.amount /\ Doc'.back = Doc.back /\ Doc'.owed = Doc.owed - a
      BY <1>1, <1>4, <2>2, <3>1, <3>3, <3>4, Zenon DEF Doc
    <3>6. Doc.back <= r => Doc.back = r /\ Doc.owed = r /\ a = r
      BY <1>2, <1>4, <1>9, <3>3, <3>4, AppliesAll, Zenon
    <3>7. r \in Int /\ r > 0
      BY SMTT(40), <3>3, <3>4, BillingAssumption
    <3>8. Doc'.back <= r => Doc'.back = r /\ Doc'.owed = 0
      BY SMTT(40), <3>5, <3>6, <3>7
    <3>9. ~Open(Doc)'
      <4>1. ~(Doc'.back <= r /\ Doc'.owed = Doc'.back)
        BY <3>7, <3>8
      <4> QED BY <3>5, <4>1, Zenon DEF Open
    <3>10. Even(Doc)'
      BY <3>5, <3>8, Zenon DEF Even
    <3>11. RefundRow'
      BY <1>4, <3>3, <3>5, <3>8, <3>9, ZenonT(60) DEF RefundRow
    <3>12. CrediterBooks(e)'
      BY ZenonT(40), <1>4, <2>3, <3>3, <3>10 DEF CrediterBooks
    <3> QED BY ZenonT(40), <3>11, <3>12
  <2>5. crediter[e].pc \in {"refund", "apply"} /\ UNCHANGED <<receipt, refund, early>>
    BY <1>4
  <2> QED BY <2>1, <2>4, <2>5, BooksChange, Zenon
<1> QED BY <1>6, <1>7, <1>8, <1>9, Zenon

LEMMA InitBooks == Init => BookInv
<1> SUFFICES ASSUME Init PROVE BookInv
  OBVIOUS
<1>1. refund.n = 0 /\ refund.credit = 0 /\ receipt.status # "issued"
  BY SMTT(40) DEF Init
<1>2. ASSUME NEW e \in Crediters PROVE crediter[e].pc = "idle" /\ crediter[e].n = 0
  BY DEF Init, Uncredited
<1>3. \A e \in Crediters : CrediterRow(e)
  BY <1>1, <1>2 DEF CrediterRow
<1>4. ~InBooks
  BY <1>1, Zenon DEF InBooks
<1> QED BY <1>1, <1>3, <1>4, Zenon DEF BookInv

LEMMA NextBooks ==
  ASSUME BookInv, PayOk, ReceiptOk, RefundOk, Types, Shape, [Next]_vars, ~stale'
  PROVE  BookInv'
<1>1. ASSUME NEW e \in Crediters, CrediterStep(e) \/ StopCrediter(e) PROVE BookInv'
  BY <1>1, CrediterOutsideBooks, ClaimRefundBooks, GetReceiptBooks, CrediterPlainBooks, InvoiceWithPaymentsBooks,
     GetCreditBooks, CreateCreditBooks, SetRefundCreditBooks, MarkCreditSentBooks, RefundPaymentBooks,
     ApplyCreditBooks, MarkRefundIssuedBooks, Zenon DEF CrediterStep
<1> QED BY <1>1, IssuerBooks, DeleteInvoiceBooks, DeleteCreditBooks, RecordRefundBooks, OthersBook, Zenon DEF Next
-----------------------------------------------------------------------------
Accounts == ~stale => BookInv

LEMMA BooksInvariance == Spec => [](IInv /\ Types /\ Payments /\ Accounts)
<1>1. Init => Accounts
  BY InitBooks, Zenon DEF Accounts
<1>2. IInv /\ Types /\ Payments /\ Accounts /\ [Next]_vars => Accounts'
  <2> SUFFICES ASSUME IInv, Types, Payments, Accounts, [Next]_vars, ~stale' PROVE BookInv'
    BY Zenon DEF Accounts
  <2>1. ~stale
    BY StaleStays, Zenon
  <2>2. PayOk /\ BookInv /\ ReceiptOk /\ RefundOk /\ Shape
    BY <2>1, Zenon DEF Payments, Accounts, IInv, Sound
  <2> QED BY <2>2, NextBooks, Zenon
<1> QED BY <1>1, <1>2, PaysInvariance, PTL DEF Spec

\* Once the credit note of a refund is recorded the invoice it credits owes
\* nothing, whichever steps of IssueCreditNote were repeated, provided the
\* money was taken out once.
THEOREM Balanced == Spec => []BooksBalance
<1>1. IInv /\ Types /\ Payments /\ Accounts => BooksBalance
  <2> SUFFICES ASSUME Accounts, ~stale, ~early, refund.status = "issued", refund.credit # 0,
                      NEW i \in Ids, receipt.ref = i, Refunded(i) <= refund.amount
               PROVE  Balance(i) = 0
    BY Zenon DEF BooksBalance
  <2>1. CASE invoices[i].state # "sent"
    BY <2>1, Zenon DEF Balance
  <2>2. CASE invoices[i].state = "sent"
    <3>1. receipt.status = "issued"
      BY Zenon DEF Accounts, BookInv
    <3>2. RefundRow
      BY <2>2, <3>1, Zenon DEF Accounts, BookInv, InBooks, Doc
    <3>3. Even(Doc)
      BY <3>2, Zenon DEF RefundRow
    <3> QED BY <2>2, <3>3, Zenon DEF Even, Doc, Balance, Refunded
  <2> QED BY <2>1, <2>2
<1> QED BY <1>1, BooksInvariance, PTL
=============================================================================
