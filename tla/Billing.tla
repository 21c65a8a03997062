------------------------------- MODULE Billing -------------------------------
(***************************************************************************)
(* The documents of one payment: the receipts outbox                       *)
(* (src/internal/billing/receipts.go), the refunds outbox                  *)
(* (src/internal/refunds/refunds.go), their rows                           *)
(* (src/internal/store/postgres/{receipts,refunds}.go), the client of the  *)
(* billing system (src/internal/invoiceninja) and the operator's calls     *)
(* (src/internal/api/{refunds,payments}.go).                               *)
(*                                                                         *)
(* Both outboxes are leader singletons of the same replica and run side by *)
(* side; a handover may overlap, so each has a set of drainers.  Every     *)
(* store call and every request to the billing system is a step that may   *)
(* fail, with or without having taken effect, and a drainer may stop       *)
(* between any two.  A pass dates its leases from its own start, so that a *)
(* lease may lapse at any time; retries are delayed by the backoff only.   *)
(***************************************************************************)
EXTENDS Integers, Sequences

CONSTANTS
    Issuers,       \* drainers of the receipts
    Crediters,     \* drainers of the refunds
    Amount,        \* what was paid
    Refundable,    \* the amounts an operator or Stripe may give back
    MaxInvoices, MaxCredits, MaxRefunds, MaxFaults, MaxOperator   \* bounds

ASSUME BillingAssumption ==
    /\ Amount \in Nat \ {0} /\ Refundable \subseteq 1 .. Amount
    /\ MaxInvoices \in Nat /\ MaxCredits \in Nat /\ MaxRefunds \in Nat
    /\ MaxFaults \in Nat /\ MaxOperator \in Nat

VARIABLES
    receipt,     \* the row of receipts: status, invoice_ref (0 for none), lease
    refund,      \* the row of refunds; n numbers the rows, 0 before the first
    invoices,    \* the billing system's invoices
    credits,     \* and its credit notes
    issuer,      \* the receipt drainers
    crediter,    \* the refund drainers
    reversed,    \* how often each refund took the paid period back
    stale,       \* a claim was won on a changed row, or a lease lapsed under its holder
    early,       \* a refund was claimed before its payment's receipt was issued
    faults, asked

rows == <<receipt, refund>>
books == <<invoices, credits>>
vars == <<receipt, refund, invoices, credits, issuer, crediter, reversed, stale, early, faults, asked>>

Ids == 1 .. MaxInvoices
Notes == 1 .. MaxCredits
Refunds == 1 .. MaxRefunds

NoInvoice == [state |-> "none", pays |-> <<>>, owed |-> 0, back |-> 0]
NoCredit == [state |-> "none", left |-> 0]
Unissued == [pc |-> "idle", ref |-> 0]
Uncredited == [pc |-> "idle", n |-> 0, amount |-> Amount, credit |-> 0, ref |-> 0,
               owed |-> 0, left |-> 0, pays |-> <<>>]

\* Recorded by the webhook for a payment that bought a period; its address,
\* country, currency and amount allow a document, or they do not.
Init ==
    /\ \E ok \in BOOLEAN :
          receipt = [status |-> "pending", ref |-> 0, leased |-> FALSE, ok |-> ok]
    /\ refund = [n |-> 0, status |-> "none", amount |-> Amount, credit |-> 0, leased |-> FALSE]
    /\ invoices = [i \in Ids |-> NoInvoice]
    /\ credits = [c \in Notes |-> NoCredit]
    /\ issuer = [d \in Issuers |-> Unissued]
    /\ crediter = [e \in Crediters |-> Uncredited]
    /\ reversed = [n \in Refunds |-> 0]
    /\ stale = FALSE /\ early = FALSE
    /\ faults = 0 /\ asked = 0

Fault == faults < MaxFaults /\ faults' = faults + 1

Issuing == \E d \in Issuers : issuer[d].pc \notin {"idle", "claim"}
Crediting == \E e \in Crediters : crediter[e].pc \notin {"idle", "claim"}
-----------------------------------------------------------------------------
(* The billing system.  A number is drawn when a document is sent. *)

Refunded(i) == invoices[i].back

Balance(i) == IF invoices[i].state = "sent" THEN invoices[i].owed ELSE 0

\* An invoice after a request: pays holds what was given back of each payment,
\* back what was given back of all of them.
Sent(v) == IF v.state = "draft" THEN [v EXCEPT !.state = "sent", !.owed = Amount] ELSE v
Paid(v) == [v EXCEPT !.pays = Append(v.pays, 0), !.owed = v.owed - Amount]
GivenBack(v, p, a) ==
    [v EXCEPT !.pays = [v.pays EXCEPT ![p] = v.pays[p] + a], !.owed = v.owed + a, !.back = v.back + a]
Credited(v, a) == [v EXCEPT !.owed = v.owed - a]

CreditLeft(c) == IF credits[c].state = "sent" THEN credits[c].left ELSE 0

AfterInvoice_Unbalanced(state, balance) == IF state = "draft" THEN "send" ELSE "pay"

\* The next step of IssueReceipt, from the invoice as it was answered.
AfterInvoice(state, balance) ==
    IF state = "draft" THEN "send" ELSE IF balance > 0 THEN "pay" ELSE "mark"

NewInvoice(i) == invoices[i].state = "none" /\ \A j \in Ids : j < i => invoices[j].state # "none"
NewCredit(c) == credits[c].state = "none" /\ \A k \in Notes : k < c => credits[k].state # "none"

\* A person deletes a document in the billing system.
DeleteInvoice(i) ==
    /\ invoices[i].state \in {"draft", "sent"} /\ Fault
    /\ invoices' = [invoices EXCEPT ![i].state = "deleted"]
    /\ UNCHANGED <<rows, credits, issuer, crediter, reversed, stale, early, asked>>

DeleteCredit(c) ==
    /\ credits[c].state \in {"draft", "sent"} /\ Fault
    /\ credits' = [credits EXCEPT ![c].state = "deleted"]
    /\ UNCHANGED <<rows, invoices, issuer, crediter, reversed, stale, early, asked>>
-----------------------------------------------------------------------------
(* ReceiptJob.Once and issue, with Client.IssueReceipt. *)

IssuerAt(d, pc) == issuer' = [issuer EXCEPT ![d].pc = pc]

ListDueReceipts(d) ==
    /\ issuer[d].pc = "idle" /\ receipt.status = "pending" /\ ~receipt.leased
    /\ issuer' = [issuer EXCEPT ![d] = [pc |-> "claim", ref |-> receipt.ref]]
    /\ UNCHANGED <<rows, books, crediter, reversed, stale, early, faults, asked>>

\* Where issue begins: without an address or a country it parks the receipt.
Issue(d) == IF ~receipt.ok THEN "block" ELSE IF issuer[d].ref # 0 THEN "get" ELSE "create"

\* The claim looks at the lease alone; the drainer goes on with the row it
\* listed.
ClaimReceipt(d) ==
    /\ issuer[d].pc = "claim"
    /\ \/ /\ ~receipt.leased /\ IssuerAt(d, Issue(d))
          /\ receipt' = [receipt EXCEPT !.leased = TRUE]
          /\ stale' = (stale \/ receipt.status # "pending" \/ receipt.ref # issuer[d].ref)
          /\ UNCHANGED faults
       \/ receipt.leased /\ IssuerAt(d, "idle") /\ UNCHANGED <<receipt, stale, faults>>
       \/ /\ Fault /\ IssuerAt(d, "idle") /\ UNCHANGED stale
          /\ receipt' \in {receipt, [receipt EXCEPT !.leased = TRUE]}
    /\ UNCHANGED <<refund, books, crediter, reversed, early, asked>>

GetInvoice_Gone(d) ==
    LET i == issuer[d].ref
        next == IF invoices[i].state = "deleted" THEN "release"
                ELSE AfterInvoice(invoices[i].state, Balance(i))
    IN /\ issuer[d].pc = "get"
       /\ \/ IssuerAt(d, next) /\ UNCHANGED faults
          \/ Fault /\ \E pc \in {"release", "block"} : IssuerAt(d, pc)
       /\ UNCHANGED <<rows, books, crediter, reversed, stale, early, asked>>

\* resumeOrCreate with an invoice id: a deleted invoice is replaced.
GetInvoice(d) ==
    LET i == issuer[d].ref
        next == IF invoices[i].state = "deleted" THEN "create"
                ELSE AfterInvoice(invoices[i].state, Balance(i))
    IN /\ issuer[d].pc = "get"
       /\ \/ IssuerAt(d, next) /\ UNCHANGED faults
          \/ Fault /\ \E pc \in {"release", "block"} : IssuerAt(d, pc)
       /\ UNCHANGED <<rows, books, crediter, reversed, stale, early, asked>>

\* ensureCustomer and the new draft.  An answer in the 400s parks the receipt.
CreateInvoice(d) ==
    /\ issuer[d].pc = "create"
    /\ \E i \in Ids :
          /\ NewInvoice(i)
          /\ \/ /\ invoices' = [invoices EXCEPT ![i].state = "draft"]
                /\ \/ issuer' = [issuer EXCEPT ![d] = [pc |-> "ref", ref |-> i]] /\ UNCHANGED faults
                   \/ Fault /\ IssuerAt(d, "release")
             \/ Fault /\ UNCHANGED invoices /\ \E pc \in {"release", "block"} : IssuerAt(d, pc)
    /\ UNCHANGED <<rows, credits, crediter, reversed, stale, early, asked>>

SetReceiptInvoice_Later(d) ==
    /\ issuer[d].pc = "ref" /\ IssuerAt(d, "send")
    /\ UNCHANGED <<rows, books, crediter, reversed, stale, early, faults, asked>>

\* OnInvoiceCreated: the id is written before the invoice is sent.
SetReceiptInvoice(d) ==
    LET row == [receipt EXCEPT !.ref = issuer[d].ref]
    IN /\ issuer[d].pc = "ref"
       /\ \/ receipt' = row /\ IssuerAt(d, "send") /\ UNCHANGED faults
          \/ receipt' \in {receipt, row} /\ Fault /\ IssuerAt(d, "release")
       /\ UNCHANGED <<refund, books, crediter, reversed, stale, early, asked>>

\* A request to the billing system about invoice i: it is answered, it takes
\* effect and the answer is lost, or it is refused, for good or for now.
Ask(d, after, next) ==
    \/ invoices' = after /\ IssuerAt(d, next) /\ UNCHANGED faults
    \/ invoices' = after /\ Fault /\ IssuerAt(d, "release")
    \/ UNCHANGED invoices /\ Fault /\ \E pc \in {"release", "block"} : IssuerAt(d, pc)

\* A deleted invoice is answered with an error in the 400s or an empty list.
MarkSent(d) ==
    LET i == issuer[d].ref
    IN /\ issuer[d].pc = "send"
       /\ IF invoices[i].state = "deleted"
          THEN (\E pc \in {"release", "block"} : IssuerAt(d, pc)) /\ UNCHANGED <<invoices, faults>>
          ELSE Ask(d, [invoices EXCEPT ![i] = Sent(invoices[i])],
                   IF invoices[i].state = "draft" \/ Balance(i) > 0 THEN "pay" ELSE "mark")
       /\ UNCHANGED <<rows, credits, crediter, reversed, stale, early, asked>>

RecordPayment(d) ==
    LET i == issuer[d].ref
    IN /\ issuer[d].pc = "pay"
       /\ IF invoices[i].state = "deleted"
          THEN IssuerAt(d, "block") /\ UNCHANGED <<invoices, faults>>
          ELSE Ask(d, [invoices EXCEPT ![i] = Paid(invoices[i])], "mark")
       /\ UNCHANGED <<rows, credits, crediter, reversed, stale, early, asked>>

MarkReceiptIssued(d) ==
    LET row == [receipt EXCEPT !.status = "issued", !.ref = issuer[d].ref]
    IN /\ issuer[d].pc = "mark" /\ IssuerAt(d, "release")
       /\ \/ receipt' = row /\ UNCHANGED faults
          \/ receipt' \in {receipt, row} /\ Fault
       /\ UNCHANGED <<refund, books, crediter, reversed, stale, early, asked>>

Parked_Always(row) == [row EXCEPT !.status = "blocked"]

\* BlockReceipt: never an issued one.
Parked(row) == IF row.status = "issued" THEN row ELSE [row EXCEPT !.status = "blocked"]

BlockReceipt(d) ==
    /\ issuer[d].pc = "block" /\ IssuerAt(d, "release")
    /\ \/ receipt' = Parked(receipt) /\ UNCHANGED faults
       \/ receipt' \in {receipt, Parked(receipt)} /\ Fault
    /\ UNCHANGED <<refund, books, crediter, reversed, stale, early, asked>>

ReleaseReceipt(d) ==
    /\ issuer[d].pc = "release"
    /\ issuer' = [issuer EXCEPT ![d] = Unissued]
    /\ \/ receipt' = [receipt EXCEPT !.leased = FALSE] /\ UNCHANGED faults
       \/ receipt' \in {receipt, [receipt EXCEPT !.leased = FALSE]} /\ Fault
    /\ UNCHANGED <<refund, books, crediter, reversed, stale, early, asked>>

\* The replica stops, or loses the lease of the singletons.
StopIssuer(d) ==
    /\ issuer[d].pc # "idle" /\ Fault
    /\ issuer' = [issuer EXCEPT ![d] = Unissued]
    /\ UNCHANGED <<rows, books, crediter, reversed, stale, early, asked>>

ReceiptLeaseLapses ==
    /\ receipt.leased /\ receipt' = [receipt EXCEPT !.leased = FALSE]
    /\ stale' = (stale \/ Issuing)
    /\ UNCHANGED <<refund, books, issuer, crediter, reversed, early, faults, asked>>
-----------------------------------------------------------------------------
(* Job.Once and issue of the refunds, with Client.IssueCreditNote. *)

CrediterAt(e, pc) == crediter' = [crediter EXCEPT ![e].pc = pc]

ListDueRefunds(e) ==
    /\ crediter[e].pc = "idle" /\ refund.status = "pending" /\ ~refund.leased
    /\ crediter' = [crediter EXCEPT ![e] =
          [Uncredited EXCEPT !.pc = "claim", !.n = refund.n, !.amount = refund.amount,
                             !.credit = refund.credit]]
    /\ UNCHANGED <<rows, books, issuer, reversed, stale, early, faults, asked>>

\* The row the drainer listed; it may have been deleted, and another recorded.
Same(e) == refund.status # "none" /\ refund.n = crediter[e].n

ClaimRefund(e) ==
    /\ crediter[e].pc = "claim"
    /\ \/ /\ Same(e) /\ ~refund.leased /\ CrediterAt(e, "receipt")
          /\ refund' = [refund EXCEPT !.leased = TRUE]
          /\ stale' = (stale \/ refund.status # "pending" \/ refund.credit # crediter[e].credit)
          /\ early' = (early \/ receipt.status # "issued")
          /\ UNCHANGED faults
       \/ /\ ~Same(e) \/ refund.leased
          /\ CrediterAt(e, "idle") /\ UNCHANGED <<refund, stale, early, faults>>
       \/ /\ Fault /\ CrediterAt(e, "idle") /\ UNCHANGED <<stale, early>>
          /\ refund' \in {refund, IF Same(e) THEN [refund EXCEPT !.leased = TRUE] ELSE refund}
    /\ UNCHANGED <<receipt, books, issuer, reversed, asked>>

\* A write to the refund's row: a deleted one is not there any more.
WriteRefund(e, row) == refund' = IF Same(e) THEN row ELSE refund

GetReceipt(e) ==
    /\ crediter[e].pc = "receipt"
    /\ \/ /\ crediter' = [crediter EXCEPT ![e].ref = receipt.ref,
                              ![e].pc = IF receipt.ref = 0 THEN "reread" ELSE "invoice"]
          /\ UNCHANGED faults
       \/ Fault /\ CrediterAt(e, "release")
    /\ UNCHANGED <<rows, books, issuer, reversed, stale, early, asked>>

\* closeWithoutDocument reads the receipt again before it decides.
Reread(e) ==
    /\ crediter[e].pc = "reread"
    /\ \/ /\ CrediterAt(e, IF receipt.ref # 0 THEN "release"
                           ELSE IF receipt.status # "blocked" THEN "park" ELSE "close")
          /\ UNCHANGED faults
       \/ Fault /\ CrediterAt(e, "release")
    /\ UNCHANGED <<rows, books, issuer, reversed, stale, early, asked>>

ParkReceipt(e) ==
    /\ crediter[e].pc = "park"
    /\ \/ receipt' = Parked(receipt) /\ CrediterAt(e, "close") /\ UNCHANGED faults
       \/ receipt' \in {receipt, Parked(receipt)} /\ Fault /\ CrediterAt(e, "release")
    /\ UNCHANGED <<refund, books, issuer, reversed, stale, early, asked>>

\* invoiceWithPayments, before the credit note and again after the refund of
\* the payment ("reget").
InvoiceWithPayments(e) ==
    LET i == crediter[e].ref
        next == IF invoices[i].state = "deleted" THEN "block"
                ELSE IF crediter[e].pc = "reget" THEN "apply"
                ELSE IF crediter[e].credit # 0 THEN "getcredit" ELSE "newcredit"
    IN /\ crediter[e].pc \in {"invoice", "reget"}
       /\ \/ /\ crediter' = [crediter EXCEPT ![e].pc = next, ![e].owed = Balance(i),
                                             ![e].pays = invoices[i].pays]
             /\ UNCHANGED faults
          \/ Fault /\ \E pc \in {"release", "block"} : CrediterAt(e, pc)
       /\ UNCHANGED <<rows, books, issuer, reversed, stale, early, asked>>

\* resumeOrCreateCredit with the id of a credit note: a deleted one is replaced.
GetCredit(e) ==
    LET c == crediter[e].credit
        next == IF credits[c].state = "deleted" THEN "newcredit"
                ELSE IF credits[c].state = "draft" THEN "sendcredit" ELSE "refund"
    IN /\ crediter[e].pc = "getcredit"
       /\ \/ /\ crediter' = [crediter EXCEPT ![e].left = CreditLeft(c), ![e].pc = next]
             /\ UNCHANGED faults
          \/ Fault /\ \E pc \in {"release", "block"} : CrediterAt(e, pc)
       /\ UNCHANGED <<rows, books, issuer, reversed, stale, early, asked>>

CreateCredit(e) ==
    /\ crediter[e].pc = "newcredit"
    /\ \E c \in Notes :
          /\ NewCredit(c)
          /\ \/ /\ credits' = [credits EXCEPT ![c] = [state |-> "draft", left |-> crediter[e].amount]]
                /\ \/ crediter' = [crediter EXCEPT ![e].pc = "setcredit", ![e].credit = c]
                      /\ UNCHANGED faults
                   \/ Fault /\ CrediterAt(e, "release")
             \/ Fault /\ UNCHANGED credits /\ \E pc \in {"release", "block"} : CrediterAt(e, pc)
    /\ UNCHANGED <<rows, invoices, issuer, reversed, stale, early, asked>>

SetRefundCredit(e) ==
    LET row == [refund EXCEPT !.credit = crediter[e].credit]
    IN /\ crediter[e].pc = "setcredit"
       /\ \/ WriteRefund(e, row) /\ CrediterAt(e, "sendcredit") /\ UNCHANGED faults
          \/ (WriteRefund(e, row) \/ UNCHANGED refund) /\ Fault /\ CrediterAt(e, "release")
       /\ UNCHANGED <<receipt, books, issuer, reversed, stale, early, asked>>

MarkCreditSent(e) ==
    LET c == crediter[e].credit
        after == [credits EXCEPT ![c].state = "sent"]
        there == credits[c].state # "deleted"
    IN /\ crediter[e].pc = "sendcredit"
       /\ \/ /\ there /\ credits' = after /\ UNCHANGED faults
             /\ crediter' = [crediter EXCEPT ![e].pc = "refund", ![e].left = credits[c].left]
          \/ there /\ credits' = after /\ Fault /\ CrediterAt(e, "release")
          \/ ~there /\ UNCHANGED <<credits, faults>> /\ \E pc \in {"release", "block"} : CrediterAt(e, pc)
          \/ UNCHANGED credits /\ Fault /\ \E pc \in {"release", "block"} : CrediterAt(e, pc)
       /\ UNCHANGED <<rows, invoices, issuer, reversed, stale, early, asked>>

Least(S) == CHOOSE x \in S : \A y \in S : x <= y

\* refundablePayment: the first payment with enough left, as the invoice was
\* last read; 0 for none.
Payable(pays, amount) ==
    LET enough == {p \in DOMAIN pays : Amount - pays[p] >= amount}
    IN IF enough = {} THEN 0 ELSE Least(enough)

AskBooks(e, possible, inv, crd, next) ==
    \/ possible /\ invoices' = inv /\ credits' = crd /\ CrediterAt(e, next) /\ UNCHANGED faults
    \/ possible /\ invoices' = inv /\ credits' = crd /\ Fault /\ CrediterAt(e, "release")
    \/ ~possible /\ UNCHANGED <<books, faults>> /\ CrediterAt(e, "block")
    \/ UNCHANGED books /\ Fault /\ \E pc \in {"release", "block"} : CrediterAt(e, pc)

RefundPayment_NoReread(e) ==
    LET i == crediter[e].ref
        a == crediter[e].amount
        p == Payable(crediter[e].pays, a)
    IN /\ crediter[e].pc = "refund"
       /\ IF p = 0 THEN CrediterAt(e, "apply") /\ UNCHANGED <<books, faults>>
          ELSE AskBooks(e, invoices[i].state = "sent" /\ Amount - invoices[i].pays[p] >= a,
                        [invoices EXCEPT ![i] = GivenBack(invoices[i], p, a)], credits, "apply")
       /\ UNCHANGED <<rows, issuer, reversed, stale, early, asked>>

\* The billing system refuses to give back more than a payment has left.
RefundPayment(e) ==
    LET i == crediter[e].ref
        a == crediter[e].amount
        p == Payable(crediter[e].pays, a)
    IN /\ crediter[e].pc = "refund"
       /\ IF p = 0 THEN CrediterAt(e, "apply") /\ UNCHANGED <<books, faults>>
          ELSE AskBooks(e, invoices[i].state = "sent" /\ Amount - invoices[i].pays[p] >= a,
                        [invoices EXCEPT ![i] = GivenBack(invoices[i], p, a)], credits, "reget")
       /\ UNCHANGED <<rows, issuer, reversed, stale, early, asked>>

\* applyCredit takes the smallest of the refund, the balance and the credit.
ApplyCredit(e) ==
    LET i == crediter[e].ref
        c == crediter[e].credit
        a == Least({crediter[e].amount, crediter[e].owed, crediter[e].left})
    IN /\ crediter[e].pc = "apply"
       /\ IF a <= 0 THEN CrediterAt(e, "mark") /\ UNCHANGED <<books, faults>>
          ELSE AskBooks(e, a <= Balance(i) /\ a <= CreditLeft(c),
                        [invoices EXCEPT ![i] = Credited(invoices[i], a)],
                        [credits EXCEPT ![c].left = @ - a], "mark")
       /\ UNCHANGED <<rows, issuer, reversed, stale, early, asked>>

MarkRefundIssued_Regardless(e) ==
    LET row == [refund EXCEPT !.status = "issued",
                    !.credit = IF crediter[e].pc = "mark" THEN crediter[e].credit ELSE 0]
    IN /\ crediter[e].pc \in {"mark", "close"} /\ CrediterAt(e, "plan")
       /\ \/ WriteRefund(e, row) /\ UNCHANGED faults
          \/ (WriteRefund(e, row) \/ UNCHANGED refund) /\ Fault
       /\ UNCHANGED <<receipt, books, issuer, reversed, stale, early, asked>>

\* MarkRefundIssued, with the credit note or ("close") without one.  The
\* period is taken back only once this is written.
MarkRefundIssued(e) ==
    LET row == [refund EXCEPT !.status = "issued",
                    !.credit = IF crediter[e].pc = "mark" THEN crediter[e].credit ELSE 0]
    IN /\ crediter[e].pc \in {"mark", "close"}
       /\ \/ WriteRefund(e, row) /\ CrediterAt(e, "plan") /\ UNCHANGED faults
          \/ (WriteRefund(e, row) \/ UNCHANGED refund) /\ Fault /\ CrediterAt(e, "release")
       /\ UNCHANGED <<receipt, books, issuer, reversed, stale, early, asked>>

\* reversePlan: a full refund takes the period back; an error is only logged.
ReversePlan(e) ==
    LET taken == [reversed EXCEPT ![crediter[e].n] = @ + 1]
    IN /\ crediter[e].pc = "plan" /\ CrediterAt(e, "release")
       /\ \/ reversed' = (IF crediter[e].amount < Amount THEN reversed ELSE taken) /\ UNCHANGED faults
          \/ crediter[e].amount = Amount /\ reversed' \in {reversed, taken} /\ Fault
       /\ UNCHANGED <<rows, books, issuer, stale, early, asked>>

BlockRefund(e) ==
    LET row == [refund EXCEPT !.status = "blocked"]
    IN /\ crediter[e].pc = "block" /\ CrediterAt(e, "release")
       /\ \/ WriteRefund(e, row) /\ UNCHANGED faults
          \/ (WriteRefund(e, row) \/ UNCHANGED refund) /\ Fault
       /\ UNCHANGED <<receipt, books, issuer, reversed, stale, early, asked>>

ReleaseRefund(e) ==
    LET row == [refund EXCEPT !.leased = FALSE]
    IN /\ crediter[e].pc = "release"
       /\ crediter' = [crediter EXCEPT ![e] = Uncredited]
       /\ \/ WriteRefund(e, row) /\ UNCHANGED faults
          \/ (WriteRefund(e, row) \/ UNCHANGED refund) /\ Fault
       /\ UNCHANGED <<receipt, books, issuer, reversed, stale, early, asked>>

StopCrediter(e) ==
    /\ crediter[e].pc # "idle" /\ Fault
    /\ crediter' = [crediter EXCEPT ![e] = Uncredited]
    /\ UNCHANGED <<rows, books, issuer, reversed, stale, early, asked>>

RefundLeaseLapses ==
    /\ refund.leased /\ refund' = [refund EXCEPT !.leased = FALSE]
    /\ stale' = (stale \/ Crediting)
    /\ UNCHANGED <<receipt, books, issuer, crediter, reversed, early, faults, asked>>
-----------------------------------------------------------------------------
(* The operator, and Stripe for a refund made in its dashboard. *)

Request == asked < MaxOperator /\ asked' = asked + 1

\* One refund per payment.
RecordRefund(a) ==
    /\ refund.status = "none" /\ refund.n < MaxRefunds
    /\ refund' = [n |-> refund.n + 1, status |-> "pending", amount |-> a, credit |-> 0, leased |-> FALSE]
    /\ UNCHANGED <<receipt, books, issuer, crediter, reversed, stale, early, faults, asked>>

\* Only while it has produced no document.
DeleteRefund ==
    /\ refund.status \in {"pending", "blocked"} /\ refund.credit = 0 /\ Request
    /\ refund' = [refund EXCEPT !.status = "none", !.leased = FALSE]
    /\ stale' = (stale \/ Crediting)
    /\ UNCHANGED <<receipt, books, issuer, crediter, reversed, early, faults>>

RequeueReceipt ==
    /\ receipt.status = "blocked" /\ Request
    /\ receipt' = [receipt EXCEPT !.status = "pending"]
    /\ UNCHANGED <<refund, books, issuer, crediter, reversed, stale, early, faults>>

RequeueRefund ==
    /\ refund.status = "blocked" /\ Request
    /\ refund' = [refund EXCEPT !.status = "pending"]
    /\ UNCHANGED <<receipt, books, issuer, crediter, reversed, stale, early, faults>>
-----------------------------------------------------------------------------
IssuerStep(d) ==
    \/ ListDueReceipts(d) \/ ClaimReceipt(d) \/ GetInvoice(d) \/ CreateInvoice(d)
    \/ SetReceiptInvoice(d) \/ MarkSent(d) \/ RecordPayment(d) \/ MarkReceiptIssued(d)
    \/ BlockReceipt(d) \/ ReleaseReceipt(d)

CrediterStep(e) ==
    \/ ListDueRefunds(e) \/ ClaimRefund(e) \/ GetReceipt(e) \/ Reread(e) \/ ParkReceipt(e)
    \/ InvoiceWithPayments(e) \/ GetCredit(e) \/ CreateCredit(e) \/ SetRefundCredit(e)
    \/ MarkCreditSent(e) \/ RefundPayment(e) \/ ApplyCredit(e) \/ MarkRefundIssued(e)
    \/ ReversePlan(e) \/ BlockRefund(e) \/ ReleaseRefund(e)

Next ==
    \/ \E d \in Issuers : IssuerStep(d) \/ StopIssuer(d)
    \/ \E e \in Crediters : CrediterStep(e) \/ StopCrediter(e)
    \/ \E i \in Ids : DeleteInvoice(i)
    \/ \E c \in Notes : DeleteCredit(c)
    \/ \E a \in Refundable : RecordRefund(a)
    \/ DeleteRefund \/ RequeueReceipt \/ RequeueRefund
    \/ ReceiptLeaseLapses \/ RefundLeaseLapses

Spec == Init /\ [][Next]_vars

FairSpec ==
    /\ Spec
    /\ \A d \in Issuers : WF_vars(IssuerStep(d))
    /\ \A e \in Crediters : WF_vars(CrediterStep(e))
    /\ WF_vars(ReceiptLeaseLapses) /\ WF_vars(RefundLeaseLapses)
-----------------------------------------------------------------------------
\* A document that has taken a number out of the gapless series (an invoice or
\* a credit note that was sent) is the one its row names, so that a retry can
\* resume on it: the id is written before the document is sent
\* (OnInvoiceCreated, OnCreditCreated), and the lease keeps a second drainer
\* out.  Nothing is promised once a lease has lapsed under its holder or a
\* claim was won on a row that had changed since it was listed.
NumberedIsKnown ==
    ~stale => /\ \A i \in Ids : invoices[i].state = "sent" => receipt.ref = i
              /\ \A c \in Notes : credits[c].state = "sent" => refund.credit = c

Settled(i) == invoices[i].state = "sent" /\ (invoices[i].pays # <<>> \/ invoices[i].owed = 0)

\* A receipt that says it was issued names an invoice that was numbered and
\* settled (a person may have deleted it since), and however often issuing was
\* retried the payment is recorded once: IssueReceipt resumes from the state
\* and the balance the billing system answers.  A refund that was claimed
\* before the receipt was issued reopens the balance and is excepted.
PaidOnce ==
    /\ (~stale /\ receipt.status = "issued") =>
           receipt.ref # 0 /\ (invoices[receipt.ref].state = "deleted" \/ Settled(receipt.ref))
    /\ (~stale /\ ~early) => \A i \in Ids : Len(invoices[i].pays) <= 1

\* Once the credit note of a refund is recorded, the invoice it credits owes
\* nothing, whichever of the steps of IssueCreditNote were repeated, provided
\* the money was taken out once.
BooksBalance ==
    (~stale /\ ~early /\ refund.status = "issued" /\ refund.credit # 0) =>
        \A i \in Ids : (receipt.ref = i /\ Refunded(i) <= refund.amount) => Balance(i) = 0

\* "a retry after a later step failed does not refund twice": no refund, of
\* whatever amount, takes more out of the payment than the customer got back.
RefundsOnce ==
    (~stale /\ ~early) => \A i \in Ids : Refunded(i) <= refund.amount

\* A full refund takes the paid period back at most once, although that step
\* is not idempotent: it follows the record that ends the retries.
PeriodTakenOnce == ~stale => \A n \in Refunds : reversed[n] <= 1

\* An issued receipt is issued for good: neither the drainer that parks a
\* receipt nor the refund that cancels one takes it back.
IssuedStays == [][receipt.status = "issued" => receipt'.status = "issued"]_vars

\* A payment waiting for its document, and a refund waiting for its own, are
\* decided: issued, parked for a person, or (a refund) withdrawn.
Decided ==
    /\ receipt.status = "pending" ~> receipt.status # "pending"
    /\ refund.status = "pending" ~> refund.status # "pending"
=============================================================================
