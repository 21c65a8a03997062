--------------------------- MODULE BillingProofs ---------------------------
(***************************************************************************)
(* For any number of drainers, any amounts and any failures: a number is   *)
(* drawn only for the document its row names, a payment is recorded once,  *)
(* the paid period is taken back at most once, and an issued receipt stays *)
(* issued.                                                                 *)
(*                                                                         *)
(* While no lease has lapsed under its holder and no claim was won on an   *)
(* old row (~stale), the drainer that works on a row is alone (its lease   *)
(* is the row's), so what it knows of the row stays true between its       *)
(* steps.  That is the first invariant, with one part for each row.  The   *)
(* second is about the payment: what an issuer will do next fits what the  *)
(* invoice says, although requests are lost after they took effect.        *)
(***************************************************************************)
EXTENDS Billing, TLAPS

Working(d) == issuer[d].pc \notin {"idle", "claim"}

NoneSent == \A i \in Ids : invoices[i].state # "sent"

\* What an issuer relies on between its steps.
Knows(d) ==
    /\ issuer[d].pc \in {"get", "send", "pay", "mark"} => issuer[d].ref = receipt.ref
    /\ issuer[d].pc \in {"create", "ref"} => NoneSent
    /\ issuer[d].pc = "ref" => issuer[d].ref # 0

SentIsNamed == \A i \in Ids : invoices[i].state = "sent" => receipt.ref = i

ReceiptOk ==
    /\ \A d \in Issuers : Working(d) => receipt.leased
    /\ \A d, f \in Issuers : Working(d) /\ Working(f) => d = f
    /\ \A d \in Issuers : Knows(d)
    /\ SentIsNamed
-----------------------------------------------------------------------------
Busy(e) == crediter[e].pc \notin {"idle", "claim"}

NoneCredited == \A c \in Notes : credits[c].state # "sent"

NotReversed == \A n \in Refunds : n = refund.n => reversed[n] = 0

\* What a crediter relies on between its steps.
Relies(e) ==
    /\ crediter[e].pc \in {"receipt", "invoice", "getcredit", "sendcredit", "refund", "reget", "apply", "mark"}
          => crediter[e].credit = refund.credit
    /\ crediter[e].pc \in {"newcredit", "setcredit"} => NoneCredited
    /\ crediter[e].pc \in {"invoice", "getcredit", "newcredit", "setcredit", "sendcredit", "refund", "reget",
                           "apply", "mark"} => receipt.ref # 0
    /\ crediter[e].pc \in {"reread", "park", "close"} => refund.credit = 0
    /\ crediter[e].pc = "plan" => refund.status = "issued"
    /\ crediter[e].pc # "release" => NotReversed

CreditIsNamed == \A c \in Notes : credits[c].state = "sent" => refund.credit = c

RowOk ==
    /\ refund.status = "none" => refund.credit = 0
    /\ refund.credit # 0 => receipt.ref # 0
    /\ \A n \in Refunds : reversed[n] <= 1 /\ (n > refund.n => reversed[n] = 0)
    /\ refund.status # "issued" => NotReversed

RefundOk ==
    /\ \A e \in Crediters : Busy(e) => refund.leased /\ Same(e)
    /\ \A e, f \in Crediters : Busy(e) /\ Busy(f) => e = f
    /\ \A e \in Crediters : Busy(e) => Relies(e)
    /\ CreditIsNamed
    /\ RowOk

\* The fields the records have.
Shape ==
    /\ DOMAIN receipt = {"status", "ref", "leased", "ok"}
    /\ DOMAIN issuer = Issuers /\ \A d \in Issuers : DOMAIN issuer[d] = {"pc", "ref"}
    /\ DOMAIN invoices = Ids /\ \A i \in Ids : DOMAIN invoices[i] = {"state", "pays", "owed", "back"}
    /\ DOMAIN refund = {"n", "status", "amount", "credit", "leased"} /\ refund.n \in Nat
    /\ DOMAIN crediter = Crediters
    /\ \A e \in Crediters : DOMAIN crediter[e] = {"pc", "n", "amount", "credit", "ref", "owed", "left", "pays"}
    /\ DOMAIN credits = Notes /\ \A c \in Notes : DOMAIN credits[c] = {"state", "left"}
    /\ reversed \in [Refunds -> Nat]

Sound == ~stale => ReceiptOk /\ RefundOk

IInv == Shape /\ Sound
-----------------------------------------------------------------------------
(* What the rows' invariants need of a step. *)

\* Nothing the issuers know of is disturbed.
ReceiptCalm ==
    /\ receipt'.ref = receipt.ref /\ (receipt.leased => receipt'.leased)
    /\ \A i \in Ids : invoices'[i].state = "sent" => invoices[i].state = "sent"

RefundCalm ==
    /\ refund' = refund /\ reversed' = reversed /\ (receipt.ref # 0 => receipt'.ref # 0)
    /\ \A c \in Notes : credits'[c].state = "sent" => credits[c].state = "sent"

\* Working drainers see nothing new, and none begins to work.
LEMMA ReceiptStill ==
  ASSUME ReceiptOk, ReceiptCalm, \A f \in Issuers : issuer'[f] = issuer[f] \/ ~Working(f)'
  PROVE  ReceiptOk'
BY DEF ReceiptOk, ReceiptCalm, Working, Knows, NoneSent, SentIsNamed

\* The one working drainer takes a step.
LEMMA ReceiptMove ==
  ASSUME ReceiptOk, NEW d \in Issuers,
         \A f \in Issuers : f # d => issuer'[f] = issuer[f] /\ ~Working(f),
         Working(d)' => receipt'.leased, Knows(d)', SentIsNamed'
  PROVE  ReceiptOk'
<1>1. \A f \in Issuers : f # d => ~Working(f)' /\ Knows(f)'
  BY DEF Working, Knows
<1> QED BY <1>1 DEF ReceiptOk

LEMMA ReceiptAlone ==
  ASSUME ReceiptOk, NEW d \in Issuers, Working(d) \/ ~receipt.leased
  PROVE  \A f \in Issuers : f # d => ~Working(f)
BY DEF ReceiptOk

LEMMA RefundStill ==
  ASSUME RefundOk, RefundCalm, \A f \in Crediters : crediter'[f] = crediter[f] \/ ~Busy(f)'
  PROVE  RefundOk'
<1>1. CreditIsNamed' /\ RowOk'
  BY DEF RefundOk, RefundCalm, CreditIsNamed, RowOk, NotReversed
<1>2. ASSUME NEW e \in Crediters, Busy(e)' PROVE crediter'[e] = crediter[e] /\ Busy(e)
  BY <1>2 DEF Busy
<1>3. ASSUME NEW e \in Crediters, Busy(e)' PROVE refund'.leased /\ Same(e)'
  BY <1>2, <1>3 DEF RefundOk, RefundCalm, Same
<1>4. ASSUME NEW e \in Crediters, Busy(e)' PROVE Relies(e)'
  <2>1. crediter'[e] = crediter[e] /\ Relies(e) BY <1>2, <1>4 DEF RefundOk
  <2> QED BY <2>1 DEF RefundCalm, Relies, NoneCredited, NotReversed
<1>5. \A e, f \in Crediters : Busy(e)' /\ Busy(f)' => e = f
  BY <1>2 DEF RefundOk
<1> QED BY <1>1, <1>3, <1>4, <1>5 DEF RefundOk

LEMMA RefundMove ==
  ASSUME RefundOk, NEW e \in Crediters,
         \A f \in Crediters : f # e => crediter'[f] = crediter[f] /\ ~Busy(f),
         Busy(e)' => refund'.leased /\ Same(e)' /\ Relies(e)',
         CreditIsNamed', RowOk'
  PROVE  RefundOk'
<1>1. \A f \in Crediters : f # e => ~Busy(f)'
  BY DEF Busy
<1> QED BY <1>1 DEF RefundOk

LEMMA RefundAlone ==
  ASSUME RefundOk, NEW e \in Crediters, Busy(e) \/ ~refund.leased
  PROVE  \A f \in Crediters : f # e => ~Busy(f)
BY DEF RefundOk

\* The one busy crediter takes a step that leaves the row alone.
LEMMA RefundGoes ==
  ASSUME RefundOk, NEW e \in Crediters, Busy(e), RefundCalm,
         \A f \in Crediters : f # e => crediter'[f] = crediter[f],
         crediter'[e].n = crediter[e].n, Busy(e)' => Relies(e)'
  PROVE  RefundOk'
<1>1. \A f \in Crediters : f # e => crediter'[f] = crediter[f] /\ ~Busy(f)
  BY RefundAlone
<1>2. CreditIsNamed' /\ RowOk'
  BY DEF RefundOk, RefundCalm, CreditIsNamed, RowOk, NotReversed
<1>3. refund'.leased /\ Same(e)'
  BY DEF RefundOk, RefundCalm, Same
<1> QED BY <1>1, <1>2, <1>3, RefundMove
-----------------------------------------------------------------------------
(* The issuers. *)

LEMMA Positive == (\A i \in Ids : i # 0) /\ (\A c \in Notes : c # 0)
BY BillingAssumption DEF Ids, Notes

LEMMA IssuerAtOnly ==
  ASSUME Shape, NEW d \in Issuers, NEW pc, IssuerAt(d, pc)
  PROVE  /\ issuer'[d].pc = pc /\ issuer'[d].ref = issuer[d].ref
         /\ \A f \in Issuers : f # d => issuer'[f] = issuer[f]
BY DEF Shape, IssuerAt

\* The working issuer goes on, and the receipt's row says what it said.
LEMMA IssuerGoes ==
  ASSUME Shape, ReceiptOk, RefundOk, NEW d \in Issuers, Working(d), NEW pc, IssuerAt(d, pc),
         ReceiptCalm, UNCHANGED <<refund, credits, crediter, reversed>>, Knows(d)'
  PROVE  ReceiptOk' /\ RefundOk'
<1>1. \A f \in Issuers : f # d => issuer'[f] = issuer[f] /\ ~Working(f)
  BY IssuerAtOnly, ReceiptAlone
<1>2. receipt'.leased /\ SentIsNamed'
  BY DEF ReceiptOk, ReceiptCalm, SentIsNamed
<1>3. RefundCalm
  BY DEF ReceiptCalm, RefundCalm
<1> QED BY <1>1, <1>2, <1>3, ReceiptMove, RefundStill

LEMMA IssuerGivesUp ==
  ASSUME Shape, ReceiptOk, RefundOk, NEW d \in Issuers, Working(d), NEW pc \in {"release", "block"},
         IssuerAt(d, pc), ReceiptCalm, UNCHANGED <<refund, credits, crediter, reversed>>
  PROVE  ReceiptOk' /\ RefundOk'
<1>1. Knows(d)'
  BY IssuerAtOnly DEF Knows
<1> QED BY <1>1, IssuerGoes

LEMMA ListDueReceiptsKeeps ==
  ASSUME Shape, ReceiptOk, RefundOk, NEW d \in Issuers, ListDueReceipts(d)
  PROVE  ReceiptOk' /\ RefundOk'
<1>1. ReceiptCalm /\ RefundCalm /\ crediter' = crediter
  BY DEF ListDueReceipts, ReceiptCalm, RefundCalm, rows, books
<1>2. \A f \in Issuers : issuer'[f] = issuer[f] \/ ~Working(f)'
  BY DEF ListDueReceipts, Shape, Working
<1> QED BY <1>1, <1>2, ReceiptStill, RefundStill

LEMMA ClaimReceiptKeeps ==
  ASSUME Shape, ReceiptOk, RefundOk, NEW d \in Issuers, ClaimReceipt(d), ~stale'
  PROVE  ReceiptOk' /\ RefundOk'
<1>1. UNCHANGED <<refund, invoices, credits, crediter, reversed>>
  BY DEF ClaimReceipt, books
<1>2. receipt'.ref = receipt.ref /\ (receipt.leased => receipt'.leased)
  BY DEF ClaimReceipt, Shape
<1>3. ReceiptCalm /\ RefundCalm
  BY <1>1, <1>2 DEF ReceiptCalm, RefundCalm
<1>4. RefundOk'
  BY <1>1, <1>3, RefundStill
<1>5. CASE IssuerAt(d, "idle")
  <2>1. \A f \in Issuers : issuer'[f] = issuer[f] \/ ~Working(f)'
    BY <1>5, IssuerAtOnly DEF Working
  <2> QED BY <1>3, <1>4, <2>1, ReceiptStill
<1>6. CASE ~receipt.leased /\ IssuerAt(d, Issue(d)) /\ receipt' = [receipt EXCEPT !.leased = TRUE]
           /\ stale' = (stale \/ receipt.status # "pending" \/ receipt.ref # issuer[d].ref)
  <2>1. receipt.ref = issuer[d].ref
    BY <1>6, Zenon
  <2>2. \A f \in Issuers : f # d => issuer'[f] = issuer[f] /\ ~Working(f)
    BY <1>6, IssuerAtOnly, ReceiptAlone
  <2>3. issuer'[d].pc = Issue(d) /\ issuer'[d].ref = issuer[d].ref
    BY <1>6, IssuerAtOnly
  <2>4. receipt'.leased
    BY <1>6 DEF Shape
  <2>5. issuer[d].ref = 0 => NoneSent
    BY <2>1, Positive DEF ReceiptOk, SentIsNamed, NoneSent
  <2>6. Knows(d)'
    BY <1>1, <1>2, <2>1, <2>3, <2>5 DEF Issue, Knows, NoneSent
  <2>7. SentIsNamed'
    BY <1>1, <1>2 DEF ReceiptOk, SentIsNamed
  <2> QED BY <1>4, <2>2, <2>4, <2>6, <2>7, ReceiptMove
<1> QED BY <1>5, <1>6 DEF ClaimReceipt

LEMMA GetInvoiceKeeps ==
  ASSUME Shape, ReceiptOk, RefundOk, NEW d \in Issuers, GetInvoice(d)
  PROVE  ReceiptOk' /\ RefundOk'
<1>1. Working(d) /\ issuer[d].ref = receipt.ref
  BY DEF GetInvoice, Working, ReceiptOk, Knows
<1>2. UNCHANGED <<receipt, refund, invoices, credits, crediter, reversed>>
  BY DEF GetInvoice, rows, books
<1>3. ReceiptCalm
  BY <1>2 DEF ReceiptCalm
<1>4. ASSUME NEW pc \in {"release", "block"}, IssuerAt(d, pc) PROVE ReceiptOk' /\ RefundOk'
  BY <1>1, <1>2, <1>3, <1>4, IssuerGivesUp
<1>5. ASSUME NEW pc, IssuerAt(d, pc), pc \in {"send", "pay", "mark"} PROVE ReceiptOk' /\ RefundOk'
  <2>1. Knows(d)'
    BY <1>1, <1>2, <1>5, IssuerAtOnly DEF Knows
  <2> QED BY <1>1, <1>2, <1>3, <1>5, <2>1, IssuerGoes
<1>6. ASSUME IssuerAt(d, "create"), invoices[issuer[d].ref].state = "deleted" PROVE ReceiptOk' /\ RefundOk'
  <2>1. NoneSent
    BY <1>1, <1>6 DEF ReceiptOk, SentIsNamed, NoneSent
  <2>2. Knows(d)'
    BY <1>2, <1>6, <2>1, IssuerAtOnly DEF Knows, NoneSent
  <2> QED BY <1>1, <1>2, <1>3, <1>6, <2>2, IssuerGoes
<1> QED BY <1>4, <1>5, <1>6 DEF GetInvoice, AfterInvoice

LEMMA CreateInvoiceKeeps ==
  ASSUME Shape, ReceiptOk, RefundOk, NEW d \in Issuers, CreateInvoice(d)
  PROVE  ReceiptOk' /\ RefundOk'
<1>1. Working(d) /\ NoneSent
  BY DEF CreateInvoice, Working, ReceiptOk, Knows
<1>2. UNCHANGED <<receipt, refund, credits, crediter, reversed>>
  BY DEF CreateInvoice, rows
<1>3. PICK i \in Ids :
         \/ /\ invoices' = [invoices EXCEPT ![i].state = "draft"]
            /\ \/ issuer' = [issuer EXCEPT ![d] = [pc |-> "ref", ref |-> i]]
               \/ IssuerAt(d, "release")
         \/ invoices' = invoices /\ \E pc \in {"release", "block"} : IssuerAt(d, pc)
  BY DEF CreateInvoice
<1>4. NoneSent'
  BY <1>1, <1>3 DEF NoneSent, Shape
<1>5. ReceiptCalm
  BY <1>2, <1>4 DEF ReceiptCalm, NoneSent
<1>6. CASE issuer' = [issuer EXCEPT ![d] = [pc |-> "ref", ref |-> i]]
  <2>1. issuer'[d].pc = "ref" /\ issuer'[d].ref = i /\ \A f \in Issuers : f # d => issuer'[f] = issuer[f]
    BY <1>6 DEF Shape
  <2>2. Knows(d)'
    BY <1>4, <2>1, Positive DEF Knows
  <2>3. SentIsNamed' /\ receipt'.leased
    BY <1>1, <1>2, <1>4 DEF NoneSent, SentIsNamed, ReceiptOk
  <2>4. RefundCalm
    BY <1>2 DEF RefundCalm
  <2> QED BY <1>1, <1>2, <2>1, <2>2, <2>3, <2>4, ReceiptAlone, ReceiptMove, RefundStill
<1>7. ASSUME NEW pc \in {"release", "block"}, IssuerAt(d, pc) PROVE ReceiptOk' /\ RefundOk'
  BY <1>1, <1>2, <1>5, <1>7, IssuerGivesUp
<1> QED BY <1>3, <1>6, <1>7

LEMMA SetReceiptInvoiceKeeps ==
  ASSUME Shape, ReceiptOk, RefundOk, NEW d \in Issuers, SetReceiptInvoice(d)
  PROVE  ReceiptOk' /\ RefundOk'
<1>1. Working(d) /\ NoneSent /\ issuer[d].ref # 0 /\ receipt.leased
  BY DEF SetReceiptInvoice, Working, ReceiptOk, Knows
<1>2. UNCHANGED <<refund, invoices, credits, crediter, reversed>>
  BY DEF SetReceiptInvoice, books
<1>3. receipt'.leased = receipt.leased /\ receipt'.ref \in {receipt.ref, issuer[d].ref}
  BY DEF SetReceiptInvoice, Shape
<1>4. \/ IssuerAt(d, "send") /\ receipt'.ref = issuer[d].ref
      \/ IssuerAt(d, "release")
  BY DEF SetReceiptInvoice, Shape
<1>5. \A f \in Issuers : f # d => issuer'[f] = issuer[f] /\ ~Working(f)
  BY <1>1, <1>4, IssuerAtOnly, ReceiptAlone
<1>6. Knows(d)'
  BY <1>4, IssuerAtOnly DEF Knows
<1>7. SentIsNamed'
  BY <1>1, <1>2 DEF NoneSent, SentIsNamed
<1>8. RefundCalm
  BY <1>1, <1>2, <1>3 DEF RefundCalm
<1>9. ReceiptOk'
  BY <1>1, <1>3, <1>5, <1>6, <1>7, ReceiptMove
<1> QED BY <1>2, <1>8, <1>9, RefundStill

\* Whichever way the billing system answers, when only its invoice changes.
LEMMA AskKeeps ==
  ASSUME Shape, ReceiptOk, RefundOk, NEW d \in Issuers, issuer[d].pc \in {"send", "pay"},
         NEW after, NEW next \in {"pay", "mark"}, Ask(d, after, next),
         \A i \in Ids : after[i].state = "sent" => invoices[i].state = "sent" \/ i = issuer[d].ref,
         UNCHANGED <<rows, credits, crediter, reversed>>
  PROVE  ReceiptOk' /\ RefundOk'
<1>1. Working(d) /\ issuer[d].ref = receipt.ref /\ receipt.leased
  BY DEF Working, ReceiptOk, Knows
<1>2. UNCHANGED <<receipt, refund, credits, crediter, reversed>>
  BY DEF rows
<1>3. invoices' \in {invoices, after}
  BY DEF Ask
<1>4. PICK pc \in {"pay", "mark", "release", "block"} : IssuerAt(d, pc)
  BY DEF Ask
<1>5. SentIsNamed'
  BY <1>1, <1>2, <1>3 DEF SentIsNamed, ReceiptOk
<1>6. Knows(d)'
  BY <1>1, <1>2, <1>4, IssuerAtOnly DEF Knows
<1>7. \A f \in Issuers : f # d => issuer'[f] = issuer[f] /\ ~Working(f)
  BY <1>1, <1>4, IssuerAtOnly, ReceiptAlone
<1>8. RefundCalm
  BY <1>2 DEF RefundCalm
<1>9. ReceiptOk'
  BY <1>1, <1>2, <1>5, <1>6, <1>7, ReceiptMove
<1> QED BY <1>2, <1>8, <1>9, RefundStill

LEMMA MarkSentKeeps ==
  ASSUME Shape, ReceiptOk, RefundOk, NEW d \in Issuers, MarkSent(d)
  PROVE  ReceiptOk' /\ RefundOk'
<1> DEFINE after == [invoices EXCEPT ![issuer[d].ref] = Sent(invoices[issuer[d].ref])]
<1>1. issuer[d].pc = "send" /\ Working(d) /\ UNCHANGED <<rows, credits, crediter, reversed>>
  BY DEF MarkSent, Working
<1>2. CASE invoices' = invoices /\ \E pc \in {"release", "block"} : IssuerAt(d, pc)
  <2>1. ReceiptCalm
    BY <1>1, <1>2 DEF ReceiptCalm, rows
  <2> QED BY <1>1, <1>2, <2>1, IssuerGivesUp DEF rows
<1>3. ASSUME NEW next \in {"pay", "mark"}, Ask(d, after, next) PROVE ReceiptOk' /\ RefundOk'
  <2>1. \A i \in Ids : after[i].state = "sent" => invoices[i].state = "sent" \/ i = issuer[d].ref
    BY DEF Shape, Sent
  <2> HIDE DEF after
  <2> QED BY <1>1, <1>3, <2>1, AskKeeps
<1> QED BY <1>2, <1>3 DEF MarkSent

LEMMA RecordPaymentKeeps ==
  ASSUME Shape, ReceiptOk, RefundOk, NEW d \in Issuers, RecordPayment(d)
  PROVE  ReceiptOk' /\ RefundOk'
<1> DEFINE after == [invoices EXCEPT ![issuer[d].ref] = Paid(invoices[issuer[d].ref])]
<1>1. issuer[d].pc = "pay" /\ Working(d) /\ UNCHANGED <<rows, credits, crediter, reversed>>
  BY DEF RecordPayment, Working
<1>2. CASE invoices' = invoices /\ IssuerAt(d, "block")
  <2>1. ReceiptCalm
    BY <1>1, <1>2 DEF ReceiptCalm, rows
  <2> QED BY <1>1, <1>2, <2>1, IssuerGivesUp DEF rows
<1>3. CASE Ask(d, after, "mark")
  <2>1. \A i \in Ids : after[i].state = "sent" => invoices[i].state = "sent"
    BY DEF Shape, Paid
  <2> HIDE DEF after
  <2> QED BY <1>1, <1>3, <2>1, AskKeeps
<1> QED BY <1>2, <1>3 DEF RecordPayment

LEMMA MarkReceiptIssuedKeeps ==
  ASSUME Shape, ReceiptOk, RefundOk, NEW d \in Issuers, MarkReceiptIssued(d)
  PROVE  ReceiptOk' /\ RefundOk'
<1>1. Working(d) /\ issuer[d].ref = receipt.ref /\ IssuerAt(d, "release")
  BY DEF MarkReceiptIssued, Working, ReceiptOk, Knows
<1>2. UNCHANGED <<refund, invoices, credits, crediter, reversed>>
  BY DEF MarkReceiptIssued, books
<1>3. receipt'.leased = receipt.leased /\ receipt'.ref = receipt.ref
  BY <1>1, Zenon DEF MarkReceiptIssued, Shape
<1>4. ReceiptCalm
  BY <1>2, <1>3 DEF ReceiptCalm
<1> QED BY <1>1, <1>2, <1>4, IssuerGivesUp

LEMMA ParkedOnly == Shape => Parked(receipt).leased = receipt.leased /\ Parked(receipt).ref = receipt.ref
BY DEF Shape, Parked

LEMMA BlockReceiptKeeps ==
  ASSUME Shape, ReceiptOk, RefundOk, NEW d \in Issuers, BlockReceipt(d)
  PROVE  ReceiptOk' /\ RefundOk'
<1>1. Working(d) /\ IssuerAt(d, "release") /\ receipt' \in {receipt, Parked(receipt)}
  BY DEF BlockReceipt, Working
<1>2. UNCHANGED <<refund, invoices, credits, crediter, reversed>>
  BY DEF BlockReceipt, books
<1>3. ReceiptCalm
  BY <1>1, <1>2, ParkedOnly DEF ReceiptCalm
<1> QED BY <1>1, <1>2, <1>3, IssuerGivesUp

LEMMA ReleaseReceiptKeeps ==
  ASSUME Shape, ReceiptOk, RefundOk, NEW d \in Issuers, ReleaseReceipt(d)
  PROVE  ReceiptOk' /\ RefundOk'
<1>1. Working(d) /\ UNCHANGED <<refund, invoices, credits, crediter, reversed>>
  BY DEF ReleaseReceipt, Working, books
<1>2. issuer'[d].pc = "idle" /\ \A f \in Issuers : f # d => issuer'[f] = issuer[f]
  BY DEF ReleaseReceipt, Shape, Unissued
<1>3. receipt'.ref = receipt.ref
  BY DEF ReleaseReceipt, Shape
<1>4. ~Working(d)' /\ Knows(d)'
  BY <1>2 DEF Working, Knows
<1>5. SentIsNamed'
  BY <1>1, <1>3 DEF ReceiptOk, SentIsNamed
<1>6. ReceiptOk'
  BY <1>1, <1>2, <1>4, <1>5, ReceiptAlone, ReceiptMove
<1>7. RefundCalm
  BY <1>1, <1>3 DEF RefundCalm
<1> QED BY <1>1, <1>6, <1>7, RefundStill

LEMMA StopIssuerKeeps ==
  ASSUME Shape, ReceiptOk, RefundOk, NEW d \in Issuers, StopIssuer(d)
  PROVE  ReceiptOk' /\ RefundOk'
<1>1. ReceiptCalm /\ RefundCalm /\ crediter' = crediter
  BY DEF StopIssuer, ReceiptCalm, RefundCalm, rows, books
<1>2. \A f \in Issuers : issuer'[f] = issuer[f] \/ ~Working(f)'
  BY DEF StopIssuer, Shape, Working, Unissued
<1> QED BY <1>1, <1>2, ReceiptStill, RefundStill
-----------------------------------------------------------------------------
(* The crediters. *)

LEMMA CrediterAtOnly ==
  ASSUME Shape, NEW e \in Crediters, NEW pc, CrediterAt(e, pc)
  PROVE  /\ crediter'[e].pc = pc /\ crediter'[e].n = crediter[e].n
         /\ crediter'[e].credit = crediter[e].credit
         /\ \A f \in Crediters : f # e => crediter'[f] = crediter[f]
BY DEF Shape, CrediterAt

\* What a busy crediter finds in its row.
LEMMA BusyKnows ==
  ASSUME RefundOk, NEW e \in Crediters, Busy(e)
  PROVE  refund.leased /\ Same(e) /\ Relies(e) /\ \A f \in Crediters : f # e => ~Busy(f)
BY DEF RefundOk

\* The busy crediter goes on; the rows say what they said.
LEMMA CrediterGoes ==
  ASSUME ReceiptOk, RefundOk, NEW e \in Crediters, Busy(e), ReceiptCalm, RefundCalm, issuer' = issuer,
         \A f \in Crediters : f # e => crediter'[f] = crediter[f],
         crediter'[e].n = crediter[e].n, Relies(e)'
  PROVE  ReceiptOk' /\ RefundOk'
BY ReceiptStill, RefundGoes

LEMMA CrediterGivesUp ==
  ASSUME Shape, ReceiptOk, RefundOk, NEW e \in Crediters, Busy(e), crediter[e].pc # "release",
         ReceiptCalm, RefundCalm, issuer' = issuer, NEW pc \in {"release", "block"}, CrediterAt(e, pc)
  PROVE  ReceiptOk' /\ RefundOk'
<1>1. NotReversed'
  BY BusyKnows DEF Relies, RefundCalm, NotReversed
<1>2. Relies(e)'
  BY <1>1, CrediterAtOnly DEF Relies
<1> QED BY <1>2, CrediterAtOnly, CrediterGoes

LEMMA ListDueRefundsKeeps ==
  ASSUME Shape, ReceiptOk, RefundOk, NEW e \in Crediters, ListDueRefunds(e)
  PROVE  ReceiptOk' /\ RefundOk'
<1>1. ReceiptCalm /\ RefundCalm /\ issuer' = issuer
  BY DEF ListDueRefunds, ReceiptCalm, RefundCalm, rows, books
<1>2. \A f \in Crediters : crediter'[f] = crediter[f] \/ ~Busy(f)'
  BY DEF ListDueRefunds, Shape, Busy, Uncredited
<1> QED BY <1>1, <1>2, ReceiptStill, RefundStill

LEMMA ClaimRefundKeeps ==
  ASSUME Shape, ReceiptOk, RefundOk, NEW e \in Crediters, ClaimRefund(e), ~stale'
  PROVE  ReceiptOk' /\ RefundOk'
<1>1. UNCHANGED <<receipt, invoices, credits, issuer, reversed>>
  BY DEF ClaimRefund, books
<1>2. /\ refund'.n = refund.n /\ refund'.status = refund.status /\ refund'.credit = refund.credit
      /\ refund.leased => refund'.leased
  BY DEF ClaimRefund, Shape
<1>3. ReceiptOk'
  <2>1. ReceiptCalm
    BY <1>1 DEF ReceiptCalm
  <2> QED BY <1>1, <2>1, ReceiptStill
<1>4. CreditIsNamed' /\ RowOk'
  BY <1>1, <1>2 DEF RefundOk, CreditIsNamed, RowOk, NotReversed
<1>5. CASE CrediterAt(e, "idle")
  <2>1. ASSUME NEW f \in Crediters, Busy(f)' PROVE crediter'[f] = crediter[f] /\ Busy(f)
    BY <1>5, <2>1, CrediterAtOnly DEF Busy
  <2>2. ASSUME NEW f \in Crediters, Busy(f)' PROVE refund'.leased /\ Same(f)' /\ Relies(f)'
    <3>1. crediter'[f] = crediter[f] /\ refund.leased /\ Same(f) /\ Relies(f)
      BY <2>1, <2>2, BusyKnows
    <3> QED BY <1>1, <1>2, <3>1 DEF Same, Relies, NoneCredited, NotReversed
  <2>3. \A f, g \in Crediters : Busy(f)' /\ Busy(g)' => f = g
    BY <2>1 DEF RefundOk
  <2> QED BY <1>3, <1>4, <2>2, <2>3 DEF RefundOk
<1>6. CASE /\ Same(e) /\ ~refund.leased /\ CrediterAt(e, "receipt")
           /\ refund' = [refund EXCEPT !.leased = TRUE]
           /\ stale' = (stale \/ refund.status # "pending" \/ refund.credit # crediter[e].credit)
  <2>1. refund.status = "pending" /\ refund.credit = crediter[e].credit
    BY <1>6, Zenon
  <2>2. refund'.leased
    BY <1>6 DEF Shape
  <2>3. Same(e)'
    BY <1>2, <1>6, CrediterAtOnly DEF Same
  <2>4. NotReversed'
    BY <1>1, <1>2, <2>1 DEF RefundOk, RowOk, NotReversed
  <2>5. Relies(e)'
    BY <1>2, <1>6, <2>1, <2>4, CrediterAtOnly DEF Relies
  <2>6. \A f \in Crediters : f # e => crediter'[f] = crediter[f] /\ ~Busy(f)
    BY <1>6, CrediterAtOnly, RefundAlone
  <2> QED BY <1>3, <1>4, <2>2, <2>3, <2>5, <2>6, RefundMove
<1> QED BY <1>5, <1>6 DEF ClaimRefund

LEMMA GetReceiptKeeps ==
  ASSUME Shape, ReceiptOk, RefundOk, NEW e \in Crediters, GetReceipt(e)
  PROVE  ReceiptOk' /\ RefundOk'
<1>1. Busy(e) /\ crediter[e].pc = "receipt"
  BY DEF GetReceipt, Busy
<1>2. UNCHANGED <<receipt, refund, invoices, credits, issuer, reversed>>
  BY DEF GetReceipt, rows, books
<1>3. ReceiptCalm /\ RefundCalm
  BY <1>2 DEF ReceiptCalm, RefundCalm
<1>4. CASE CrediterAt(e, "release")
  BY <1>1, <1>2, <1>3, <1>4, CrediterGivesUp
<1>5. CASE crediter' = [crediter EXCEPT ![e].ref = receipt.ref,
                              ![e].pc = IF receipt.ref = 0 THEN "reread" ELSE "invoice"]
  <2>1. /\ crediter'[e].pc = (IF receipt.ref = 0 THEN "reread" ELSE "invoice")
        /\ crediter'[e].n = crediter[e].n /\ crediter'[e].credit = crediter[e].credit
        /\ \A f \in Crediters : f # e => crediter'[f] = crediter[f]
    BY <1>5 DEF Shape
  <2>2. receipt.ref = 0 => refund.credit = 0
    BY DEF RefundOk, RowOk
  <2>3. crediter[e].credit = refund.credit /\ NotReversed
    BY <1>1, BusyKnows DEF Relies
  <2>4. Relies(e)'
    BY ZenonT(40), <1>2, <2>1, <2>2, <2>3 DEF Relies, NotReversed
  <2> QED BY <1>1, <1>2, <1>3, <2>1, <2>4, CrediterGoes
<1> QED BY <1>4, <1>5 DEF GetReceipt

LEMMA RereadKeeps ==
  ASSUME Shape, ReceiptOk, RefundOk, NEW e \in Crediters, Reread(e)
  PROVE  ReceiptOk' /\ RefundOk'
<1>1. Busy(e) /\ crediter[e].pc = "reread"
  BY DEF Reread, Busy
<1>2. UNCHANGED <<receipt, refund, invoices, credits, issuer, reversed>>
  BY DEF Reread, rows, books
<1>3. ReceiptCalm /\ RefundCalm
  BY <1>2 DEF ReceiptCalm, RefundCalm
<1>4. PICK pc \in {"release", "park", "close"} : CrediterAt(e, pc)
  BY DEF Reread
<1>5. Relies(e)'
  BY ZenonT(40), <1>1, <1>2, <1>4, CrediterAtOnly, BusyKnows DEF Relies, NotReversed
<1> QED BY <1>1, <1>2, <1>3, <1>4, <1>5, CrediterAtOnly, CrediterGoes

LEMMA ParkReceiptKeeps ==
  ASSUME Shape, ReceiptOk, RefundOk, NEW e \in Crediters, ParkReceipt(e)
  PROVE  ReceiptOk' /\ RefundOk'
<1>1. Busy(e) /\ crediter[e].pc = "park" /\ receipt' \in {receipt, Parked(receipt)}
  BY DEF ParkReceipt, Busy
<1>2. UNCHANGED <<refund, invoices, credits, issuer, reversed>>
  BY DEF ParkReceipt, books
<1>3. ReceiptCalm /\ RefundCalm
  BY <1>1, <1>2, ParkedOnly DEF ReceiptCalm, RefundCalm
<1>4. PICK pc \in {"release", "close"} : CrediterAt(e, pc)
  BY ZenonT(40) DEF ParkReceipt
<1>5. Relies(e)'
  BY <1>1, <1>2, <1>4, CrediterAtOnly, BusyKnows DEF Relies, NotReversed
<1> QED BY <1>1, <1>2, <1>3, <1>4, <1>5, CrediterAtOnly, CrediterGoes

LEMMA InvoiceWithPaymentsKeeps ==
  ASSUME Shape, ReceiptOk, RefundOk, NEW e \in Crediters, InvoiceWithPayments(e)
  PROVE  ReceiptOk' /\ RefundOk'
<1>1. Busy(e) /\ crediter[e].pc \in {"invoice", "reget"}
  BY DEF InvoiceWithPayments, Busy
<1>2. UNCHANGED <<receipt, refund, invoices, credits, issuer, reversed>>
  BY DEF InvoiceWithPayments, rows, books
<1>3. ReceiptCalm /\ RefundCalm
  BY <1>2 DEF ReceiptCalm, RefundCalm
<1>4. ASSUME NEW pc \in {"release", "block"}, CrediterAt(e, pc) PROVE ReceiptOk' /\ RefundOk'
  BY <1>1, <1>2, <1>3, <1>4, CrediterGivesUp
<1> DEFINE i == crediter[e].ref
           pc == IF invoices[i].state = "deleted" THEN "block"
                 ELSE IF crediter[e].pc = "reget" THEN "apply"
                 ELSE IF crediter[e].credit # 0 THEN "getcredit" ELSE "newcredit"
<1>5. pc \in {"block", "apply", "getcredit", "newcredit"} /\ (pc = "newcredit" => crediter[e].credit = 0)
  OBVIOUS
<1>6. CASE crediter' = [crediter EXCEPT ![e].pc = pc, ![e].owed = Balance(i), ![e].pays = invoices[i].pays]
  <2> HIDE DEF pc
  <2>1. /\ crediter'[e].pc = pc /\ crediter'[e].n = crediter[e].n
        /\ crediter'[e].credit = crediter[e].credit
        /\ \A f \in Crediters : f # e => crediter'[f] = crediter[f]
    BY <1>6 DEF Shape
  <2>2. crediter[e].credit = refund.credit /\ receipt.ref # 0 /\ NotReversed
    BY <1>1, BusyKnows DEF Relies
  <2>3. refund.credit = 0 => NoneCredited
    BY Positive DEF RefundOk, CreditIsNamed, NoneCredited
  <2>4. Relies(e)'
    BY <1>2, <1>5, <2>1, <2>2, <2>3 DEF Relies, NoneCredited, NotReversed
  <2> QED BY <1>1, <1>2, <1>3, <2>1, <2>4, CrediterGoes
<1> QED BY <1>4, <1>6, Zenon DEF InvoiceWithPayments

LEMMA GetCreditKeeps ==
  ASSUME Shape, ReceiptOk, RefundOk, NEW e \in Crediters, GetCredit(e)
  PROVE  ReceiptOk' /\ RefundOk'
<1>1. Busy(e) /\ crediter[e].pc = "getcredit"
  BY DEF GetCredit, Busy
<1>2. UNCHANGED <<receipt, refund, invoices, credits, issuer, reversed>>
  BY DEF GetCredit, rows, books
<1>3. ReceiptCalm /\ RefundCalm
  BY <1>2 DEF ReceiptCalm, RefundCalm
<1>4. ASSUME NEW pc \in {"release", "block"}, CrediterAt(e, pc) PROVE ReceiptOk' /\ RefundOk'
  BY ZenonT(40), <1>1, <1>2, <1>3, <1>4, CrediterGivesUp
<1>5. ASSUME NEW pc \in {"newcredit", "sendcredit", "refund"},
             pc = "newcredit" => credits[crediter[e].credit].state = "deleted",
             NEW left, crediter' = [crediter EXCEPT ![e].left = left, ![e].pc = pc]
      PROVE  ReceiptOk' /\ RefundOk'
  <2>1. /\ crediter'[e].pc = pc /\ crediter'[e].n = crediter[e].n
        /\ crediter'[e].credit = crediter[e].credit
        /\ \A f \in Crediters : f # e => crediter'[f] = crediter[f]
    BY ZenonT(40), <1>5 DEF Shape
  <2>2. crediter[e].credit = refund.credit /\ receipt.ref # 0 /\ NotReversed
    BY <1>1, BusyKnows DEF Relies
  <2>3. pc = "newcredit" => NoneCredited
    BY <1>5, <2>2 DEF RefundOk, CreditIsNamed, NoneCredited
  <2>4. Relies(e)'
    BY <1>2, <1>5, <2>1, <2>2, <2>3 DEF Relies, NoneCredited, NotReversed
  <2> QED BY <1>1, <1>2, <1>3, <2>1, <2>4, CrediterGoes
<1> DEFINE c == crediter[e].credit
           next == IF credits[c].state = "deleted" THEN "newcredit"
                   ELSE IF credits[c].state = "draft" THEN "sendcredit" ELSE "refund"
<1>6. /\ next \in {"newcredit", "sendcredit", "refund"}
      /\ next = "newcredit" => credits[c].state = "deleted"
  OBVIOUS
<1>7. \/ crediter' = [crediter EXCEPT ![e].left = CreditLeft(c), ![e].pc = next]
      \/ \E pc \in {"release", "block"} : CrediterAt(e, pc)
  BY DEF GetCredit
<1> HIDE DEF next
<1> QED BY <1>4, <1>5, <1>6, <1>7

LEMMA CreateCreditKeeps ==
  ASSUME Shape, ReceiptOk, RefundOk, NEW e \in Crediters, CreateCredit(e)
  PROVE  ReceiptOk' /\ RefundOk'
<1>1. Busy(e) /\ crediter[e].pc = "newcredit"
  BY DEF CreateCredit, Busy
<1>2. UNCHANGED <<receipt, refund, invoices, issuer, reversed>>
  BY DEF CreateCredit, rows
<1>3. PICK c \in Notes :
         \/ /\ credits' = [credits EXCEPT ![c] = [state |-> "draft", left |-> crediter[e].amount]]
            /\ \/ crediter' = [crediter EXCEPT ![e].pc = "setcredit", ![e].credit = c]
               \/ CrediterAt(e, "release")
         \/ credits' = credits /\ \E pc \in {"release", "block"} : CrediterAt(e, pc)
  BY SMTT(40) DEF CreateCredit
<1>4. NoneCredited /\ receipt.ref # 0 /\ NotReversed
  BY <1>1, BusyKnows DEF Relies
<1>5. NoneCredited'
  BY <1>3, <1>4 DEF NoneCredited, Shape
<1>6. ReceiptCalm /\ RefundCalm
  BY <1>2, <1>5 DEF ReceiptCalm, RefundCalm, NoneCredited
<1>7. ASSUME NEW pc \in {"release", "block"}, CrediterAt(e, pc) PROVE ReceiptOk' /\ RefundOk'
  BY <1>1, <1>2, <1>6, <1>7, CrediterGivesUp
<1>8. CASE crediter' = [crediter EXCEPT ![e].pc = "setcredit", ![e].credit = c]
  <2>1. /\ crediter'[e].pc = "setcredit" /\ crediter'[e].n = crediter[e].n
        /\ \A f \in Crediters : f # e => crediter'[f] = crediter[f]
    BY <1>8 DEF Shape
  <2>2. Relies(e)'
    BY <1>2, <1>4, <1>5, <2>1 DEF Relies, NotReversed
  <2> QED BY <1>1, <1>2, <1>6, <2>1, <2>2, CrediterGoes
<1> QED BY <1>3, <1>7, <1>8

\* A write to the row the crediter holds, and what the row is then.
LEMMA CrediterWrites ==
  ASSUME ReceiptOk, RefundOk, NEW e \in Crediters, Busy(e),
         UNCHANGED <<receipt, invoices, credits, issuer, reversed>>,
         \A f \in Crediters : f # e => crediter'[f] = crediter[f],
         crediter'[e].n = crediter[e].n, refund'.n = refund.n, refund'.leased,
         refund.status # "none", refund'.status # "none",
         CreditIsNamed', RowOk', Relies(e)'
  PROVE  ReceiptOk' /\ RefundOk'
<1>1. ReceiptCalm
  BY DEF ReceiptCalm
<1>2. Same(e)'
  BY BusyKnows DEF Same
<1>3. \A f \in Crediters : f # e => crediter'[f] = crediter[f] /\ ~Busy(f)
  BY ZenonT(40), RefundAlone
<1> QED BY ZenonT(40), <1>1, <1>2, <1>3, ReceiptStill, RefundMove

LEMMA SetRefundCreditKeeps ==
  ASSUME Shape, ReceiptOk, RefundOk, NEW e \in Crediters, SetRefundCredit(e)
  PROVE  ReceiptOk' /\ RefundOk'
<1>1. Busy(e) /\ crediter[e].pc = "setcredit"
  BY DEF SetRefundCredit, Busy
<1>2. UNCHANGED <<receipt, invoices, credits, issuer, reversed>>
  BY ZenonT(40) DEF SetRefundCredit, books
<1>3. refund.leased /\ Same(e) /\ refund.status # "none" /\ NoneCredited /\ receipt.ref # 0 /\ NotReversed
  BY <1>1, BusyKnows DEF Relies, Same
<1>4. /\ refund'.n = refund.n /\ refund'.status = refund.status /\ refund'.leased = refund.leased
      /\ \/ CrediterAt(e, "sendcredit") /\ refund'.credit = crediter[e].credit
         \/ CrediterAt(e, "release")
  BY <1>3, Zenon DEF SetRefundCredit, WriteRefund, Shape
<1>5. CreditIsNamed'
  BY <1>2, <1>3 DEF NoneCredited, CreditIsNamed
<1>6. RowOk'
  BY SMTT(40), <1>2, <1>3, <1>4 DEF RefundOk, RowOk, NotReversed
<1>7. Relies(e)'
  BY <1>2, <1>3, <1>4, CrediterAtOnly DEF Relies, NotReversed
<1>8. crediter'[e].n = crediter[e].n /\ \A f \in Crediters : f # e => crediter'[f] = crediter[f]
  BY <1>4, CrediterAtOnly
<1>9. refund'.leased /\ refund'.status # "none"
  BY <1>3, <1>4
<1> QED BY <1>1, <1>2, <1>3, <1>4, <1>5, <1>6, <1>7, <1>8, <1>9, CrediterWrites

LEMMA MarkCreditSentKeeps ==
  ASSUME Shape, ReceiptOk, RefundOk, NEW e \in Crediters, MarkCreditSent(e)
  PROVE  ReceiptOk' /\ RefundOk'
<1> DEFINE after == [credits EXCEPT ![crediter[e].credit].state = "sent"]
<1>1. Busy(e) /\ crediter[e].pc = "sendcredit"
  BY DEF MarkCreditSent, Busy
<1>2. UNCHANGED <<receipt, refund, invoices, issuer, reversed>>
  BY DEF MarkCreditSent, rows
<1>3. credits' \in {credits, after}
  BY DEF MarkCreditSent
<1>4. /\ crediter'[e].pc \in {"refund", "release", "block"} /\ crediter'[e].n = crediter[e].n
      /\ crediter'[e].credit = crediter[e].credit
      /\ \A f \in Crediters : f # e => crediter'[f] = crediter[f]
  BY DEF MarkCreditSent, CrediterAt, Shape
<1>5. \A c \in Notes : after[c].state = "sent" => credits[c].state = "sent" \/ c = crediter[e].credit
  BY DEF Shape
<1> HIDE DEF after
<1>6. refund.leased /\ Same(e) /\ crediter[e].credit = refund.credit /\ receipt.ref # 0 /\ NotReversed
  BY <1>1, BusyKnows DEF Relies
<1>7. CreditIsNamed'
  BY <1>2, <1>3, <1>5, <1>6 DEF CreditIsNamed, RefundOk
<1>8. RowOk'
  BY <1>2 DEF RefundOk, RowOk, NotReversed
<1>9. Relies(e)' /\ Same(e)'
  BY <1>2, <1>4, <1>6 DEF Relies, NotReversed, Same
<1>10. ReceiptCalm
  BY <1>2 DEF ReceiptCalm
<1>11. \A f \in Crediters : f # e => crediter'[f] = crediter[f] /\ ~Busy(f)
  BY ZenonT(40), <1>1, <1>4, RefundAlone
<1> QED BY <1>2, <1>6, <1>7, <1>8, <1>9, <1>10, <1>11, ReceiptStill, RefundMove

\* Whichever way the billing system answers, when no document is sent.
LEMMA AskBooksKeeps ==
  ASSUME Shape, ReceiptOk, RefundOk, NEW e \in Crediters, crediter[e].pc \in {"refund", "apply"},
         NEW possible, NEW inv, NEW crd, NEW next \in {"reget", "apply", "mark"},
         AskBooks(e, possible, inv, crd, next),
         \A i \in Ids : inv[i].state = invoices[i].state,
         \A c \in Notes : crd[c].state = credits[c].state,
         UNCHANGED <<rows, issuer, reversed>>
  PROVE  ReceiptOk' /\ RefundOk'
<1>1. Busy(e) /\ UNCHANGED <<receipt, refund, issuer, reversed>>
  BY DEF Busy, rows
<1>2. invoices' \in {invoices, inv} /\ credits' \in {credits, crd}
  BY DEF AskBooks, books
<1>3. PICK pc \in {"reget", "apply", "mark", "release", "block"} : CrediterAt(e, pc)
  BY DEF AskBooks
<1>4. ReceiptCalm /\ RefundCalm
  BY ZenonT(40), <1>1, <1>2 DEF ReceiptCalm, RefundCalm
<1>5. crediter[e].credit = refund.credit /\ receipt.ref # 0 /\ NotReversed
  BY ZenonT(40), <1>1, BusyKnows DEF Relies
<1>6. Relies(e)'
  BY ZenonT(40), <1>1, <1>3, <1>5, CrediterAtOnly DEF Relies, NotReversed
<1> QED BY <1>1, <1>3, <1>4, <1>6, CrediterAtOnly, CrediterGoes

\* There was nothing to ask.
LEMMA NothingAsked ==
  ASSUME Shape, ReceiptOk, RefundOk, NEW e \in Crediters, crediter[e].pc \in {"refund", "apply"},
         NEW pc \in {"apply", "mark"}, CrediterAt(e, pc), UNCHANGED <<rows, books, issuer, reversed>>
  PROVE  ReceiptOk' /\ RefundOk'
<1>1. Busy(e) /\ UNCHANGED <<receipt, refund, invoices, credits, issuer, reversed>>
  BY DEF Busy, rows, books
<1>2. ReceiptCalm /\ RefundCalm
  BY ZenonT(40), <1>1 DEF ReceiptCalm, RefundCalm
<1>3. crediter[e].credit = refund.credit /\ receipt.ref # 0 /\ NotReversed
  BY ZenonT(40), <1>1, BusyKnows DEF Relies
<1>4. Relies(e)'
  BY ZenonT(40), <1>1, <1>3, CrediterAtOnly DEF Relies, NotReversed
<1> QED BY ZenonT(40), <1>1, <1>2, <1>4, CrediterAtOnly, CrediterGoes

LEMMA RefundPaymentKeeps ==
  ASSUME Shape, ReceiptOk, RefundOk, NEW e \in Crediters, RefundPayment(e)
  PROVE  ReceiptOk' /\ RefundOk'
<1> DEFINE i == crediter[e].ref
           a == crediter[e].amount
           p == Payable(crediter[e].pays, a)
           after == [invoices EXCEPT ![i] = GivenBack(invoices[i], p, a)]
           possible == invoices[i].state = "sent" /\ Amount - invoices[i].pays[p] >= a
<1>1. crediter[e].pc = "refund" /\ UNCHANGED <<rows, issuer, reversed>>
  BY DEF RefundPayment
<1>2. \A j \in Ids : after[j].state = invoices[j].state
  BY ZenonT(40) DEF Shape, GivenBack
<1>3. \/ CrediterAt(e, "apply") /\ UNCHANGED books
      \/ AskBooks(e, possible, after, credits, "reget")
  BY ZenonT(60) DEF RefundPayment
<1> HIDE DEF after, possible
<1> QED BY ZenonT(40), <1>1, <1>2, <1>3, NothingAsked, AskBooksKeeps

LEMMA ApplyCreditKeeps ==
  ASSUME Shape, ReceiptOk, RefundOk, NEW e \in Crediters, ApplyCredit(e)
  PROVE  ReceiptOk' /\ RefundOk'
<1> DEFINE i == crediter[e].ref
           c == crediter[e].credit
           a == Least({crediter[e].amount, crediter[e].owed, crediter[e].left})
           inv == [invoices EXCEPT ![i] = Credited(invoices[i], a)]
           crd == [credits EXCEPT ![c].left = @ - a]
           possible == a <= Balance(i) /\ a <= CreditLeft(c)
<1>1. crediter[e].pc = "apply" /\ UNCHANGED <<rows, issuer, reversed>>
  BY DEF ApplyCredit
<1>2. \A j \in Ids : inv[j].state = invoices[j].state
  BY DEF Shape, Credited
<1>3. \A j \in Notes : crd[j].state = credits[j].state
  BY DEF Shape
<1>4. \/ CrediterAt(e, "mark") /\ UNCHANGED books
      \/ AskBooks(e, possible, inv, crd, "mark")
  BY ZenonT(60) DEF ApplyCredit
<1> HIDE DEF inv, crd, possible
<1> QED BY <1>1, <1>2, <1>3, <1>4, NothingAsked, AskBooksKeeps

LEMMA MarkRefundIssuedKeeps ==
  ASSUME Shape, ReceiptOk, RefundOk, NEW e \in Crediters, MarkRefundIssued(e)
  PROVE  ReceiptOk' /\ RefundOk'
<1>1. Busy(e) /\ crediter[e].pc \in {"mark", "close"}
  BY DEF MarkRefundIssued, Busy
<1>2. UNCHANGED <<receipt, invoices, credits, issuer, reversed>>
  BY ZenonT(40) DEF MarkRefundIssued, books
<1>3. /\ refund.leased /\ Same(e) /\ refund.status # "none" /\ NotReversed
      /\ refund.credit = IF crediter[e].pc = "mark" THEN crediter[e].credit ELSE 0
  BY <1>1, BusyKnows DEF Relies, Same
<1>4. /\ refund'.n = refund.n /\ refund'.leased = refund.leased /\ refund'.credit = refund.credit
      /\ refund'.status \in {refund.status, "issued"}
      /\ \/ CrediterAt(e, "plan") /\ refund'.status = "issued"
         \/ CrediterAt(e, "release")
  BY <1>3, ZenonT(60) DEF MarkRefundIssued, WriteRefund, Shape
<1>5. CreditIsNamed' /\ RowOk'
  BY <1>2, <1>3, <1>4 DEF RefundOk, CreditIsNamed, RowOk, NotReversed
<1>6. Relies(e)'
  BY <1>2, <1>3, <1>4, CrediterAtOnly DEF Relies, NotReversed
<1>7. crediter'[e].n = crediter[e].n /\ \A f \in Crediters : f # e => crediter'[f] = crediter[f]
  BY <1>4, CrediterAtOnly
<1>8. refund'.leased /\ refund'.status # "none"
  BY ZenonT(40), <1>3, <1>4
<1> QED BY <1>1, <1>2, <1>3, <1>4, <1>5, <1>6, <1>7, <1>8, CrediterWrites

LEMMA ReversePlanKeeps ==
  ASSUME Shape, ReceiptOk, RefundOk, NEW e \in Crediters, ReversePlan(e)
  PROVE  ReceiptOk' /\ RefundOk'
<1>1. Busy(e) /\ crediter[e].pc = "plan" /\ CrediterAt(e, "release")
  BY DEF ReversePlan, Busy
<1>2. UNCHANGED <<receipt, refund, invoices, credits, issuer>>
  BY ZenonT(40) DEF ReversePlan, rows, books
<1>3. refund.leased /\ Same(e) /\ refund.status = "issued" /\ NotReversed /\ refund.n = crediter[e].n
  BY ZenonT(40), <1>1, BusyKnows DEF Relies, Same
<1>4. \A n \in Refunds : reversed'[n] = reversed[n] \/ (n = refund.n /\ reversed'[n] = reversed[n] + 1)
  BY <1>3 DEF ReversePlan, Shape
<1>5. \A n \in Refunds : reversed'[n] <= 1 /\ (n > refund.n => reversed'[n] = 0)
  <2> SUFFICES ASSUME NEW n \in Refunds
               PROVE  reversed'[n] <= 1 /\ (n > refund.n => reversed'[n] = 0)
    OBVIOUS
  <2>1. n \in Int /\ refund.n \in Int
    BY SMTT(40) DEF Refunds, Shape
  <2>2. reversed[n] <= 1 /\ (n > refund.n => reversed[n] = 0) /\ (n = refund.n => reversed[n] = 0)
    BY ZenonT(40), <1>3 DEF RefundOk, RowOk, NotReversed
  <2> QED BY <1>4, <2>1, <2>2
<1>6. CreditIsNamed' /\ RowOk'
  BY ZenonT(40), <1>2, <1>3, <1>5 DEF RefundOk, CreditIsNamed, RowOk
<1>7. Relies(e)' /\ Same(e)'
  BY SMTT(40), <1>1, <1>2, <1>3, CrediterAtOnly DEF Relies, Same
<1>8. ReceiptCalm
  BY <1>2 DEF ReceiptCalm
<1>9. \A f \in Crediters : f # e => crediter'[f] = crediter[f] /\ ~Busy(f)
  BY ZenonT(40), <1>1, CrediterAtOnly, RefundAlone
<1> QED BY ZenonT(40), <1>2, <1>3, <1>6, <1>7, <1>8, <1>9, ReceiptStill, RefundMove

LEMMA BlockRefundKeeps ==
  ASSUME Shape, ReceiptOk, RefundOk, NEW e \in Crediters, BlockRefund(e)
  PROVE  ReceiptOk' /\ RefundOk'
<1>1. Busy(e) /\ crediter[e].pc = "block" /\ CrediterAt(e, "release")
  BY DEF BlockRefund, Busy
<1>2. UNCHANGED <<receipt, invoices, credits, issuer, reversed>>
  BY ZenonT(40) DEF BlockRefund, books
<1>3. refund.leased /\ Same(e) /\ refund.status # "none" /\ NotReversed
  BY <1>1, BusyKnows DEF Relies, Same
<1>4. /\ refund'.n = refund.n /\ refund'.leased = refund.leased /\ refund'.credit = refund.credit
      /\ refund'.status \in {refund.status, "blocked"}
  BY ZenonT(40) DEF BlockRefund, WriteRefund, Shape
<1>5. CreditIsNamed' /\ RowOk'
  BY ZenonT(40), <1>2, <1>3, <1>4 DEF RefundOk, CreditIsNamed, RowOk, NotReversed
<1>6. Relies(e)'
  BY <1>1, CrediterAtOnly DEF Relies
<1>7. crediter'[e].n = crediter[e].n /\ \A f \in Crediters : f # e => crediter'[f] = crediter[f]
  BY <1>1, CrediterAtOnly
<1>8. refund'.leased /\ refund'.status # "none"
  BY ZenonT(40), <1>3, <1>4
<1> QED BY <1>1, <1>2, <1>3, <1>4, <1>5, <1>6, <1>7, <1>8, CrediterWrites

LEMMA ReleaseRefundKeeps ==
  ASSUME Shape, ReceiptOk, RefundOk, NEW e \in Crediters, ReleaseRefund(e)
  PROVE  ReceiptOk' /\ RefundOk'
<1>1. Busy(e) /\ UNCHANGED <<receipt, invoices, credits, issuer, reversed>>
  BY DEF ReleaseRefund, Busy, books
<1>2. /\ refund'.n = refund.n /\ refund'.status = refund.status /\ refund'.credit = refund.credit
  BY DEF ReleaseRefund, WriteRefund, Shape
<1>3. crediter'[e].pc = "idle" /\ \A f \in Crediters : f # e => crediter'[f] = crediter[f]
  BY DEF ReleaseRefund, Shape, Uncredited
<1>4. ~Busy(e)'
  BY ZenonT(40), <1>3 DEF Busy
<1>5. CreditIsNamed' /\ RowOk'
  BY <1>1, <1>2 DEF RefundOk, CreditIsNamed, RowOk, NotReversed
<1>6. ReceiptCalm
  BY ZenonT(40), <1>1 DEF ReceiptCalm
<1> QED BY <1>1, <1>3, <1>4, <1>5, <1>6, RefundAlone, ReceiptStill, RefundMove

LEMMA StopCrediterKeeps ==
  ASSUME Shape, ReceiptOk, RefundOk, NEW e \in Crediters, StopCrediter(e)
  PROVE  ReceiptOk' /\ RefundOk'
<1>1. ReceiptCalm /\ RefundCalm /\ issuer' = issuer
  BY DEF StopCrediter, ReceiptCalm, RefundCalm, rows, books
<1>2. \A f \in Crediters : crediter'[f] = crediter[f] \/ ~Busy(f)'
  BY DEF StopCrediter, Shape, Busy, Uncredited
<1> QED BY <1>1, <1>2, ReceiptStill, RefundStill
-----------------------------------------------------------------------------
(* The leases, the operator and the person in the billing system. *)

\* Only the documents or the state of the receipt change.
LEMMA OthersKeep ==
  ASSUME Shape, ReceiptOk, RefundOk,
         \/ RequeueReceipt \/ (\E i \in Ids : DeleteInvoice(i)) \/ (\E c \in Notes : DeleteCredit(c))
  PROVE  ReceiptOk' /\ RefundOk'
<1>1. UNCHANGED <<refund, issuer, crediter, reversed>>
  BY DEF RequeueReceipt, DeleteInvoice, DeleteCredit, rows
<1>2. receipt'.ref = receipt.ref /\ receipt'.leased = receipt.leased
  BY DEF RequeueReceipt, DeleteInvoice, DeleteCredit, rows, Shape
<1>3. \A i \in Ids : invoices'[i].state = "sent" => invoices[i].state = "sent"
  BY DEF RequeueReceipt, DeleteInvoice, DeleteCredit, books, Shape
<1>4. \A c \in Notes : credits'[c].state = "sent" => credits[c].state = "sent"
  BY SMTT(40) DEF RequeueReceipt, DeleteInvoice, DeleteCredit, books, Shape
<1>5. ReceiptCalm /\ RefundCalm
  BY ZenonT(40), <1>1, <1>2, <1>3, <1>4 DEF ReceiptCalm, RefundCalm
<1> QED BY <1>1, <1>5, ReceiptStill, RefundStill

LEMMA ReceiptLeaseLapsesKeeps ==
  ASSUME Shape, ReceiptOk, RefundOk, ReceiptLeaseLapses, ~stale'
  PROVE  ReceiptOk' /\ RefundOk'
<1>1. UNCHANGED <<refund, invoices, credits, issuer, crediter, reversed>> /\ receipt'.ref = receipt.ref
  BY DEF ReceiptLeaseLapses, Shape, books
<1>2. \A d \in Issuers : ~Working(d)
  BY Zenon DEF ReceiptLeaseLapses, Issuing, Working
<1>3. ReceiptOk'
  BY <1>1, <1>2, ZenonT(60) DEF ReceiptOk, Working, Knows, NoneSent, SentIsNamed
<1>4. RefundCalm
  BY <1>1 DEF RefundCalm
<1> QED BY <1>1, <1>3, <1>4, RefundStill

\* The row changes while no crediter is at work on it.
LEMMA RowChanges ==
  ASSUME ReceiptOk, RefundOk, \A e \in Crediters : ~Busy(e), CreditIsNamed', RowOk',
         UNCHANGED <<receipt, invoices, issuer, crediter>>
  PROVE  ReceiptOk' /\ RefundOk'
<1>1. ReceiptCalm
  BY DEF ReceiptCalm
<1>2. \A e \in Crediters : ~Busy(e)'
  BY DEF Busy
<1> QED BY ZenonT(40), <1>1, <1>2, ReceiptStill DEF RefundOk

LEMMA RefundLeaseLapsesKeeps ==
  ASSUME Shape, ReceiptOk, RefundOk, RefundLeaseLapses, ~stale'
  PROVE  ReceiptOk' /\ RefundOk'
<1>1. UNCHANGED <<receipt, invoices, credits, issuer, crediter, reversed>>
  BY DEF RefundLeaseLapses, books
<1>2. refund'.n = refund.n /\ refund'.status = refund.status /\ refund'.credit = refund.credit
  BY DEF RefundLeaseLapses, Shape
<1>3. \A e \in Crediters : ~Busy(e)
  BY Zenon DEF RefundLeaseLapses, Crediting, Busy
<1>4. CreditIsNamed' /\ RowOk'
  BY <1>1, <1>2 DEF RefundOk, CreditIsNamed, RowOk, NotReversed
<1> QED BY <1>1, <1>3, <1>4, RowChanges

LEMMA DeleteRefundKeeps ==
  ASSUME Shape, ReceiptOk, RefundOk, DeleteRefund, ~stale'
  PROVE  ReceiptOk' /\ RefundOk'
<1>1. UNCHANGED <<receipt, invoices, credits, issuer, crediter, reversed>>
  BY DEF DeleteRefund, books
<1>2. refund'.n = refund.n /\ refund'.credit = refund.credit /\ refund.credit = 0 /\ refund.status # "issued"
  BY DEF DeleteRefund, Shape
<1>3. \A e \in Crediters : ~Busy(e)
  BY Zenon DEF DeleteRefund, Crediting, Busy
<1>4. CreditIsNamed' /\ RowOk'
  BY <1>1, <1>2 DEF RefundOk, CreditIsNamed, RowOk, NotReversed
<1> QED BY <1>1, <1>3, <1>4, RowChanges

LEMMA RecordRefundKeeps ==
  ASSUME Shape, ReceiptOk, RefundOk, NEW a \in Refundable, RecordRefund(a)
  PROVE  ReceiptOk' /\ RefundOk'
<1>1. UNCHANGED <<receipt, invoices, credits, issuer, crediter, reversed>>
  BY DEF RecordRefund, books
<1>2. refund.status = "none" /\ refund'.n = refund.n + 1 /\ refund'.credit = 0
  BY DEF RecordRefund
<1>3. \A e \in Crediters : ~Busy(e)
  BY <1>2 DEF RefundOk, Same
<1>4. refund.credit = 0
  BY <1>2 DEF RefundOk, RowOk
<1>5. CreditIsNamed'
  BY SMTT(40), <1>1, <1>2, <1>4 DEF RefundOk, CreditIsNamed
<1>6. \A n \in Refunds : n >= refund.n + 1 => reversed[n] = 0
  <2>1. \A n \in Refunds : n >= refund.n + 1 => n > refund.n
    BY DEF Refunds, Shape
  <2> QED BY <2>1 DEF RefundOk, RowOk
<1>7. \A n \in Refunds : (n > refund'.n \/ n = refund'.n) => n >= refund.n + 1
  BY SMTT(40), <1>2 DEF Refunds, Shape
<1>8. RowOk'
  BY <1>1, <1>2, <1>6, <1>7 DEF RefundOk, RowOk, NotReversed
<1> QED BY <1>1, <1>3, <1>5, <1>8, RowChanges

LEMMA RequeueRefundKeeps ==
  ASSUME Shape, ReceiptOk, RefundOk, RequeueRefund
  PROVE  ReceiptOk' /\ RefundOk'
<1>1. UNCHANGED <<receipt, invoices, credits, issuer, crediter, reversed>>
  BY DEF RequeueRefund, books
<1>2. /\ refund'.n = refund.n /\ refund'.credit = refund.credit /\ refund'.leased = refund.leased
      /\ refund.status = "blocked" /\ refund'.status = "pending"
  BY ZenonT(40) DEF RequeueRefund, Shape
<1>3. CreditIsNamed' /\ RowOk'
  BY <1>1, <1>2 DEF RefundOk, CreditIsNamed, RowOk, NotReversed
<1>4. \A e \in Crediters : Busy(e)' => Busy(e) /\ crediter'[e] = crediter[e]
  BY ZenonT(40), <1>1 DEF Busy
<1>5. \A e \in Crediters : Busy(e) => refund'.leased /\ Same(e)'
  BY ZenonT(40), <1>1, <1>2 DEF RefundOk, Same
<1>6. ASSUME NEW e \in Crediters, Busy(e) PROVE Relies(e)'
  BY ZenonT(40), <1>1, <1>2, <1>6, BusyKnows DEF Relies, NoneCredited, NotReversed
<1>7. RefundOk'
  BY <1>3, <1>4, <1>5, <1>6 DEF RefundOk
<1>8. ReceiptCalm
  BY ZenonT(40), <1>1 DEF ReceiptCalm
<1> QED BY <1>1, <1>7, <1>8, ReceiptStill
-----------------------------------------------------------------------------
(* The records keep their fields. *)

LEMMA InvoiceShape ==
  ASSUME Shape, NEW i, NEW v, i \in Ids => DOMAIN v = DOMAIN NoInvoice,
         invoices' \in {invoices, [invoices EXCEPT ![i] = v]}
  PROVE  DOMAIN invoices' = Ids /\ \A j \in Ids : DOMAIN invoices'[j] = {"state", "pays", "owed", "back"}
BY DEF Shape, NoInvoice

LEMMA AskedShape ==
  ASSUME Shape, NEW i \in Ids
  PROVE  /\ DOMAIN Sent(invoices[i]) = DOMAIN NoInvoice /\ DOMAIN Paid(invoices[i]) = DOMAIN NoInvoice
         /\ \A p, a : DOMAIN GivenBack(invoices[i], p, a) = DOMAIN NoInvoice
         /\ \A a : DOMAIN Credited(invoices[i], a) = DOMAIN NoInvoice
BY DEF Sent, Paid, GivenBack, Credited, NoInvoice, Shape

LEMMA IssuerShape ==
  ASSUME Shape, NEW d \in Issuers, IssuerStep(d) \/ StopIssuer(d)
  PROVE  Shape'
<1>1. CASE ListDueReceipts(d)
  BY <1>1 DEF ListDueReceipts, rows, books, Shape
<1>2. CASE ClaimReceipt(d)
  BY <1>2 DEF ClaimReceipt, IssuerAt, books, Shape
<1>3. CASE GetInvoice(d)
  BY <1>3 DEF GetInvoice, IssuerAt, rows, books, Shape
<1>4. CASE CreateInvoice(d)
  BY <1>4 DEF CreateInvoice, IssuerAt, rows, Shape
<1>5. CASE SetReceiptInvoice(d)
  BY <1>5 DEF SetReceiptInvoice, IssuerAt, books, Shape
<1>6. CASE MarkSent(d)
  <2>1. invoices' \in {invoices, [invoices EXCEPT ![issuer[d].ref] = Sent(invoices[issuer[d].ref])]}
    BY ZenonT(40), <1>6 DEF MarkSent, Ask
  <2>2. DOMAIN invoices' = Ids /\ \A j \in Ids : DOMAIN invoices'[j] = {"state", "pays", "owed", "back"}
    BY ZenonT(40), <2>1, InvoiceShape, AskedShape
  <2>3. \E pc : IssuerAt(d, pc)
    BY ZenonT(40), <1>6 DEF MarkSent, Ask
  <2>4. UNCHANGED <<rows, credits, crediter, reversed>>
    BY ZenonT(40), <1>6 DEF MarkSent
  <2> QED BY ZenonT(40), <2>2, <2>3, <2>4 DEF IssuerAt, rows, Shape
<1>7. CASE RecordPayment(d)
  <2>1. invoices' \in {invoices, [invoices EXCEPT ![issuer[d].ref] = Paid(invoices[issuer[d].ref])]}
    BY ZenonT(40), <1>7 DEF RecordPayment, Ask
  <2>2. DOMAIN invoices' = Ids /\ \A j \in Ids : DOMAIN invoices'[j] = {"state", "pays", "owed", "back"}
    BY ZenonT(40), <2>1, InvoiceShape, AskedShape
  <2>3. \E pc : IssuerAt(d, pc)
    BY ZenonT(40), <1>7 DEF RecordPayment, Ask
  <2>4. UNCHANGED <<rows, credits, crediter, reversed>>
    BY ZenonT(40), <1>7 DEF RecordPayment
  <2> QED BY ZenonT(40), <2>2, <2>3, <2>4 DEF IssuerAt, rows, Shape
<1>8. CASE MarkReceiptIssued(d)
  BY <1>8, Zenon DEF MarkReceiptIssued, IssuerAt, books, Shape
<1>9. CASE BlockReceipt(d)
  BY <1>9 DEF BlockReceipt, Parked, IssuerAt, books, Shape
<1>10. CASE ReleaseReceipt(d)
  BY ZenonT(40), <1>10 DEF ReleaseReceipt, Unissued, books, Shape
<1>11. CASE StopIssuer(d)
  BY ZenonT(40), <1>11 DEF StopIssuer, Unissued, rows, books, Shape
<1> QED BY ZenonT(40), <1>1, <1>2, <1>3, <1>4, <1>5, <1>6, <1>7, <1>8, <1>9, <1>10, <1>11 DEF IssuerStep

LEMMA CrediterShape ==
  ASSUME Shape, NEW e \in Crediters, CrediterStep(e) \/ StopCrediter(e)
  PROVE  Shape'
<1>1. CASE ListDueRefunds(e)
  BY <1>1 DEF ListDueRefunds, Uncredited, rows, books, Shape
<1>2. CASE ClaimRefund(e)
  BY <1>2 DEF ClaimRefund, CrediterAt, books, Shape
<1>3. CASE GetReceipt(e)
  BY <1>3 DEF GetReceipt, CrediterAt, rows, books, Shape
<1>4. CASE Reread(e)
  BY <1>4 DEF Reread, CrediterAt, rows, books, Shape
<1>5. CASE ParkReceipt(e)
  BY <1>5 DEF ParkReceipt, Parked, CrediterAt, books, Shape
<1>6. CASE InvoiceWithPayments(e)
  BY <1>6 DEF InvoiceWithPayments, CrediterAt, rows, books, Shape
<1>7. CASE GetCredit(e)
  BY <1>7 DEF GetCredit, CrediterAt, rows, books, Shape
<1>8. CASE CreateCredit(e)
  BY <1>8 DEF CreateCredit, CrediterAt, rows, Shape
<1>9. CASE SetRefundCredit(e)
  BY <1>9 DEF SetRefundCredit, WriteRefund, CrediterAt, books, Shape
<1>10. CASE MarkCreditSent(e)
  BY <1>10 DEF MarkCreditSent, CrediterAt, rows, Shape
<1>11. CASE RefundPayment(e)
  <2> DEFINE i == crediter[e].ref
             p == Payable(crediter[e].pays, crediter[e].amount)
             v == GivenBack(invoices[i], p, crediter[e].amount)
  <2>1. invoices' \in {invoices, [invoices EXCEPT ![i] = v]} /\ credits' = credits
    BY ZenonT(40), <1>11 DEF RefundPayment, AskBooks, books
  <2>2. i \in Ids => DOMAIN v = DOMAIN NoInvoice
    BY ZenonT(40), AskedShape
  <2> HIDE DEF v
  <2>3. DOMAIN invoices' = Ids /\ \A j \in Ids : DOMAIN invoices'[j] = {"state", "pays", "owed", "back"}
    BY <2>1, <2>2, InvoiceShape
  <2>4. \E pc : CrediterAt(e, pc)
    BY <1>11, ZenonT(60) DEF RefundPayment, AskBooks
  <2>5. UNCHANGED <<rows, issuer, reversed>>
    BY <1>11 DEF RefundPayment
  <2> QED BY SMTT(40), <2>1, <2>3, <2>4, <2>5 DEF CrediterAt, rows, Shape
<1>12. CASE ApplyCredit(e)
  <2> DEFINE i == crediter[e].ref
             a == Least({crediter[e].amount, crediter[e].owed, crediter[e].left})
             v == Credited(invoices[i], a)
             crd == [credits EXCEPT ![crediter[e].credit].left = @ - a]
  <2>1. invoices' \in {invoices, [invoices EXCEPT ![i] = v]} /\ credits' \in {credits, crd}
    BY ZenonT(40), <1>12 DEF ApplyCredit, AskBooks, books
  <2>2. i \in Ids => DOMAIN v = DOMAIN NoInvoice
    BY AskedShape
  <2>3. DOMAIN credits' = Notes /\ \A c \in Notes : DOMAIN credits'[c] = {"state", "left"}
    BY <2>1 DEF Shape
  <2> HIDE DEF v, crd
  <2>4. DOMAIN invoices' = Ids /\ \A j \in Ids : DOMAIN invoices'[j] = {"state", "pays", "owed", "back"}
    BY <2>1, <2>2, InvoiceShape
  <2>5. \E pc : CrediterAt(e, pc)
    BY <1>12 DEF ApplyCredit, AskBooks
  <2>6. UNCHANGED <<rows, issuer, reversed>>
    BY <1>12 DEF ApplyCredit
  <2> QED BY ZenonT(40), <2>3, <2>4, <2>5, <2>6 DEF CrediterAt, rows, Shape
<1>13. CASE MarkRefundIssued(e)
  BY <1>13, Zenon DEF MarkRefundIssued, WriteRefund, CrediterAt, books, Shape
<1>14. CASE ReversePlan(e)
  BY <1>14 DEF ReversePlan, CrediterAt, rows, books, Shape
<1>15. CASE BlockRefund(e)
  BY <1>15 DEF BlockRefund, WriteRefund, CrediterAt, books, Shape
<1>16. CASE ReleaseRefund(e)
  BY SMTT(40), <1>16 DEF ReleaseRefund, WriteRefund, Uncredited, books, Shape
<1>17. CASE StopCrediter(e)
  BY ZenonT(40), <1>17 DEF StopCrediter, Uncredited, rows, books, Shape
<1> QED BY ZenonT(40), <1>1, <1>2, <1>3, <1>4, <1>5, <1>6, <1>7, <1>8, <1>9, <1>10, <1>11, <1>12, <1>13, <1>14, <1>15, <1>16, <1>17 DEF CrediterStep

LEMMA ShapeStep == Shape /\ [Next]_vars => Shape'
<1> SUFFICES ASSUME Shape, [Next]_vars PROVE Shape'
  OBVIOUS
<1>1. CASE \E d \in Issuers : IssuerStep(d) \/ StopIssuer(d)
  BY <1>1, IssuerShape
<1>2. CASE \E e \in Crediters : CrediterStep(e) \/ StopCrediter(e)
  BY ZenonT(40), <1>2, CrediterShape
<1>3. CASE \E i \in Ids : DeleteInvoice(i)
  <2>1. PICK i \in Ids : DeleteInvoice(i)
    BY <1>3
  <2>2. invoices' = [invoices EXCEPT ![i] = [invoices[i] EXCEPT !.state = "deleted"]]
    BY <2>1 DEF DeleteInvoice
  <2>3. DOMAIN [invoices[i] EXCEPT !.state = "deleted"] = DOMAIN NoInvoice
    BY DEF Shape, NoInvoice
  <2>4. DOMAIN invoices' = Ids /\ \A j \in Ids : DOMAIN invoices'[j] = {"state", "pays", "owed", "back"}
    BY <2>2, <2>3, InvoiceShape, Zenon
  <2>5. UNCHANGED <<rows, credits, issuer, crediter, reversed>>
    BY <2>1 DEF DeleteInvoice
  <2> QED BY <2>4, <2>5 DEF rows, Shape
<1>4. CASE \E c \in Notes : DeleteCredit(c)
  BY ZenonT(40), <1>4 DEF DeleteCredit, rows, Shape
<1>5. CASE \E a \in Refundable : RecordRefund(a)
  BY <1>5 DEF RecordRefund, books, Shape
<1>6. CASE DeleteRefund \/ RequeueRefund \/ RefundLeaseLapses
  BY <1>6, Zenon DEF DeleteRefund, RequeueRefund, RefundLeaseLapses, books, Shape
<1>7. CASE RequeueReceipt \/ ReceiptLeaseLapses
  BY <1>7 DEF RequeueReceipt, ReceiptLeaseLapses, books, Shape
<1>8. CASE UNCHANGED vars
  BY <1>8, Zenon DEF vars, Shape
<1> QED BY <1>1, <1>2, <1>3, <1>4, <1>5, <1>6, <1>7, <1>8 DEF Next
-----------------------------------------------------------------------------
LEMMA StaleStays == stale /\ [Next]_vars => stale'
<1> SUFFICES ASSUME stale, [Next]_vars PROVE stale'
  OBVIOUS
<1>1. ASSUME NEW d \in Issuers, IssuerStep(d) \/ StopIssuer(d) PROVE stale'
  BY <1>1, Zenon DEF IssuerStep, ListDueReceipts, ClaimReceipt, GetInvoice, CreateInvoice, SetReceiptInvoice,
     MarkSent, RecordPayment, MarkReceiptIssued, BlockReceipt, ReleaseReceipt, StopIssuer
<1>2. ASSUME NEW e \in Crediters, CrediterStep(e) \/ StopCrediter(e) PROVE stale'
  BY <1>2, Zenon DEF CrediterStep, ListDueRefunds, ClaimRefund, GetReceipt, Reread, ParkReceipt,
     InvoiceWithPayments, GetCredit, CreateCredit, SetRefundCredit, MarkCreditSent, RefundPayment,
     ApplyCredit, MarkRefundIssued, ReversePlan, BlockRefund, ReleaseRefund, StopCrediter
<1> QED BY <1>1, <1>2, Zenon DEF Next, vars, DeleteInvoice, DeleteCredit, RecordRefund, DeleteRefund,
           RequeueReceipt, RequeueRefund, ReceiptLeaseLapses, RefundLeaseLapses

LEMMA InitIInv == Init => IInv
<1> SUFFICES ASSUME Init PROVE IInv
  BY SMTT(40)
<1>1. Shape
  BY ZenonT(40) DEF Init, Shape, NoInvoice, NoCredit, Unissued, Uncredited
<1>2. ReceiptOk
  BY ZenonT(40) DEF Init, ReceiptOk, Working, Knows, SentIsNamed, NoInvoice, Unissued
<1>3. CreditIsNamed /\ \A e \in Crediters : ~Busy(e)
  BY ZenonT(40) DEF Init, CreditIsNamed, Busy, NoCredit, Uncredited
<1>4. RowOk
  BY SMTT(40) DEF Init, RowOk, NotReversed
<1> QED BY <1>1, <1>2, <1>3, <1>4 DEF IInv, Sound, RefundOk

LEMMA NextIInv == IInv /\ [Next]_vars => IInv'
<1> SUFFICES ASSUME IInv, [Next]_vars PROVE IInv'
  OBVIOUS
<1>1. Shape /\ Shape'
  BY ShapeStep DEF IInv
<1> SUFFICES ASSUME ~stale' PROVE ReceiptOk' /\ RefundOk'
  BY <1>1 DEF IInv, Sound
<1>2. ReceiptOk /\ RefundOk
  BY ZenonT(40), StaleStays DEF IInv, Sound
<1>3. ASSUME NEW d \in Issuers, IssuerStep(d) \/ StopIssuer(d) PROVE ReceiptOk' /\ RefundOk'
  BY ZenonT(40), <1>1, <1>2, <1>3, ListDueReceiptsKeeps, ClaimReceiptKeeps, GetInvoiceKeeps, CreateInvoiceKeeps,
     SetReceiptInvoiceKeeps, MarkSentKeeps, RecordPaymentKeeps, MarkReceiptIssuedKeeps,
     BlockReceiptKeeps, ReleaseReceiptKeeps, StopIssuerKeeps DEF IssuerStep
<1>4. ASSUME NEW e \in Crediters, CrediterStep(e) \/ StopCrediter(e) PROVE ReceiptOk' /\ RefundOk'
  BY ZenonT(40), <1>1, <1>2, <1>4, ListDueRefundsKeeps, ClaimRefundKeeps, GetReceiptKeeps, RereadKeeps,
     ParkReceiptKeeps, InvoiceWithPaymentsKeeps, GetCreditKeeps, CreateCreditKeeps,
     SetRefundCreditKeeps, MarkCreditSentKeeps, RefundPaymentKeeps, ApplyCreditKeeps,
     MarkRefundIssuedKeeps, ReversePlanKeeps, BlockRefundKeeps, ReleaseRefundKeeps,
     StopCrediterKeeps DEF CrediterStep
<1>5. CASE UNCHANGED vars
  <2>1. ReceiptCalm /\ RefundCalm /\ issuer' = issuer /\ crediter' = crediter
    BY <1>5, Zenon DEF vars, ReceiptCalm, RefundCalm
  <2> QED BY <1>2, <2>1, ReceiptStill, RefundStill
<1> QED BY SMTT(40), <1>1, <1>2, <1>3, <1>4, <1>5, OthersKeep, ReceiptLeaseLapsesKeeps, RefundLeaseLapsesKeeps,
           DeleteRefundKeeps, RecordRefundKeeps, RequeueRefundKeeps DEF Next

LEMMA Invariance == Spec => []IInv
BY InitIInv, NextIInv, PTL DEF Spec

\* A number is drawn only for the document its row names: whatever the drainers
\* of receipts.go and refunds.go do, for any number of them and any failures.
THEOREM Numbered == Spec => []NumberedIsKnown
<1>1. IInv => NumberedIsKnown
  BY Zenon DEF IInv, Sound, ReceiptOk, RefundOk, SentIsNamed, CreditIsNamed, NumberedIsKnown
<1> QED BY <1>1, Invariance, PTL

\* reversePlan takes the period of a refund back at most once, although it is
\* not idempotent and its errors are only logged.
THEOREM TakenOnce == Spec => []PeriodTakenOnce
<1>1. IInv => PeriodTakenOnce
  BY DEF IInv, Sound, RefundOk, RowOk, PeriodTakenOnce
<1> QED BY <1>1, Invariance, PTL

\* Neither BlockReceipt nor any other write to the row takes an issued receipt
\* back, stale drainers included.
THEOREM IssuedForGood == Spec => IssuedStays
<1>1. Shape /\ [Next]_vars => [receipt.status = "issued" => receipt'.status = "issued"]_vars
  <2> SUFFICES ASSUME Shape, Next, receipt.status = "issued" PROVE receipt'.status = "issued"
    BY DEF vars
  <2>1. ASSUME NEW d \in Issuers, IssuerStep(d) \/ StopIssuer(d) PROVE receipt'.status = "issued"
    BY <2>1, Zenon DEF IssuerStep, ListDueReceipts, ClaimReceipt, GetInvoice, CreateInvoice,
       SetReceiptInvoice, MarkSent, RecordPayment, MarkReceiptIssued, BlockReceipt, ReleaseReceipt,
       StopIssuer, Parked, rows, Shape
  <2>2. ASSUME NEW e \in Crediters, CrediterStep(e) \/ StopCrediter(e) PROVE receipt'.status = "issued"
    BY <2>2, Zenon DEF CrediterStep, ListDueRefunds, ClaimRefund, GetReceipt, Reread, ParkReceipt,
       InvoiceWithPayments, GetCredit, CreateCredit, SetRefundCredit, MarkCreditSent, RefundPayment,
       ApplyCredit, MarkRefundIssued, ReversePlan, BlockRefund, ReleaseRefund, StopCrediter,
       Parked, rows, Shape
  <2> QED BY <2>1, <2>2 DEF Next, DeleteInvoice, DeleteCredit, RecordRefund, DeleteRefund, RequeueReceipt,
             RequeueRefund, ReceiptLeaseLapses, RefundLeaseLapses, rows, Shape
<1>2. Spec => []Shape
  BY Invariance, PTL DEF IInv
<1> QED BY <1>1, <1>2, PTL DEF Spec, IssuedStays
-----------------------------------------------------------------------------
(* The figures. *)

\* Where a crediter is at work on an invoice, and where it has a credit note.
AtInvoice == {"invoice", "getcredit", "newcredit", "setcredit", "sendcredit", "refund", "reget", "apply", "mark"}
AtNote == {"getcredit", "setcredit", "sendcredit", "refund", "reget", "apply", "mark"}

Figures(v) ==
    /\ v.state \in {"none", "draft", "sent", "deleted"}
    /\ v.pays \in Seq(Int) /\ v.owed \in Int /\ v.back \in Int

Sums(w) ==
    /\ w.n \in Nat /\ w.amount \in 1 .. Amount
    /\ w.credit \in {0} \cup Notes /\ (w.pc \in AtNote => w.credit # 0)
    /\ w.ref \in {0} \cup Ids /\ (w.pc \in AtInvoice => w.ref # 0)
    /\ w.owed \in Int /\ w.left \in Int

Types ==
    /\ receipt.ref \in {0} \cup Ids /\ \A d \in Issuers : issuer[d].ref \in {0} \cup Ids
    /\ refund.amount \in 1 .. Amount /\ refund.credit \in {0} \cup Notes
    /\ \A i \in Ids : Figures(invoices[i])
    /\ \A c \in Notes : credits[c].left \in Int
    /\ \A e \in Crediters : Sums(crediter[e])

LEMMA LeastIs ==
  ASSUME NEW x \in Int, NEW y \in Int, NEW z \in Int
  PROVE  /\ Least({x, y, z}) \in {x, y, z}
         /\ Least({x, y, z}) <= x /\ Least({x, y, z}) <= y /\ Least({x, y, z}) <= z
<1>1. \E m \in {x, y, z} : \A k \in {x, y, z} : m <= k
  OBVIOUS
<1>2. Least({x, y, z}) \in {x, y, z} /\ \A k \in {x, y, z} : Least({x, y, z}) <= k
  BY <1>1, Zenon DEF Least
<1> QED BY <1>2, Zenon

\* Giving money back of one payment leaves the payments as many as they were.
LEMMA PaysAfter ==
  ASSUME NEW s \in Seq(Int), NEW p, NEW a \in Int
  PROVE  /\ [s EXCEPT ![p] = s[p] + a] \in Seq(Int)
         /\ Len([s EXCEPT ![p] = s[p] + a]) = Len(s)
         /\ s # <<>> => [s EXCEPT ![p] = s[p] + a] # <<>>
<1>1. PICK n \in Nat : n = Len(s)
  OBVIOUS
<1>2. PICK t : t = [s EXCEPT ![p] = s[p] + a]
  BY Zenon
<1>3. DOMAIN s = 1 .. n /\ \A k \in 1 .. n : s[k] \in Int
  BY <1>1
<1>4. t = [k \in 1 .. n |-> IF k = p THEN s[p] + a ELSE s[k]]
  BY <1>2, <1>3, Zenon
<1>5. \A k \in 1 .. n : t[k] \in Int
  BY <1>3, <1>4
<1>6. t \in Seq(Int) /\ Len(t) = n
  BY <1>4, <1>5
<1>7. s # <<>> => t # <<>>
  BY <1>1, <1>6
<1> QED BY <1>1, <1>2, <1>6, <1>7, Zenon

LEMMA AskedFigures ==
  ASSUME Shape, NEW i \in Ids, Figures(invoices[i])
  PROVE  /\ Figures(Sent(invoices[i])) /\ Figures(Paid(invoices[i]))
         /\ \A p : \A a \in Int : Figures(GivenBack(invoices[i], p, a))
         /\ \A a \in Int : Figures(Credited(invoices[i], a))
<1>1. Amount \in Int
  BY SMTT(40), BillingAssumption
<1>2. DOMAIN invoices[i] = {"state", "pays", "owed", "back"}
  BY DEF Shape
<1>3. Figures(Sent(invoices[i]))
  BY <1>1, <1>2 DEF Figures, Sent
<1>4. Append(invoices[i].pays, 0) \in Seq(Int)
  BY DEF Figures
<1>5. Figures(Paid(invoices[i]))
  BY SMTT(40), <1>1, <1>2, <1>4 DEF Figures, Paid
<1>6. ASSUME NEW p, NEW a \in Int PROVE Figures(GivenBack(invoices[i], p, a))
  <2>1. [invoices[i].pays EXCEPT ![p] = invoices[i].pays[p] + a] \in Seq(Int)
    BY PaysAfter, Zenon DEF Figures
  <2> DEFINE t == [invoices[i].pays EXCEPT ![p] = invoices[i].pays[p] + a]
  <2> HIDE DEF t
  <2>2. /\ GivenBack(invoices[i], p, a).pays = t
        /\ GivenBack(invoices[i], p, a).state = invoices[i].state
        /\ GivenBack(invoices[i], p, a).owed = invoices[i].owed + a
        /\ GivenBack(invoices[i], p, a).back = invoices[i].back + a
    BY <1>2 DEF GivenBack, t
  <2>3. invoices[i].owed + a \in Int /\ invoices[i].back + a \in Int
    BY DEF Figures
  <2> QED BY <2>1, <2>2, <2>3, Zenon DEF Figures, t
<1>7. ASSUME NEW a \in Int PROVE Figures(Credited(invoices[i], a))
  BY <1>2 DEF Figures, Credited
<1> QED BY <1>3, <1>5, <1>6, <1>7

\* The invoices after a request, answered or not.
LEMMA InvoiceFigures ==
  ASSUME Types, NEW i, NEW v, i \in Ids => Figures(v), Shape,
         invoices' \in {invoices, [invoices EXCEPT ![i] = v]}
  PROVE  \A j \in Ids : Figures(invoices'[j])
<1>1. \A j \in Ids : Figures(invoices[j])
  BY DEF Types
<1>2. \A j \in Ids : invoices'[j] = invoices[j] \/ (j = i /\ invoices'[j] = v)
  BY DEF Shape
<1> QED BY <1>1, <1>2, Zenon

LEMMA IssuerTypes ==
  ASSUME Types, Shape, NEW d \in Issuers, IssuerStep(d) \/ StopIssuer(d)
  PROVE  Types'
<1>1. UNCHANGED <<refund, credits, crediter>>
  BY Zenon DEF IssuerStep, ListDueReceipts, ClaimReceipt, GetInvoice, CreateInvoice, SetReceiptInvoice,
     MarkSent, RecordPayment, MarkReceiptIssued, BlockReceipt, ReleaseReceipt, StopIssuer, rows, books
<1>2. /\ refund'.amount \in 1 .. Amount /\ refund'.credit \in {0} \cup Notes
      /\ \A c \in Notes : credits'[c].left \in Int
      /\ \A e \in Crediters : Sums(crediter'[e])
  BY <1>1, Zenon DEF Types
<1>3. ASSUME NEW pc, IssuerAt(d, pc) PROVE \A f \in Issuers : issuer'[f].ref \in {0} \cup Ids
  <2>1. \A f \in Issuers : issuer'[f].ref = issuer[f].ref
    BY <1>3, IssuerAtOnly, Zenon
  <2> QED BY <2>1, Zenon DEF Types
<1> DEFINE Good == /\ receipt'.ref \in {0} \cup Ids /\ \A f \in Issuers : issuer'[f].ref \in {0} \cup Ids
                   /\ \A j \in Ids : Figures(invoices'[j])
<1>4. ASSUME ListDueReceipts(d) PROVE Good
  <2>1. UNCHANGED <<receipt, invoices>>
    BY ZenonT(40), <1>4 DEF ListDueReceipts, rows, books
  <2>2. \A f \in Issuers : issuer'[f].ref \in {issuer[f].ref, receipt.ref}
    BY <1>4 DEF ListDueReceipts, Shape
  <2> QED BY <2>1, <2>2, Zenon DEF Types
<1>5. ASSUME ClaimReceipt(d) \/ BlockReceipt(d) PROVE Good
  <2>1. invoices' = invoices /\ receipt'.ref = receipt.ref
    BY <1>5, ParkedOnly DEF ClaimReceipt, BlockReceipt, books, Shape
  <2>2. \E pc : IssuerAt(d, pc)
    BY <1>5, Zenon DEF ClaimReceipt, BlockReceipt
  <2> QED BY <1>3, <2>1, <2>2, Zenon DEF Types
<1>6. ASSUME GetInvoice(d) PROVE Good
  <2>1. UNCHANGED <<receipt, invoices>>
    BY <1>6 DEF GetInvoice, rows, books
  <2>2. \E pc : IssuerAt(d, pc)
    BY <1>6, Zenon DEF GetInvoice
  <2> QED BY <1>3, <2>1, <2>2, Zenon DEF Types
<1>7. ASSUME CreateInvoice(d) PROVE Good
  <2>1. receipt' = receipt
    BY <1>7 DEF CreateInvoice, rows
  <2>2. PICK i \in Ids :
           /\ invoices' \in {invoices, [invoices EXCEPT ![i] = [invoices[i] EXCEPT !.state = "draft"]]}
           /\ issuer' = [issuer EXCEPT ![d] = [pc |-> "ref", ref |-> i]] \/ \E pc : IssuerAt(d, pc)
    BY <1>7 DEF CreateInvoice
  <2>3. \A f \in Issuers : issuer'[f].ref \in {0} \cup Ids
    <3>1. CASE issuer' = [issuer EXCEPT ![d] = [pc |-> "ref", ref |-> i]]
      BY <3>1 DEF Shape, Types
    <3> QED BY <1>3, <2>2, <3>1, Zenon
  <2>4. Figures([invoices[i] EXCEPT !.state = "draft"])
    BY DEF Shape, Types, Figures
  <2>5. \A j \in Ids : Figures(invoices'[j])
    BY <2>2, <2>4, InvoiceFigures, Zenon
  <2> QED BY <2>1, <2>3, <2>5, Zenon DEF Types
<1>8. ASSUME SetReceiptInvoice(d) \/ MarkReceiptIssued(d) PROVE Good
  <2>1. invoices' = invoices /\ receipt'.ref \in {receipt.ref, issuer[d].ref}
    BY <1>8, Zenon DEF SetReceiptInvoice, MarkReceiptIssued, books, Shape
  <2>2. \E pc : IssuerAt(d, pc)
    BY <1>8, Zenon DEF SetReceiptInvoice, MarkReceiptIssued
  <2> QED BY <1>3, <2>1, <2>2, Zenon DEF Types
<1>9. ASSUME MarkSent(d) \/ RecordPayment(d) PROVE Good
  <2> DEFINE i == issuer[d].ref
  <2>1. /\ receipt' = receipt
        /\ \/ invoices' \in {invoices, [invoices EXCEPT ![i] = Sent(invoices[i])]}
           \/ invoices' \in {invoices, [invoices EXCEPT ![i] = Paid(invoices[i])]}
    BY <1>9, Zenon DEF MarkSent, RecordPayment, Ask, rows
  <2>2. i \in Ids => Figures(Sent(invoices[i])) /\ Figures(Paid(invoices[i]))
    BY AskedFigures, Zenon DEF Types
  <2>3. \A j \in Ids : Figures(invoices'[j])
    BY <2>1, <2>2, InvoiceFigures, Zenon
  <2>4. \E pc : IssuerAt(d, pc)
    BY <1>9, Zenon DEF MarkSent, RecordPayment, Ask
  <2> QED BY <1>3, <2>1, <2>3, <2>4, Zenon DEF Types
<1>10. ASSUME ReleaseReceipt(d) \/ StopIssuer(d) PROVE Good
  <2>1. invoices' = invoices /\ receipt'.ref = receipt.ref
    BY <1>10 DEF ReleaseReceipt, StopIssuer, rows, books, Shape
  <2>2. \A f \in Issuers : issuer'[f].ref \in {issuer[f].ref, 0}
    BY <1>10 DEF ReleaseReceipt, StopIssuer, Unissued, Shape
  <2> QED BY <2>1, <2>2, Zenon DEF Types
<1>11. Good
  BY <1>4, <1>5, <1>6, <1>7, <1>8, <1>9, <1>10, Zenon DEF IssuerStep
<1> QED BY <1>2, <1>11, Zenon DEF Types

\* A crediter that goes on where it may.
LEMMA CrediterAtSums ==
  ASSUME Types, Shape, NEW e \in Crediters, NEW pc, CrediterAt(e, pc),
         pc \in AtNote => crediter[e].pc \in AtNote, pc \in AtInvoice => crediter[e].pc \in AtInvoice
  PROVE  \A f \in Crediters : Sums(crediter'[f])
<1>1. \A f \in Crediters : f # e => crediter'[f] = crediter[f]
  BY CrediterAtOnly, Zenon
<1>2. /\ crediter'[e].pc = pc /\ crediter'[e].n = crediter[e].n
      /\ crediter'[e].amount = crediter[e].amount /\ crediter'[e].credit = crediter[e].credit
      /\ crediter'[e].ref = crediter[e].ref /\ crediter'[e].owed = crediter[e].owed
      /\ crediter'[e].left = crediter[e].left
  BY DEF CrediterAt, Shape
<1>3. Sums(crediter'[e])
  BY <1>2, Zenon DEF Types, Sums
<1> QED BY <1>1, <1>3, Zenon DEF Types

LEMMA UncreditedSums == Sums(Uncredited)
<1>1. Amount \in 1 .. Amount
  BY BillingAssumption
<1> QED BY <1>1 DEF Sums, Uncredited, AtNote, AtInvoice

\* A request about the books, answered or not.
LEMMA AskBooksSums ==
  ASSUME Types, Shape, NEW e \in Crediters, crediter[e].pc \in {"refund", "apply"},
         NEW possible, NEW inv, NEW crd, NEW next \in {"reget", "apply", "mark"},
         AskBooks(e, possible, inv, crd, next)
  PROVE  \A f \in Crediters : Sums(crediter'[f])
<1>1. PICK pc \in {"reget", "apply", "mark", "release", "block"} : CrediterAt(e, pc)
  BY Zenon DEF AskBooks
<1>2. crediter[e].pc \in AtNote /\ crediter[e].pc \in AtInvoice
  BY DEF AtNote, AtInvoice
<1> QED BY <1>1, <1>2, CrediterAtSums, Zenon

LEMMA CrediterTypes ==
  ASSUME Types, Shape, NEW e \in Crediters, CrediterStep(e) \/ StopCrediter(e)
  PROVE  Types'
<1> DEFINE Known == /\ receipt'.ref \in {0} \cup Ids /\ \A d \in Issuers : issuer'[d].ref \in {0} \cup Ids
                    /\ refund'.amount \in 1 .. Amount /\ refund'.credit \in {0} \cup Notes
           Kept == /\ \A i \in Ids : Figures(invoices'[i])
                   /\ \A c \in Notes : credits'[c].left \in Int
           Summed == \A f \in Crediters : Sums(crediter'[f])
<1>1. receipt'.ref = receipt.ref /\ issuer' = issuer
  <2>1. receipt' = receipt \/ receipt' = Parked(receipt)
    BY Zenon DEF CrediterStep, ListDueRefunds, ClaimRefund, GetReceipt, Reread, ParkReceipt,
       InvoiceWithPayments, GetCredit, CreateCredit, SetRefundCredit, MarkCreditSent, RefundPayment,
       ApplyCredit, MarkRefundIssued, ReversePlan, BlockRefund, ReleaseRefund, StopCrediter, rows
  <2>2. issuer' = issuer
    BY Zenon DEF CrediterStep, ListDueRefunds, ClaimRefund, GetReceipt, Reread, ParkReceipt,
       InvoiceWithPayments, GetCredit, CreateCredit, SetRefundCredit, MarkCreditSent, RefundPayment,
       ApplyCredit, MarkRefundIssued, ReversePlan, BlockRefund, ReleaseRefund, StopCrediter
  <2> QED BY <2>1, <2>2, ParkedOnly, Zenon
<1>2. ASSUME refund'.amount = refund.amount, refund'.credit \in {refund.credit, crediter[e].credit, 0} PROVE Known
  BY <1>1, <1>2, Zenon DEF Types, Sums
<1>3. ASSUME UNCHANGED <<invoices, credits>> PROVE Kept
  BY <1>3, Zenon DEF Types
<1>4. ASSUME NEW w, Sums(w), crediter' = [crediter EXCEPT ![e] = w] PROVE Summed
  <2>1. \A f \in Crediters : crediter'[f] = crediter[f] \/ crediter'[f] = w
    BY SMTT(40), <1>4 DEF Shape
  <2> QED BY <1>4, <2>1, ZenonT(60) DEF Types
<1>5. Sums(crediter[e]) /\ DOMAIN crediter[e] = {"pc", "n", "amount", "credit", "ref", "owed", "left", "pays"}
  BY ZenonT(40) DEF Types, Shape
<1>6. ASSUME \E pc \in {"release", "block", "idle", "receipt", "park", "close", "plan"} : CrediterAt(e, pc) PROVE Summed
  BY <1>6, CrediterAtSums DEF AtNote, AtInvoice
<1>7. ASSUME ListDueRefunds(e) PROVE Known /\ Kept /\ Summed
  <2>1. UNCHANGED <<refund, invoices, credits>>
    BY <1>7 DEF ListDueRefunds, rows, books
  <2>2. Sums([Uncredited EXCEPT !.pc = "claim", !.n = refund.n, !.amount = refund.amount, !.credit = refund.credit])
    BY DEF Types, Shape, Sums, Uncredited, AtNote, AtInvoice
  <2> QED BY <1>2, <1>3, <1>4, <1>7, <2>1, <2>2, Zenon DEF ListDueRefunds
<1>8. ASSUME ClaimRefund(e) PROVE Known /\ Kept /\ Summed
  <2>1. UNCHANGED <<invoices, credits>> /\ refund'.amount = refund.amount /\ refund'.credit = refund.credit
    BY <1>8 DEF ClaimRefund, books, Shape
  <2>2. \E pc \in {"receipt", "idle"} : CrediterAt(e, pc)
    BY <1>8, Zenon DEF ClaimRefund
  <2> QED BY <1>2, <1>3, <1>6, <2>1, <2>2, Zenon
<1>9. ASSUME GetReceipt(e) PROVE Known /\ Kept /\ Summed
  <2> DEFINE w == [crediter[e] EXCEPT !.ref = receipt.ref, !.pc = IF receipt.ref = 0 THEN "reread" ELSE "invoice"]
  <2>1. UNCHANGED <<refund, invoices, credits>>
    BY <1>9 DEF GetReceipt, rows, books
  <2>2. crediter' = [crediter EXCEPT ![e] = w] \/ CrediterAt(e, "release")
    BY <1>9, Zenon DEF GetReceipt
  <2>3. Sums(w)
    BY <1>5 DEF Types, Sums, AtNote, AtInvoice
  <2> HIDE DEF w
  <2> QED BY <1>2, <1>3, <1>4, <1>6, <2>1, <2>2, <2>3, Zenon
<1>10. ASSUME Reread(e) \/ ParkReceipt(e) PROVE Known /\ Kept /\ Summed
  <2>1. UNCHANGED <<refund, invoices, credits>>
    BY <1>10, ZenonT(60) DEF Reread, ParkReceipt, rows, books
  <2>2. \E pc \in {"release", "park", "close"} : CrediterAt(e, pc)
    BY ZenonT(40), <1>10 DEF Reread, ParkReceipt
  <2> QED BY <1>2, <1>3, <1>6, <2>1, <2>2, Zenon
<1>11. ASSUME InvoiceWithPayments(e) PROVE Known /\ Kept /\ Summed
  <2> DEFINE i == crediter[e].ref
             pc == IF invoices[i].state = "deleted" THEN "block"
                   ELSE IF crediter[e].pc = "reget" THEN "apply"
                   ELSE IF crediter[e].credit # 0 THEN "getcredit" ELSE "newcredit"
             w == [crediter[e] EXCEPT !.pc = pc, !.owed = Balance(i), !.pays = invoices[i].pays]
  <2>1. UNCHANGED <<refund, invoices, credits>>
    BY <1>11 DEF InvoiceWithPayments, rows, books
  <2>2. crediter' = [crediter EXCEPT ![e] = w] \/ \E q \in {"release", "block"} : CrediterAt(e, q)
    BY <1>11, Zenon DEF InvoiceWithPayments
  <2>3. Sums(w)
    <3>1. crediter[e].pc \in {"invoice", "reget"}
      BY ZenonT(40), <1>11 DEF InvoiceWithPayments
    <3>2. i \in Ids
      BY ZenonT(40), <1>5, <3>1 DEF Sums, AtInvoice
    <3>3. Balance(i) \in Int
      BY SMTT(40), <3>2 DEF Types, Figures, Balance
    <3>4. pc \in AtNote => crediter[e].credit # 0
      BY <1>5, <3>1 DEF Sums, AtNote
    <3> HIDE DEF pc
    <3>5. /\ w.pc = pc /\ w.n = crediter[e].n /\ w.amount = crediter[e].amount /\ w.credit = crediter[e].credit
          /\ w.ref = crediter[e].ref /\ w.owed = Balance(i) /\ w.left = crediter[e].left
      BY <1>5
    <3> HIDE DEF w
    <3>6. w.ref # 0
      BY <3>2, <3>5, Positive, Zenon
    <3> QED BY <1>5, <3>3, <3>4, <3>5, <3>6, Zenon DEF Sums
  <2> HIDE DEF w
  <2> QED BY <1>2, <1>3, <1>4, <1>6, <2>1, <2>2, <2>3, Zenon
<1>12. ASSUME GetCredit(e) PROVE Known /\ Kept /\ Summed
  <2> DEFINE c == crediter[e].credit
             pc == IF credits[c].state = "deleted" THEN "newcredit"
                   ELSE IF credits[c].state = "draft" THEN "sendcredit" ELSE "refund"
             w == [crediter[e] EXCEPT !.left = CreditLeft(c), !.pc = pc]
  <2>1. UNCHANGED <<refund, invoices, credits>>
    BY <1>12 DEF GetCredit, rows, books
  <2>2. crediter' = [crediter EXCEPT ![e] = w] \/ \E q \in {"release", "block"} : CrediterAt(e, q)
    BY <1>12, Zenon DEF GetCredit
  <2>3. Sums(w)
    <3>1. crediter[e].pc = "getcredit"
      BY ZenonT(40), <1>12 DEF GetCredit
    <3>2. c \in Notes /\ crediter[e].ref # 0
      BY ZenonT(40), <1>5, <3>1 DEF Sums, AtNote, AtInvoice
    <3>3. CreditLeft(c) \in Int
      BY <3>2 DEF Types, CreditLeft
    <3> HIDE DEF pc
    <3> QED BY <1>5, <3>2, <3>3, Positive DEF Sums
  <2> HIDE DEF w
  <2> QED BY <1>2, <1>3, <1>4, <1>6, <2>1, <2>2, <2>3, Zenon
<1>13. ASSUME CreateCredit(e) PROVE Known /\ Kept /\ Summed
  <2>1. UNCHANGED <<refund, invoices>> /\ crediter[e].pc = "newcredit"
    BY <1>13, Zenon DEF CreateCredit, rows
  <2>2. PICK c \in Notes :
           /\ credits' \in {credits, [credits EXCEPT ![c] = [state |-> "draft", left |-> crediter[e].amount]]}
           /\ \/ crediter' = [crediter EXCEPT ![e] = [crediter[e] EXCEPT !.pc = "setcredit", !.credit = c]]
              \/ \E pc \in {"release", "block"} : CrediterAt(e, pc)
    BY <1>13, ZenonT(40) DEF CreateCredit
  <2>3. Sums([crediter[e] EXCEPT !.pc = "setcredit", !.credit = c])
    BY <1>5, <2>1, Positive DEF Sums, AtInvoice
  <2>4. crediter[e].amount \in Int
    BY <1>5 DEF Sums
  <2>5. \A k \in Notes : credits'[k].left \in Int
    BY <2>2, <2>4 DEF Types, Shape
  <2>6. Kept
    BY <2>1, <2>5, Zenon DEF Types
  <2> QED BY <1>2, <1>4, <1>6, <2>1, <2>2, <2>3, <2>6, Zenon
<1>14. ASSUME SetRefundCredit(e) \/ MarkRefundIssued(e) PROVE Known /\ Kept /\ Summed
  <2>1. /\ UNCHANGED <<invoices, credits>> /\ refund'.amount = refund.amount
        /\ refund'.credit \in {refund.credit, crediter[e].credit, 0}
    BY <1>14, Zenon DEF SetRefundCredit, MarkRefundIssued, WriteRefund, books, Shape
  <2>2. CASE CrediterAt(e, "sendcredit") /\ crediter[e].pc = "setcredit"
    BY ZenonT(40), <1>2, <1>3, <2>1, <2>2, CrediterAtSums DEF AtNote, AtInvoice
  <2>3. (CrediterAt(e, "sendcredit") /\ crediter[e].pc = "setcredit") \/ \E pc \in {"release", "plan"} : CrediterAt(e, pc)
    BY <1>14, Zenon DEF SetRefundCredit, MarkRefundIssued
  <2> QED BY <1>2, <1>3, <1>6, <2>1, <2>2, <2>3, Zenon
<1>15. ASSUME MarkCreditSent(e) PROVE Known /\ Kept /\ Summed
  <2> DEFINE c == crediter[e].credit
             w == [crediter[e] EXCEPT !.pc = "refund", !.left = credits[c].left]
  <2>1. UNCHANGED <<refund, invoices>> /\ crediter[e].pc = "sendcredit"
    BY <1>15 DEF MarkCreditSent, rows
  <2>2. \A k \in Notes : credits'[k].left = credits[k].left
    BY <1>15 DEF MarkCreditSent, Shape
  <2>3. crediter' = [crediter EXCEPT ![e] = w] \/ \E q \in {"release", "block"} : CrediterAt(e, q)
    BY <1>15, Zenon DEF MarkCreditSent
  <2>4. Sums(w)
    <3>1. c \in Notes /\ crediter[e].ref # 0
      BY ZenonT(40), <1>5, <2>1 DEF Sums, AtNote, AtInvoice
    <3>2. credits[c].left \in Int
      BY <3>1 DEF Types
    <3> QED BY ZenonT(40), <1>5, <3>1, <3>2, Positive DEF Sums
  <2> HIDE DEF w
  <2>5. Kept
    BY <2>1, <2>2, Zenon DEF Types
  <2> QED BY <1>2, <1>4, <1>6, <2>1, <2>3, <2>4, <2>5, Zenon
<1>16. ASSUME RefundPayment(e) PROVE Known /\ Kept /\ Summed
  <2> DEFINE i == crediter[e].ref
             a == crediter[e].amount
             p == Payable(crediter[e].pays, a)
             v == GivenBack(invoices[i], p, a)
             possible == invoices[i].state = "sent" /\ Amount - invoices[i].pays[p] >= a
  <2>1. UNCHANGED refund /\ crediter[e].pc = "refund"
    BY ZenonT(40), <1>16 DEF RefundPayment, rows
  <2>2. \/ CrediterAt(e, "apply") /\ UNCHANGED books
        \/ AskBooks(e, possible, [invoices EXCEPT ![i] = v], credits, "reget")
    BY <1>16, ZenonT(60) DEF RefundPayment
  <2>3. i \in Ids => Figures(v)
    <3>1. a \in 1 .. Amount
      BY Zenon DEF Types, Sums
    <3>2. a \in Int
      BY <3>1, BillingAssumption
    <3>3. i \in Ids => Figures(invoices[i])
      BY Zenon DEF Types
    <3> QED BY <3>2, <3>3, AskedFigures, Zenon
  <2> HIDE DEF v, possible
  <2>4. invoices' \in {invoices, [invoices EXCEPT ![i] = v]} /\ credits' = credits
    BY <2>2 DEF AskBooks, books
  <2>5. \A j \in Ids : Figures(invoices'[j])
    BY <2>3, <2>4, InvoiceFigures, Zenon
  <2>6. Kept
    BY <2>4, <2>5, Zenon DEF Types
  <2>7. ASSUME CrediterAt(e, "apply") PROVE Summed
    BY <2>1, <2>7, CrediterAtSums DEF AtNote, AtInvoice
  <2> QED BY <1>2, <2>1, <2>2, <2>6, <2>7, AskBooksSums, ZenonT(60)
<1>17. ASSUME ApplyCredit(e) PROVE Known /\ Kept /\ Summed
  <2> DEFINE i == crediter[e].ref
             c == crediter[e].credit
             a == Least({crediter[e].amount, crediter[e].owed, crediter[e].left})
             v == Credited(invoices[i], a)
             possible == a <= Balance(i) /\ a <= CreditLeft(c)
             crd == [credits EXCEPT ![c].left = @ - a]
  <2>1. UNCHANGED refund /\ crediter[e].pc = "apply"
    BY <1>17 DEF ApplyCredit, rows
  <2>2. \/ CrediterAt(e, "mark") /\ UNCHANGED books
        \/ AskBooks(e, possible, [invoices EXCEPT ![i] = v], crd, "mark")
    BY ZenonT(40), <1>17 DEF ApplyCredit
  <2>3. a \in Int
    <3>1. crediter[e].amount \in Int /\ crediter[e].owed \in Int /\ crediter[e].left \in Int
      BY <1>5 DEF Sums
    <3>2. a \in {crediter[e].amount, crediter[e].owed, crediter[e].left}
      BY <3>1, LeastIs, Zenon
    <3> QED BY ZenonT(40), <3>1, <3>2
  <2>4. i \in Ids => Figures(v)
    BY <2>3, AskedFigures, Zenon DEF Types
  <2>5. \A k \in Notes : crd[k].left \in Int
    BY SMTT(40), <2>3 DEF Types, Shape
  <2> HIDE DEF v, possible, crd
  <2>6. invoices' \in {invoices, [invoices EXCEPT ![i] = v]} /\ credits' \in {credits, crd}
    BY <2>2 DEF AskBooks, books
  <2>7. \A j \in Ids : Figures(invoices'[j])
    BY <2>4, <2>6, InvoiceFigures, Zenon
  <2>8. Kept
    BY <2>5, <2>6, <2>7, ZenonT(60) DEF Types
  <2>9. ASSUME CrediterAt(e, "mark") PROVE Summed
    BY <2>1, <2>9, CrediterAtSums DEF AtNote, AtInvoice
  <2> QED BY <1>2, <2>1, <2>2, <2>8, <2>9, AskBooksSums, Zenon
<1>18. ASSUME ReversePlan(e) \/ BlockRefund(e) PROVE Known /\ Kept /\ Summed
  <2>1. UNCHANGED <<invoices, credits>> /\ refund'.amount = refund.amount /\ refund'.credit = refund.credit
    BY <1>18 DEF ReversePlan, BlockRefund, WriteRefund, rows, books, Shape
  <2>2. CrediterAt(e, "release")
    BY <1>18 DEF ReversePlan, BlockRefund
  <2> QED BY <1>2, <1>3, <1>6, <2>1, <2>2, Zenon
<1>19. ASSUME ReleaseRefund(e) \/ StopCrediter(e) PROVE Known /\ Kept /\ Summed
  <2>1. UNCHANGED <<invoices, credits>> /\ refund'.amount = refund.amount /\ refund'.credit = refund.credit
    BY <1>19 DEF ReleaseRefund, StopCrediter, WriteRefund, rows, books, Shape
  <2>2. crediter' = [crediter EXCEPT ![e] = Uncredited]
    BY <1>19 DEF ReleaseRefund, StopCrediter
  <2> QED BY <1>2, <1>3, <1>4, <2>1, <2>2, UncreditedSums, Zenon
<1>20. Known /\ Kept /\ Summed
  BY <1>7, <1>8, <1>9, <1>10, <1>11, <1>12, <1>13, <1>14, <1>15, <1>16, <1>17, <1>18, <1>19, Zenon DEF CrediterStep
<1> QED BY <1>20, Zenon DEF Types

LEMMA TypesStep == Types /\ Shape /\ [Next]_vars => Types'
<1> SUFFICES ASSUME Types, Shape, [Next]_vars PROVE Types'
  OBVIOUS
<1>1. CASE \E d \in Issuers : IssuerStep(d) \/ StopIssuer(d)
  BY <1>1, IssuerTypes, Zenon
<1>2. CASE \E e \in Crediters : CrediterStep(e) \/ StopCrediter(e)
  BY <1>2, CrediterTypes, Zenon
<1>3. CASE \E i \in Ids : DeleteInvoice(i)
  <2>1. PICK i \in Ids : DeleteInvoice(i)
    BY <1>3
  <2>2. invoices' = [invoices EXCEPT ![i] = [invoices[i] EXCEPT !.state = "deleted"]]
    BY <2>1 DEF DeleteInvoice
  <2>3. Figures([invoices[i] EXCEPT !.state = "deleted"])
    BY DEF Shape, Types, Figures
  <2>4. \A j \in Ids : Figures(invoices'[j])
    BY <2>2, <2>3, InvoiceFigures, Zenon
  <2>5. UNCHANGED <<receipt, refund, credits, issuer, crediter>>
    BY <2>1 DEF DeleteInvoice, rows
  <2> QED BY <2>4, <2>5, Zenon DEF Types
<1>4. CASE \E c \in Notes : DeleteCredit(c)
  <2>1. \A k \in Notes : credits'[k].left = credits[k].left
    BY <1>4 DEF DeleteCredit, Shape
  <2>2. UNCHANGED <<receipt, refund, invoices, issuer, crediter>>
    BY <1>4 DEF DeleteCredit, rows
  <2> QED BY <2>1, <2>2, Zenon DEF Types
<1>5. CASE (\E a \in Refundable : RecordRefund(a)) \/ DeleteRefund \/ RequeueRefund \/ RefundLeaseLapses
  <2>1. refund'.amount \in 1 .. Amount /\ refund'.credit \in {0} \cup Notes
    <3>1. CASE \E a \in Refundable : RecordRefund(a)
      BY <3>1, BillingAssumption DEF RecordRefund
    <3>2. CASE DeleteRefund \/ RequeueRefund \/ RefundLeaseLapses
      <4>1. refund'.amount = refund.amount /\ refund'.credit = refund.credit
        BY <3>2, Zenon DEF DeleteRefund, RequeueRefund, RefundLeaseLapses, Shape
      <4> QED BY <4>1, Zenon DEF Types
    <3> QED BY <1>5, <3>1, <3>2, Zenon
  <2>2. UNCHANGED <<receipt, invoices, credits, issuer, crediter>>
    BY <1>5 DEF RecordRefund, DeleteRefund, RequeueRefund, RefundLeaseLapses, books
  <2> QED BY <2>1, <2>2, Zenon DEF Types
<1>6. CASE RequeueReceipt \/ ReceiptLeaseLapses
  <2>1. receipt'.ref = receipt.ref
    BY <1>6 DEF RequeueReceipt, ReceiptLeaseLapses, Shape
  <2>2. UNCHANGED <<refund, invoices, credits, issuer, crediter>>
    BY <1>6 DEF RequeueReceipt, ReceiptLeaseLapses, books
  <2> QED BY <2>1, <2>2, Zenon DEF Types
<1>7. CASE UNCHANGED vars
  BY <1>7, Zenon DEF vars, Types
<1> QED BY <1>1, <1>2, <1>3, <1>4, <1>5, <1>6, <1>7, Zenon DEF Next
-----------------------------------------------------------------------------
(* The payment. *)

Blank(v) == v.pays = <<>> /\ v.owed = 0 /\ v.back = 0

\* Before the receipt is issued an invoice that was sent owes the amount, or
\* holds the one payment, and nothing was given back of it.
InvoiceOk(v) ==
    /\ v.state \in {"none", "draft"} => Blank(v)
    /\ v.pays = <<>> => v.owed >= 0
    /\ ~early => Len(v.pays) <= 1
    /\ (~early /\ receipt.status # "issued") =>
           v.back = 0 /\ (v.state = "sent" => v.owed = IF v.pays = <<>> THEN Amount ELSE 0)

Done(i) == i \in Ids /\ (invoices[i].state = "deleted" \/ Settled(i))

\* The invoice an issuer is at work on: it is there, it is paid at most now,
\* and it is settled before it is called issued.
IssuerOk(d) ==
    LET i == issuer[d].ref
    IN /\ issuer[d].pc \in {"get", "send", "pay", "ref"} => i \in Ids /\ invoices[i].state # "none"
       /\ issuer[d].pc = "pay" => /\ invoices[i].state # "draft"
                                  /\ (~early /\ invoices[i].state = "sent") => invoices[i].pays = <<>>
       /\ issuer[d].pc = "mark" => Done(i)
       /\ issuer[d].pc \notin {"idle", "claim", "release"} => receipt.status # "issued"

RowNamed == receipt.ref # 0 => invoices[receipt.ref].state # "none"
IssuedOk == receipt.status = "issued" => Done(receipt.ref)

\* A crediter that saw a payment saw one that is there.
CrediterPaid(e) ==
    /\ crediter[e].pays # <<>> => crediter[e].ref \in Ids /\ invoices[crediter[e].ref].pays # <<>>
    /\ crediter[e].pc \in {"claim", "receipt"} => crediter[e].pays = <<>>
    /\ (Busy(e) /\ ~early) => receipt.status = "issued"

PayOk ==
    /\ \A i \in Ids : InvoiceOk(invoices[i])
    /\ \A d \in Issuers : IssuerOk(d)
    /\ RowNamed /\ IssuedOk
    /\ \A e \in Crediters : CrediterPaid(e)

\* The receipt says what it said, and early is only ever set.
ReceiptSays ==
    /\ receipt'.ref = receipt.ref /\ (receipt'.status = "issued" <=> receipt.status = "issued")
    /\ early => early'

\* What a document may become behind the back of an issuer.
Follows(v, w) ==
    /\ w.state = v.state \/ w.state = "deleted"
    /\ v.pays # <<>> => w.pays # <<>>
    /\ v.owed = 0 => w.pays # <<>> \/ w.owed = 0

\* The drainers go on; an invoice changes at most as a refund changes it.
LEMMA PayFollows ==
  ASSUME PayOk, Types, ReceiptSays,
         \A i \in Ids : Follows(invoices[i], invoices'[i]) /\ InvoiceOk(invoices[i])',
         (~early /\ receipt.status # "issued") => \A i \in Ids : invoices'[i].pays = invoices[i].pays,
         \A d \in Issuers : issuer'[d] = issuer[d] \/ IssuerOk(d)',
         \A e \in Crediters : crediter'[e] = crediter[e] \/ CrediterPaid(e)'
  PROVE  PayOk'
<1>1. \A i \in Ids : Done(i) => Done(i)'
  BY ZenonT(60) DEF Done, Settled, Follows
<1>2. \A i \in Ids : invoices[i].state # "none" => invoices'[i].state # "none"
  BY DEF Follows
<1>3. RowNamed'
  BY <1>2, Zenon DEF RowNamed, ReceiptSays, Types, PayOk
<1>4. IssuedOk'
  <2>1. PICK r : r = receipt.ref
    OBVIOUS
  <2>2. receipt.status = "issued" => Done(r)'
    BY <1>1, <2>1, Zenon DEF PayOk, IssuedOk, Done
  <2> QED BY <2>1, <2>2, Zenon DEF IssuedOk, ReceiptSays
<1>5. ASSUME NEW d \in Issuers, issuer'[d] = issuer[d] PROVE IssuerOk(d)'
  <2>1. IssuerOk(d)
    BY ZenonT(40) DEF PayOk
  <2>0. PICK i : i = issuer[d].ref
    OBVIOUS
  <2>2. issuer[d].pc \in {"get", "send", "pay", "ref"} => i \in Ids /\ invoices'[i].state # "none"
    BY <1>2, <2>0, <2>1, Zenon DEF IssuerOk
  <2>3. issuer[d].pc = "mark" => Done(i)'
    BY <1>1, <2>0, <2>1, Zenon DEF IssuerOk, Done
  <2>4. issuer[d].pc \notin {"idle", "claim", "release"} => receipt'.status # "issued"
    BY <2>1, ZenonT(60) DEF IssuerOk, ReceiptSays
  <2>5. ASSUME issuer[d].pc = "pay"
        PROVE  /\ invoices'[i].state # "draft"
               /\ (~early' /\ invoices'[i].state = "sent") => invoices'[i].pays = <<>>
    <3>1. i \in Ids /\ invoices[i].state # "draft" /\ receipt.status # "issued"
      BY ZenonT(40), <2>0, <2>1, <2>5 DEF IssuerOk
    <3>2. (~early /\ invoices[i].state = "sent") => invoices[i].pays = <<>>
      BY <2>0, <2>1, <2>5, Zenon DEF IssuerOk
    <3>3. invoices'[i].state = invoices[i].state \/ invoices'[i].state = "deleted"
      BY <3>1, Zenon DEF Follows
    <3>4. ~early' => ~early
      BY Zenon DEF ReceiptSays
    <3>5. ~early => invoices'[i].pays = invoices[i].pays
      BY <3>1, Zenon
    <3> QED BY SMTT(40), <3>1, <3>2, <3>3, <3>4, <3>5
  <2>6. issuer'[d].ref = i /\ issuer'[d].pc = issuer[d].pc
    BY <1>5, <2>0
  <2> QED BY <2>2, <2>3, <2>4, <2>5, <2>6, ZenonT(60) DEF IssuerOk
<1>6. ASSUME NEW e \in Crediters, crediter'[e] = crediter[e] PROVE CrediterPaid(e)'
  <2>1. CrediterPaid(e)
    BY DEF PayOk
  <2>2. crediter[e].pays # <<>> => crediter[e].ref \in Ids /\ invoices'[crediter[e].ref].pays # <<>>
    BY <2>1, Zenon DEF CrediterPaid, Follows
  <2> QED BY <1>6, <2>1, <2>2, Zenon DEF CrediterPaid, Busy, ReceiptSays
<1> QED BY <1>3, <1>4, <1>5, <1>6, Zenon DEF PayOk

\* No invoice changes.
LEMMA PayStill ==
  ASSUME PayOk, Types, ReceiptSays, invoices' = invoices,
         \A d \in Issuers : issuer'[d] = issuer[d] \/ IssuerOk(d)',
         \A e \in Crediters : crediter'[e] = crediter[e] \/ CrediterPaid(e)'
  PROVE  PayOk'
<1>1. \A i \in Ids : Follows(invoices[i], invoices'[i])
  BY Zenon DEF Follows
<1>2. ASSUME NEW i \in Ids PROVE InvoiceOk(invoices[i])'
  BY Zenon DEF PayOk, InvoiceOk, ReceiptSays, Blank
<1> QED BY <1>1, <1>2, PayFollows, Zenon

\* The one issuer at work takes a step.
LEMMA PayMove ==
  ASSUME PayOk, ReceiptOk, NEW d \in Issuers, Working(d), NEW pc, issuer'[d].pc = pc,
         \A f \in Issuers : f # d => issuer'[f] = issuer[f], UNCHANGED <<crediter, early>>,
         receipt.status = "issued" => receipt'.status = "issued",
         \A i \in Ids : InvoiceOk(invoices[i])' /\ (invoices[i].pays # <<>> => invoices'[i].pays # <<>>),
         IssuerOk(d)', RowNamed', IssuedOk'
  PROVE  PayOk'
<1>1. ASSUME NEW f \in Issuers, f # d PROVE IssuerOk(f)'
  <2>1. issuer'[f].pc \in {"idle", "claim"}
    BY <1>1, ReceiptAlone DEF Working
  <2> QED BY ZenonT(40), <2>1 DEF IssuerOk
<1>2. ASSUME NEW e \in Crediters PROVE CrediterPaid(e)'
  BY Zenon DEF PayOk, CrediterPaid, Busy
<1> QED BY <1>1, <1>2, ZenonT(60) DEF PayOk

\* An issuer that gives up, or begins a new draft, relies on no invoice.
LEMMA IssuerFree ==
  ASSUME NEW d, issuer'[d].pc \in {"idle", "claim", "release", "block", "create"},
         issuer'[d].pc \in {"block", "create"} => receipt'.status # "issued"
  PROVE  IssuerOk(d)'
BY DEF IssuerOk

\* What an issuer at work finds.
LEMMA IssuerFinds ==
  ASSUME PayOk, ReceiptOk, NEW d \in Issuers
  PROVE  /\ issuer[d].pc \notin {"idle", "claim", "release"} => receipt.status # "issued" /\ receipt.leased
         /\ issuer[d].pc \in {"get", "send", "pay", "ref"} =>
                issuer[d].ref \in Ids /\ invoices[issuer[d].ref].state # "none"
         /\ issuer[d].pc \in {"get", "send", "pay", "mark"} => issuer[d].ref = receipt.ref
<1>1. IssuerOk(d)
  BY DEF PayOk
<1>2. issuer[d].pc \notin {"idle", "claim", "release"} => receipt.status # "issued"
  BY <1>1, Zenon DEF IssuerOk
<1>3. /\ issuer[d].pc \in {"get", "send", "pay", "ref"} =>
                issuer[d].ref \in Ids /\ invoices[issuer[d].ref].state # "none"
  BY <1>1, Zenon DEF IssuerOk
<1>4. issuer[d].pc \notin {"idle", "claim", "release"} => receipt.leased
  BY DEF ReceiptOk, Working
<1>5. issuer[d].pc \in {"get", "send", "pay", "mark"} => issuer[d].ref = receipt.ref
  BY Zenon DEF ReceiptOk, Knows
<1> QED BY <1>2, <1>3, <1>4, <1>5, Zenon

\* Only the row's lease, or its state short of "issued", changes.
LEMMA IssuerPlainPays ==
  ASSUME PayOk, ReceiptOk, Types, Shape, NEW d \in Issuers,
         ListDueReceipts(d) \/ BlockReceipt(d) \/ ReleaseReceipt(d) \/ StopIssuer(d)
  PROVE  PayOk'
<1>1. UNCHANGED <<invoices, crediter, early>>
  BY Zenon DEF ListDueReceipts, BlockReceipt, ReleaseReceipt, StopIssuer, books
<1>2. ReceiptSays
  BY <1>1 DEF ListDueReceipts, BlockReceipt, ReleaseReceipt, StopIssuer, Parked, rows, ReceiptSays, Shape
<1>3. /\ issuer'[d].pc \in {"idle", "claim", "release"}
      /\ \A f \in Issuers : f # d => issuer'[f] = issuer[f]
  BY SMTT(40) DEF ListDueReceipts, BlockReceipt, ReleaseReceipt, StopIssuer, IssuerAt, Unissued, Shape
<1>4. IssuerOk(d)'
  BY <1>3, IssuerFree
<1> QED BY <1>1, <1>2, <1>3, <1>4, PayStill, Zenon

LEMMA ClaimReceiptPays ==
  ASSUME PayOk, ReceiptOk, Types, Shape, NEW d \in Issuers, ClaimReceipt(d), ~stale'
  PROVE  PayOk'
<1>1. UNCHANGED <<invoices, crediter, early>>
  BY Zenon DEF ClaimReceipt, books
<1>2. ReceiptSays
  BY <1>1 DEF ClaimReceipt, ReceiptSays, Shape
<1>3. CASE IssuerAt(d, "idle")
  <2>1. issuer'[d].pc = "idle" /\ \A f \in Issuers : f # d => issuer'[f] = issuer[f]
    BY <1>3, IssuerAtOnly, Zenon
  <2>2. IssuerOk(d)'
    BY <2>1, IssuerFree
  <2> QED BY <1>1, <1>2, <2>1, <2>2, PayStill, Zenon
<1>4. CASE IssuerAt(d, Issue(d)) /\ stale' = (stale \/ receipt.status # "pending" \/ receipt.ref # issuer[d].ref)
  <2>1. receipt.status = "pending" /\ issuer[d].ref = receipt.ref
    BY <1>4, Zenon
  <2>2. receipt'.status # "issued"
    BY <1>2, <2>1 DEF ReceiptSays
  <2>3. /\ issuer'[d].pc = Issue(d) /\ issuer'[d].ref = receipt.ref
        /\ \A f \in Issuers : f # d => issuer'[f] = issuer[f]
    BY <1>4, <2>1, IssuerAtOnly, Zenon
  <2>4. Issue(d) \in {"block", "create"} \/ (Issue(d) = "get" /\ receipt.ref # 0)
    BY <2>1 DEF Issue
  <2>5. receipt.ref # 0 => receipt.ref \in Ids /\ invoices'[receipt.ref].state # "none"
    BY <1>1, Zenon DEF Types, PayOk, RowNamed
  <2>6. IssuerOk(d)'
    <3>1. CASE Issue(d) \in {"block", "create"}
      <4>1. issuer'[d].pc \in {"block", "create"}
        BY <2>3, <3>1, Zenon
      <4> QED BY <2>2, <4>1, IssuerFree
    <3>2. CASE Issue(d) = "get" /\ receipt.ref # 0
      BY <2>2, <2>3, <2>5, <3>2 DEF IssuerOk
    <3> QED BY ZenonT(40), <2>4, <3>1, <3>2
  <2> QED BY <1>1, <1>2, <2>3, <2>6, PayStill, Zenon
<1> QED BY <1>3, <1>4, Zenon DEF ClaimReceipt

\* The answer to a question about the invoice decides the next step.
LEMMA AnswerOk ==
  ASSUME PayOk, Types, NEW i \in Ids, receipt.status # "issued", invoices[i].state \notin {"none", "draft", "deleted"}
  PROVE  /\ invoices[i].state = "sent"
         /\ Balance(i) > 0 => (~early => invoices[i].pays = <<>>)
         /\ ~(Balance(i) > 0) => Done(i)
<1>1. invoices[i].state = "sent" /\ invoices[i].owed \in Int
  BY DEF Types, Figures
<1>2. Balance(i) = invoices[i].owed
  BY ZenonT(40), <1>1 DEF Balance
<1>3. InvoiceOk(invoices[i])
  BY DEF PayOk
<1>4. ~early => invoices[i].owed = IF invoices[i].pays = <<>> THEN Amount ELSE 0
  BY <1>1, <1>3, Zenon DEF InvoiceOk
<1>5. invoices[i].pays = <<>> => invoices[i].owed >= 0
  BY <1>3, Zenon DEF InvoiceOk
<1>6. Balance(i) > 0 => (~early => invoices[i].pays = <<>>)
  BY SMTT(40), <1>1, <1>2, <1>4
<1>7. ~(Balance(i) > 0) => (invoices[i].pays # <<>> \/ invoices[i].owed = 0)
  BY <1>1, <1>2, <1>5
<1>8. ~(Balance(i) > 0) => Done(i)
  BY <1>1, <1>7, Zenon DEF Done, Settled
<1> QED BY <1>1, <1>6, <1>8, Zenon

LEMMA GetInvoicePays ==
  ASSUME PayOk, ReceiptOk, Types, Shape, NEW d \in Issuers, GetInvoice(d)
  PROVE  PayOk'
<1>1. UNCHANGED <<receipt, invoices, crediter, early>>
  BY Zenon DEF GetInvoice, rows, books
<1>2. ReceiptSays
  BY <1>1, Zenon DEF ReceiptSays
<1>3. PICK i : i = issuer[d].ref
  BY ZenonT(40)
<1>4. i \in Ids /\ invoices[i].state # "none" /\ receipt.status # "issued"
  BY ZenonT(40), <1>3, IssuerFinds DEF GetInvoice
<1>5. PICK pc : /\ IssuerAt(d, pc)
                /\ \/ pc \in {"release", "block", "create"}
                   \/ invoices[i].state # "deleted" /\ pc = AfterInvoice(invoices[i].state, Balance(i))
  BY <1>3 DEF GetInvoice
<1>6. /\ issuer'[d].pc = pc /\ issuer'[d].ref = i
      /\ \A f \in Issuers : f # d => issuer'[f] = issuer[f]
  BY <1>3, <1>5, IssuerAtOnly, Zenon
<1>7. IssuerOk(d)'
  <2>1. CASE pc \in {"release", "block", "create"}
    <3>1. issuer'[d].pc \in {"release", "block", "create"} /\ receipt'.status # "issued"
      BY <1>1, <1>4, <1>6, <2>1, Zenon
    <3> QED BY <3>1, IssuerFree
  <2>2. CASE invoices[i].state = "draft" /\ pc = "send"
    BY ZenonT(40), <1>1, <1>4, <1>6, <2>2 DEF IssuerOk
  <2>3. CASE invoices[i].state = "sent" /\ Balance(i) > 0 /\ pc = "pay"
    <3>1. ~early => invoices[i].pays = <<>>
      BY <1>4, <2>3, AnswerOk
    <3> QED BY ZenonT(40), <1>1, <1>4, <1>6, <2>3, <3>1 DEF IssuerOk
  <2>4. CASE invoices[i].state = "sent" /\ ~(Balance(i) > 0) /\ pc = "mark"
    <3>1. Done(i)
      BY <1>4, <2>4, AnswerOk
    <3>2. Done(i)'
      BY <1>1, <3>1, Zenon DEF Done, Settled
    <3> QED BY <1>1, <1>4, <1>6, <2>4, <3>2, Zenon DEF IssuerOk
  <2>5. invoices[i].state # "deleted" => invoices[i].state \in {"draft", "sent"}
    BY ZenonT(40), <1>4 DEF Types, Figures
  <2>6. \/ pc \in {"release", "block", "create"}
        \/ invoices[i].state = "draft" /\ pc = "send"
        \/ invoices[i].state = "sent" /\ Balance(i) > 0 /\ pc = "pay"
        \/ invoices[i].state = "sent" /\ ~(Balance(i) > 0) /\ pc = "mark"
    BY <1>5, <2>5 DEF AfterInvoice
  <2> QED BY ZenonT(40), <2>1, <2>2, <2>3, <2>4, <2>6
<1> QED BY <1>1, <1>2, <1>6, <1>7, PayStill, Zenon

\* An invoice is as good as it was if nothing it depends on changed.
LEMMA InvoiceStays ==
  ASSUME PayOk, NEW i \in Ids, invoices'[i] = invoices[i], early' = early,
         receipt.status = "issued" => receipt'.status = "issued"
  PROVE  InvoiceOk(invoices[i])'
<1>1. InvoiceOk(invoices[i])
  BY DEF PayOk
<1> QED BY <1>1, Zenon DEF InvoiceOk, Blank

LEMMA CreateInvoicePays ==
  ASSUME PayOk, ReceiptOk, Types, Shape, NEW d \in Issuers, CreateInvoice(d)
  PROVE  PayOk'
<1>1. UNCHANGED <<receipt, crediter, early>> /\ Working(d)
  BY DEF CreateInvoice, Working, rows
<1>2. receipt.status # "issued"
  BY IssuerFinds DEF CreateInvoice
<1>3. PICK i \in Ids :
         /\ invoices[i].state = "none"
         /\ \/ /\ invoices' = [invoices EXCEPT ![i].state = "draft"]
               /\ \/ issuer' = [issuer EXCEPT ![d] = [pc |-> "ref", ref |-> i]]
                  \/ IssuerAt(d, "release")
            \/ invoices' = invoices /\ \E pc \in {"release", "block"} : IssuerAt(d, pc)
  BY Zenon DEF CreateInvoice, NewInvoice
<1>4. \A j \in Ids : j # i => invoices'[j] = invoices[j]
  BY <1>3 DEF Shape
<1>5. /\ invoices'[i].pays = invoices[i].pays /\ invoices'[i].owed = invoices[i].owed
      /\ invoices'[i].back = invoices[i].back /\ invoices'[i].state \in {"none", "draft"}
  BY <1>3 DEF Shape
<1>6. Blank(invoices[i])
  BY <1>3, Zenon DEF PayOk, InvoiceOk
<1>7. Blank(invoices[i])'
  BY <1>5, <1>6, Zenon DEF Blank
<1>8. InvoiceOk(invoices[i])'
  <2>1. Len(invoices'[i].pays) <= 1 /\ invoices'[i].owed >= 0
    BY <1>7 DEF Blank
  <2> QED BY ZenonT(40), <1>5, <1>7, <2>1 DEF InvoiceOk, Blank
<1>9. \A j \in Ids : InvoiceOk(invoices[j])' /\ (invoices[j].pays # <<>> => invoices'[j].pays # <<>>)
  BY <1>1, <1>4, <1>5, <1>8, InvoiceStays, Zenon
<1>10. RowNamed'
  <2>1. \A j \in Ids : invoices[j].state # "none" => invoices'[j].state # "none"
    BY <1>3, <1>4, Zenon
  <2> QED BY <1>1, <2>1, Zenon DEF RowNamed, PayOk, Types
<1>11. IssuedOk'
  BY <1>1, <1>2, Zenon DEF IssuedOk
<1>12. \A f \in Issuers : f # d => issuer'[f] = issuer[f]
  BY <1>3, IssuerAtOnly DEF Shape
<1>13. IssuerOk(d)'
  <2>1. CASE \E pc \in {"release", "block"} : IssuerAt(d, pc)
    <3>1. issuer'[d].pc \in {"release", "block"}
      BY <2>1, IssuerAtOnly, ZenonT(60)
    <3> QED BY <1>1, <1>2, <3>1, IssuerFree
  <2>2. CASE invoices' = [invoices EXCEPT ![i].state = "draft"] /\ issuer' = [issuer EXCEPT ![d] = [pc |-> "ref", ref |-> i]]
    <3>1. issuer'[d].pc = "ref" /\ issuer'[d].ref = i /\ invoices'[i].state # "none"
      BY <2>2 DEF Shape
    <3> QED BY ZenonT(40), <1>1, <1>2, <3>1 DEF IssuerOk
  <2> QED BY <1>3, <2>1, <2>2, Zenon
<1> QED BY <1>1, <1>9, <1>10, <1>11, <1>12, <1>13, PayMove, Zenon

LEMMA SetReceiptInvoicePays ==
  ASSUME PayOk, ReceiptOk, Types, Shape, NEW d \in Issuers, SetReceiptInvoice(d)
  PROVE  PayOk'
<1>1. UNCHANGED <<invoices, crediter, early>> /\ Working(d)
  BY DEF SetReceiptInvoice, Working, books
<1>2. PICK i : i = issuer[d].ref
  OBVIOUS
<1>3. i \in Ids /\ invoices[i].state # "none" /\ receipt.status # "issued"
  BY <1>2, IssuerFinds DEF SetReceiptInvoice
<1>4. receipt'.status = receipt.status /\ receipt'.ref \in {receipt.ref, i}
  BY <1>2 DEF SetReceiptInvoice, Shape
<1>5. PICK pc \in {"send", "release"} : IssuerAt(d, pc)
  BY DEF SetReceiptInvoice
<1>6. /\ issuer'[d].pc = pc /\ issuer'[d].ref = i
      /\ \A f \in Issuers : f # d => issuer'[f] = issuer[f]
  BY <1>2, <1>5, IssuerAtOnly, Zenon
<1>7. IssuerOk(d)'
  BY <1>1, <1>3, <1>4, <1>6, Zenon DEF IssuerOk
<1>8. RowNamed' /\ IssuedOk'
  BY <1>1, <1>3, <1>4, Zenon DEF RowNamed, IssuedOk, PayOk
<1>9. \A j \in Ids : InvoiceOk(invoices[j])'
  BY <1>1, <1>4, InvoiceStays, Zenon
<1> QED BY <1>1, <1>3, <1>6, <1>7, <1>8, <1>9, PayMove, Zenon

\* A request about the invoice i of the row: the answer, the loss of the answer
\* and the refusal.
LEMMA AskPays ==
  ASSUME PayOk, ReceiptOk, Types, Shape, NEW d \in Issuers, issuer[d].pc \in {"send", "pay"},
         NEW i \in Ids, i = issuer[d].ref, NEW v, NEW next, Ask(d, [invoices EXCEPT ![i] = v], next),
         v.state # "none", invoices[i].pays # <<>> => v.pays # <<>>,
         UNCHANGED <<receipt, crediter, early>>,
         InvoiceOk(v),
         (invoices'[i] = v /\ issuer'[d].pc = next /\ issuer'[d].ref = i) => IssuerOk(d)'
  PROVE  PayOk'
<1>1. Working(d) /\ receipt.status # "issued"
  BY IssuerFinds, Zenon DEF Working
<1>2. /\ invoices' = invoices \/ invoices' = [invoices EXCEPT ![i] = v]
      /\ \/ invoices' = [invoices EXCEPT ![i] = v] /\ IssuerAt(d, next)
         \/ \E pc \in {"release", "block"} : IssuerAt(d, pc)
  BY Zenon DEF Ask
<1>3. \A j \in Ids : invoices'[j] = invoices[j] \/ (j = i /\ invoices'[j] = v)
  BY <1>2, Zenon DEF Shape
<1>4. \A j \in Ids : InvoiceOk(invoices[j])'
  <2> SUFFICES ASSUME NEW j \in Ids PROVE InvoiceOk(invoices[j])'
    BY Zenon
  <2>1. CASE invoices'[j] = v
    BY <2>1, Zenon DEF InvoiceOk, Blank
  <2> QED BY <1>3, <2>1, InvoiceStays, Zenon
<1>5. RowNamed' /\ IssuedOk'
  <2>1. \A j \in Ids : invoices[j].state # "none" => invoices'[j].state # "none"
    BY <1>3, Zenon
  <2> QED BY <1>1, <2>1, Zenon DEF RowNamed, IssuedOk, PayOk, Types
<1>6. \A f \in Issuers : f # d => issuer'[f] = issuer[f]
  BY <1>2, IssuerAtOnly, Zenon
<1>7. IssuerOk(d)'
  <2>1. CASE \E pc \in {"release", "block"} : IssuerAt(d, pc)
    <3>1. issuer'[d].pc \in {"release", "block"}
      BY <2>1, IssuerAtOnly, Zenon
    <3>2. receipt'.status # "issued"
      BY <1>1, Zenon
    <3> QED BY <3>1, <3>2, IssuerFree
  <2>2. CASE invoices' = [invoices EXCEPT ![i] = v] /\ IssuerAt(d, next)
    <3>1. invoices'[i] = v
      BY ZenonT(40), <2>2 DEF Shape
    <3> QED BY <2>2, <3>1, IssuerAtOnly, ZenonT(60)
  <2> QED BY <1>2, <2>1, <2>2, ZenonT(60)
<1>8. \A j \in Ids : invoices[j].pays # <<>> => invoices'[j].pays # <<>>
  BY <1>3, Zenon
<1> QED BY <1>1, <1>4, <1>5, <1>6, <1>7, <1>8, PayMove, Zenon

LEMMA MarkSentPays ==
  ASSUME PayOk, ReceiptOk, Types, Shape, NEW d \in Issuers, MarkSent(d)
  PROVE  PayOk'
<1>1. UNCHANGED <<receipt, crediter, early>> /\ issuer[d].pc = "send"
  BY ZenonT(40) DEF MarkSent, rows
<1>2. PICK i : i = issuer[d].ref
  OBVIOUS
<1>3. i \in Ids /\ invoices[i].state # "none" /\ receipt.status # "issued"
  BY <1>1, <1>2, IssuerFinds
<1>4. CASE invoices' = invoices /\ \E pc \in {"release", "block"} : IssuerAt(d, pc)
  <2>1. issuer'[d].pc \in {"release", "block"} /\ \A f \in Issuers : f # d => issuer'[f] = issuer[f]
    BY <1>4, IssuerAtOnly, Zenon
  <2>2. IssuerOk(d)'
    BY <1>1, <1>3, <2>1, IssuerFree
  <2>3. ReceiptSays
    BY <1>1, Zenon DEF ReceiptSays
  <2> QED BY <1>1, <1>4, <2>1, <2>2, <2>3, PayStill, Zenon
<1>5. CASE /\ invoices[i].state = "draft"
           /\ Ask(d, [invoices EXCEPT ![i] = Sent(invoices[i])], "pay")
  <2>1. Blank(invoices[i])
    BY <1>3, <1>5, Zenon DEF PayOk, InvoiceOk
  <2>2. PICK v : v = Sent(invoices[i])
    OBVIOUS
  <2>3. v.state = "sent" /\ v.owed = Amount /\ v.pays = <<>> /\ v.back = 0
    <3>1. v = [invoices[i] EXCEPT !.state = "sent", !.owed = Amount]
      BY <1>5, <2>2, Zenon DEF Sent
    <3>2. DOMAIN invoices[i] = {"state", "pays", "owed", "back"}
      BY <1>3, Zenon DEF Shape
    <3> QED BY <2>1, <3>1, <3>2, Zenon DEF Blank
  <2>4. InvoiceOk(v)
    <3>1. Amount >= 0 /\ Len(v.pays) <= 1
      BY <2>3, BillingAssumption
    <3> QED BY <2>3, <3>1 DEF InvoiceOk
  <2>5. (invoices'[i] = v /\ issuer'[d].pc = "pay" /\ issuer'[d].ref = i) => IssuerOk(d)'
    BY <1>1, <1>3, <2>3, Zenon DEF IssuerOk
  <2>6. invoices[i].pays # <<>> => v.pays # <<>>
    BY ZenonT(40), <2>1 DEF Blank
  <2> QED BY <1>1, <1>2, <1>3, <1>5, <2>2, <2>3, <2>4, <2>5, <2>6, AskPays, Zenon
<1>6. CASE /\ invoices[i].state \notin {"draft", "deleted"}
           /\ Ask(d, [invoices EXCEPT ![i] = Sent(invoices[i])], IF Balance(i) > 0 THEN "pay" ELSE "mark")
  <2>1. PICK v : v = invoices[i]
    OBVIOUS
  <2>2. PICK next : next = IF Balance(i) > 0 THEN "pay" ELSE "mark"
    OBVIOUS
  <2>3. Sent(invoices[i]) = v
    BY ZenonT(40), <1>6, <2>1 DEF Sent
  <2>4. /\ v.state = "sent" /\ (next = "pay" => (~early => v.pays = <<>>)) /\ (next = "mark" => Done(i))
        /\ next \in {"pay", "mark"}
    BY ZenonT(40), <1>3, <1>6, <2>1, <2>2, AnswerOk
  <2>5. InvoiceOk(v)
    BY ZenonT(40), <1>3, <2>1 DEF PayOk
  <2>6. ASSUME invoices'[i] = v, issuer'[d].pc = next, issuer'[d].ref = i PROVE IssuerOk(d)'
    <3>1. CASE next = "pay"
      BY ZenonT(40), <1>1, <1>3, <2>4, <2>6, <3>1 DEF IssuerOk
    <3>2. CASE next = "mark"
      <4>1. Done(i)'
        BY <2>1, <2>4, <2>6, <3>2, Zenon DEF Done, Settled
      <4> QED BY <1>1, <1>3, <2>6, <3>2, <4>1 DEF IssuerOk
    <3> QED BY ZenonT(40), <2>4, <3>1, <3>2
  <2>7. Ask(d, [invoices EXCEPT ![i] = v], next)
    BY <1>6, <2>2, <2>3, Zenon
  <2> QED BY ZenonT(40), <1>1, <1>2, <1>3, <2>1, <2>4, <2>5, <2>6, <2>7, AskPays
<1>7. \/ invoices' = invoices /\ \E pc \in {"release", "block"} : IssuerAt(d, pc)
      \/ /\ invoices[i].state # "deleted"
         /\ Ask(d, [invoices EXCEPT ![i] = Sent(invoices[i])],
                IF invoices[i].state = "draft" \/ Balance(i) > 0 THEN "pay" ELSE "mark")
  BY <1>2, Zenon DEF MarkSent
<1>8. invoices[i].state = "draft" =>
        (IF invoices[i].state = "draft" \/ Balance(i) > 0 THEN "pay" ELSE "mark") = "pay"
  BY Zenon
<1>9. invoices[i].state # "draft" =>
        (IF invoices[i].state = "draft" \/ Balance(i) > 0 THEN "pay" ELSE "mark")
           = (IF Balance(i) > 0 THEN "pay" ELSE "mark")
  BY Zenon
<1> QED BY <1>4, <1>5, <1>6, <1>7, <1>8, <1>9, ZenonT(60)

LEMMA RecordPaymentPays ==
  ASSUME PayOk, ReceiptOk, Types, Shape, NEW d \in Issuers, RecordPayment(d)
  PROVE  PayOk'
<1>1. UNCHANGED <<receipt, crediter, early>> /\ issuer[d].pc = "pay"
  BY ZenonT(40) DEF RecordPayment, rows
<1>2. PICK i : i = issuer[d].ref
  OBVIOUS
<1>3. i \in Ids /\ invoices[i].state # "none" /\ receipt.status # "issued"
  BY <1>1, <1>2, IssuerFinds
<1>4. CASE invoices' = invoices /\ IssuerAt(d, "block")
  <2>1. issuer'[d].pc = "block" /\ \A f \in Issuers : f # d => issuer'[f] = issuer[f]
    BY <1>4, IssuerAtOnly, Zenon
  <2>2. IssuerOk(d)'
    BY <1>1, <1>3, <2>1, IssuerFree
  <2>3. ReceiptSays
    BY <1>1, ZenonT(60) DEF ReceiptSays
  <2> QED BY <1>1, <1>4, <2>1, <2>2, <2>3, PayStill, Zenon
<1>5. CASE /\ invoices[i].state # "deleted"
           /\ Ask(d, [invoices EXCEPT ![i] = Paid(invoices[i])], "mark")
  <2>1. invoices[i].state # "draft" /\ (~early /\ invoices[i].state = "sent" => invoices[i].pays = <<>>)
    BY <1>1, <1>2, ZenonT(60) DEF PayOk, IssuerOk
  <2>2. invoices[i].state = "sent" /\ invoices[i].owed \in Int /\ invoices[i].pays \in Seq(Int)
    BY <1>3, <1>5, <2>1 DEF Types, Figures
  <2>3. PICK v : v = Paid(invoices[i])
    OBVIOUS
  <2>4. /\ v.state = "sent" /\ v.back = invoices[i].back /\ v.owed = invoices[i].owed - Amount
        /\ v.pays = Append(invoices[i].pays, 0)
    BY ZenonT(40), <1>3, <2>2, <2>3 DEF Paid, Shape
  <2>5. v.pays # <<>> /\ (~early => Len(v.pays) <= 1)
    BY SMTT(40), <2>1, <2>2, <2>4
  <2>6. InvoiceOk(v)
    <3>1. InvoiceOk(invoices[i])
      BY <1>3 DEF PayOk
    <3>2. ~early => v.back = 0 /\ invoices[i].owed = Amount
      BY <1>3, <2>1, <2>2, <2>4, <3>1, Zenon DEF InvoiceOk
    <3>3. ~early => v.owed = 0
      BY SMTT(40), <2>4, <3>2, BillingAssumption
    <3> QED BY ZenonT(40), <2>4, <2>5, <3>2, <3>3 DEF InvoiceOk
  <2>7. ASSUME invoices'[i] = v, issuer'[d].pc = "mark", issuer'[d].ref = i PROVE IssuerOk(d)'
    <3>1. Done(i)'
      BY <1>3, <2>4, <2>5, <2>7, Zenon DEF Done, Settled
    <3> QED BY <1>1, <1>3, <2>7, <3>1 DEF IssuerOk
  <2>8. v.state # "none"
    BY <2>4
  <2> QED BY ZenonT(40), <1>1, <1>2, <1>3, <1>5, <2>3, <2>5, <2>6, <2>7, <2>8, AskPays
<1> QED BY <1>2, <1>4, <1>5, ZenonT(60) DEF RecordPayment

LEMMA MarkReceiptIssuedPays ==
  ASSUME PayOk, ReceiptOk, Types, Shape, NEW d \in Issuers, MarkReceiptIssued(d)
  PROVE  PayOk'
<1>1. UNCHANGED <<invoices, crediter, early>> /\ Working(d) /\ IssuerAt(d, "release")
  BY DEF MarkReceiptIssued, Working, books
<1>2. PICK i : i = issuer[d].ref
  OBVIOUS
<1>3. Done(i) /\ i = receipt.ref
  BY <1>2, IssuerFinds, Zenon DEF MarkReceiptIssued, PayOk, IssuerOk
<1>4. receipt'.ref = i /\ receipt'.status \in {receipt.status, "issued"}
  BY <1>2, <1>3, Zenon DEF MarkReceiptIssued, Shape
<1>5. issuer'[d].pc = "release" /\ \A f \in Issuers : f # d => issuer'[f] = issuer[f]
  BY <1>1, IssuerAtOnly, Zenon
<1>6. IssuerOk(d)'
  BY <1>5, IssuerFree
<1>7. Done(i)'
  BY <1>1, <1>3, Zenon DEF Done, Settled
<1>8. RowNamed' /\ IssuedOk'
  BY <1>4, <1>7 DEF RowNamed, IssuedOk, Done, Settled
<1>9. \A j \in Ids : InvoiceOk(invoices[j])'
  BY <1>1, <1>4, InvoiceStays, Zenon
<1> QED BY <1>1, <1>4, <1>5, <1>6, <1>8, <1>9, PayMove, Zenon

\* A busy crediter goes on with what it read of the invoice.
LEMMA CrediterOnPays ==
  ASSUME PayOk, Types, ReceiptSays, NEW e \in Crediters, Busy(e),
         crediter'[e].pays = crediter[e].pays, crediter'[e].ref = crediter[e].ref,
         crediter'[e].pc \notin {"claim", "receipt"},
         \A i \in Ids : invoices[i].pays # <<>> => invoices'[i].pays # <<>>
  PROVE  CrediterPaid(e)'
<1>1. CrediterPaid(e)
  BY DEF PayOk
<1>2. crediter'[e].pays # <<>> => crediter'[e].ref \in Ids /\ invoices'[crediter'[e].ref].pays # <<>>
  BY <1>1, Zenon DEF CrediterPaid
<1>3. ~early' => receipt'.status = "issued"
  BY <1>1, Zenon DEF CrediterPaid, ReceiptSays
<1> QED BY <1>2, <1>3, Zenon DEF CrediterPaid

LEMMA CrediterStays ==
  ASSUME Shape, NEW e \in Crediters, NEW w, crediter' = [crediter EXCEPT ![e] = w]
  PROVE  crediter'[e] = w /\ \A f \in Crediters : f # e => crediter'[f] = crediter[f]
BY DEF Shape

LEMMA CrediterPlainPays ==
  ASSUME PayOk, Types, Shape, NEW e \in Crediters,
         \/ Reread(e) \/ ParkReceipt(e) \/ GetCredit(e) \/ CreateCredit(e) \/ SetRefundCredit(e)
         \/ MarkCreditSent(e) \/ MarkRefundIssued(e) \/ ReversePlan(e) \/ BlockRefund(e)
  PROVE  PayOk'
<1>1. UNCHANGED <<invoices, issuer, early>> /\ Busy(e)
  BY Zenon DEF Reread, ParkReceipt, GetCredit, CreateCredit, SetRefundCredit, MarkCreditSent,
     MarkRefundIssued, ReversePlan, BlockRefund, rows, books, Busy
<1>2. ReceiptSays
  <2>1. receipt' = receipt \/ receipt' = Parked(receipt)
    BY Zenon DEF Reread, ParkReceipt, GetCredit, CreateCredit, SetRefundCredit, MarkCreditSent,
       MarkRefundIssued, ReversePlan, BlockRefund, rows
  <2>2. Parked(receipt).status = "issued" <=> receipt.status = "issued"
    BY DEF Parked, Shape
  <2> QED BY <1>1, <2>1, <2>2, ParkedOnly, Zenon DEF ReceiptSays
<1> DEFINE Going == /\ crediter'[e].pays = crediter[e].pays /\ crediter'[e].ref = crediter[e].ref
                    /\ crediter'[e].pc \notin {"claim", "receipt"}
                    /\ \A f \in Crediters : f # e => crediter'[f] = crediter[f]
<1>3. ASSUME NEW pc \in {"release", "block", "park", "close", "sendcredit", "plan"}, CrediterAt(e, pc) PROVE Going
  BY <1>3 DEF CrediterAt, Shape
<1>4. ASSUME GetCredit(e) PROVE Going
  <2> DEFINE c == crediter[e].credit
             next == IF credits[c].state = "deleted" THEN "newcredit"
                     ELSE IF credits[c].state = "draft" THEN "sendcredit" ELSE "refund"
  <2>1. PICK w : /\ w = [crediter[e] EXCEPT !.left = CreditLeft(c), !.pc = next]
                 /\ \/ crediter' = [crediter EXCEPT ![e] = w]
                    \/ \E pc \in {"release", "block"} : CrediterAt(e, pc)
    BY <1>4, ZenonT(60) DEF GetCredit
  <2>2. w.pays = crediter[e].pays /\ w.ref = crediter[e].ref /\ w.pc \notin {"claim", "receipt"}
    BY <2>1 DEF Shape
  <2> QED BY <1>3, <2>1, <2>2, CrediterStays, ZenonT(60)
<1>5. ASSUME CreateCredit(e) PROVE Going
  <2>1. PICK c : \/ crediter' = [crediter EXCEPT ![e] = [crediter[e] EXCEPT !.pc = "setcredit", !.credit = c]]
                 \/ \E pc \in {"release", "block"} : CrediterAt(e, pc)
    BY <1>5, Zenon DEF CreateCredit
  <2>2. PICK w : w = [crediter[e] EXCEPT !.pc = "setcredit", !.credit = c]
    OBVIOUS
  <2>3. w.pays = crediter[e].pays /\ w.ref = crediter[e].ref /\ w.pc \notin {"claim", "receipt"}
    BY <2>2 DEF Shape
  <2> QED BY <1>3, <2>1, <2>2, <2>3, CrediterStays, Zenon
<1>6. ASSUME MarkCreditSent(e) PROVE Going
  <2>1. PICK w : w = [crediter[e] EXCEPT !.pc = "refund", !.left = credits[crediter[e].credit].left]
    OBVIOUS
  <2>2. \/ crediter' = [crediter EXCEPT ![e] = w] \/ \E pc \in {"release", "block"} : CrediterAt(e, pc)
    BY <1>6, <2>1, Zenon DEF MarkCreditSent
  <2>3. w.pays = crediter[e].pays /\ w.ref = crediter[e].ref /\ w.pc \notin {"claim", "receipt"}
    BY <2>1 DEF Shape
  <2> QED BY <1>3, <2>2, <2>3, CrediterStays, Zenon
<1>7. Going
  <2>1. \/ GetCredit(e) \/ CreateCredit(e) \/ MarkCreditSent(e)
        \/ \E pc \in {"release", "block", "park", "close", "sendcredit", "plan"} : CrediterAt(e, pc)
    BY DEF Reread, ParkReceipt, SetRefundCredit, MarkRefundIssued, ReversePlan, BlockRefund
  <2> QED BY <1>3, <1>4, <1>5, <1>6, <2>1, Zenon
<1>8. CrediterPaid(e)'
  BY <1>1, <1>2, <1>7, CrediterOnPays, Zenon
<1> QED BY <1>1, <1>2, <1>7, <1>8, PayStill, Zenon

LEMMA CrediterReadsPays ==
  ASSUME PayOk, Types, Shape, NEW e \in Crediters,
         \/ ListDueRefunds(e) \/ ClaimRefund(e) \/ GetReceipt(e) \/ InvoiceWithPayments(e)
         \/ ReleaseRefund(e) \/ StopCrediter(e)
  PROVE  PayOk'
<1>1. UNCHANGED <<receipt, invoices, issuer>> /\ (early => early')
  <2>1. UNCHANGED <<receipt, invoices, issuer>>
    BY Zenon DEF ListDueRefunds, ClaimRefund, GetReceipt, InvoiceWithPayments, ReleaseRefund, StopCrediter, rows, books
  <2>2. (early' = early) \/ ClaimRefund(e)
    BY Zenon DEF ListDueRefunds, GetReceipt, InvoiceWithPayments, ReleaseRefund, StopCrediter
  <2>3. ClaimRefund(e) => (early => early')
    BY Zenon DEF ClaimRefund
  <2>4. early => early'
    BY <2>2, <2>3, Zenon
  <2> QED BY <2>1, <2>4, Zenon
<1>2. ReceiptSays
  BY <1>1, Zenon DEF ReceiptSays
<1>3. CrediterPaid(e) /\ Sums(crediter[e])
  BY DEF PayOk, Types
<1>4. ASSUME CrediterPaid(e)', \A f \in Crediters : f # e => crediter'[f] = crediter[f] PROVE PayOk'
  BY <1>1, <1>2, <1>4, PayStill, ZenonT(60)
<1>5. CASE ListDueRefunds(e) \/ ReleaseRefund(e) \/ StopCrediter(e)
  <2>1. /\ crediter'[e].pays = <<>> /\ crediter'[e].pc \in {"claim", "idle"}
        /\ \A f \in Crediters : f # e => crediter'[f] = crediter[f]
    <3>1. PICK w : /\ crediter' = [crediter EXCEPT ![e] = w]
                   /\ \/ w = Uncredited
                      \/ w = [Uncredited EXCEPT !.pc = "claim", !.n = refund.n, !.amount = refund.amount,
                                                !.credit = refund.credit]
      BY <1>5, Zenon DEF ListDueRefunds, ReleaseRefund, StopCrediter
    <3>2. w.pays = <<>> /\ w.pc \in {"claim", "idle"}
      <4>1. CASE w = Uncredited
        BY <4>1 DEF Uncredited
      <4>2. CASE w = [Uncredited EXCEPT !.pc = "claim", !.n = refund.n, !.amount = refund.amount,
                                        !.credit = refund.credit]
        BY <4>2 DEF Uncredited
      <4> QED BY <3>1, <4>1, <4>2, Zenon
    <3> QED BY <3>1, <3>2, CrediterStays, Zenon
  <2>2. CrediterPaid(e)'
    BY <2>1, Zenon DEF CrediterPaid, Busy
  <2> QED BY <1>4, <2>1, <2>2
<1>6. CASE ClaimRefund(e)
  <2>1. crediter[e].pays = <<>>
    BY <1>3, <1>6, Zenon DEF CrediterPaid, ClaimRefund
  <2>2. /\ \A f \in Crediters : f # e => crediter'[f] = crediter[f]
        /\ crediter'[e].pays = <<>> /\ crediter'[e].pc \in {"receipt", "idle"}
    BY SMTT(40), <1>6, <2>1 DEF ClaimRefund, CrediterAt, Shape
  <2>3. crediter'[e].pc = "receipt" => early' = (early \/ receipt.status # "issued")
    BY <1>6, CrediterAtOnly DEF ClaimRefund
  <2>4. (Busy(e)' /\ ~early') => receipt'.status = "issued"
    BY <1>1, <2>2, <2>3, Zenon DEF Busy
  <2>5. CrediterPaid(e)'
    BY <2>2, <2>4, Zenon DEF CrediterPaid
  <2> QED BY <1>4, <2>2, <2>5, Zenon
<1>7. CASE GetReceipt(e)
  <2>1. crediter[e].pays = <<>> /\ Busy(e) /\ early' = early
    BY <1>3, <1>7 DEF CrediterPaid, GetReceipt, Busy
  <2>2. /\ \A f \in Crediters : f # e => crediter'[f] = crediter[f]
        /\ crediter'[e].pays = <<>>
    BY <1>7, <2>1 DEF GetReceipt, CrediterAt, Shape
  <2>3. ~early' => receipt'.status = "issued"
    BY <1>1, <1>3, <2>1, Zenon DEF CrediterPaid
  <2>4. CrediterPaid(e)'
    BY <2>2, <2>3, Zenon DEF CrediterPaid
  <2> QED BY <1>4, <2>2, <2>4
<1>8. CASE InvoiceWithPayments(e)
  <2>1. Busy(e) /\ early' = early /\ crediter[e].ref \in Ids
    BY <1>3, <1>8 DEF InvoiceWithPayments, Busy, Sums, AtInvoice
  <2> DEFINE i == crediter[e].ref
             next == IF invoices[i].state = "deleted" THEN "block"
                     ELSE IF crediter[e].pc = "reget" THEN "apply"
                     ELSE IF crediter[e].credit # 0 THEN "getcredit" ELSE "newcredit"
             seen == [crediter[e] EXCEPT !.pc = next, !.owed = Balance(i), !.pays = invoices[i].pays]
  <2>2. \/ crediter' = [crediter EXCEPT ![e] = seen]
        \/ \E pc \in {"release", "block"} : CrediterAt(e, pc)
    BY <1>8, ZenonT(60) DEF InvoiceWithPayments
  <2>5. PICK w : w = seen
    OBVIOUS
  <2>3. ASSUME NEW pc \in {"release", "block"}, CrediterAt(e, pc) PROVE PayOk'
    <3>1. /\ crediter'[e].pays = crediter[e].pays /\ crediter'[e].ref = crediter[e].ref
          /\ crediter'[e].pc \notin {"claim", "receipt"} /\ \A f \in Crediters : f # e => crediter'[f] = crediter[f]
      BY <2>2, <2>3 DEF CrediterAt, Shape
    <3>2. CrediterPaid(e)'
      BY <1>1, <1>2, <2>1, <3>1, CrediterOnPays, ZenonT(60)
    <3> QED BY ZenonT(40), <1>4, <3>1, <3>2
  <2>4. CASE crediter' = [crediter EXCEPT ![e] = w]
    <3>1. crediter'[e] = w /\ \A f \in Crediters : f # e => crediter'[f] = crediter[f]
      BY <2>4, CrediterStays, Zenon
    <3>2. w.pays = invoices[crediter[e].ref].pays /\ w.ref = crediter[e].ref /\ w.pc \notin {"claim", "receipt"}
      BY <2>5 DEF Shape
    <3>3. ~early' => receipt'.status = "issued"
      BY <1>1, <1>3, <2>1, Zenon DEF CrediterPaid
    <3>4. CrediterPaid(e)'
      BY <1>1, <2>1, <3>1, <3>2, <3>3, Zenon DEF CrediterPaid
    <3> QED BY <1>4, <3>1, <3>4
  <2> HIDE DEF seen
  <2> QED BY <2>2, <2>3, <2>4, <2>5, ZenonT(60)
<1> QED BY <1>5, <1>6, <1>7, <1>8, Zenon

\* A request of the crediter about the invoice it credits.
LEMMA BooksPay ==
  ASSUME PayOk, Types, Shape, NEW e \in Crediters, crediter[e].pc \in {"refund", "apply"},
         NEW pc \in {"reget", "apply", "mark", "release", "block"}, CrediterAt(e, pc),
         NEW i \in Ids, NEW v, invoices' \in {invoices, [invoices EXCEPT ![i] = v]},
         invoices' # invoices => Follows(invoices[i], v) /\ InvoiceOk(v),
         UNCHANGED <<receipt, issuer, early>>
  PROVE  PayOk'
<1>1. \A j \in Ids : invoices'[j] = invoices[j] \/ (invoices' # invoices /\ j = i /\ invoices'[j] = v)
  BY DEF Shape
<1>2. ReceiptSays
  BY Zenon DEF ReceiptSays
<1>3. \A j \in Ids : Follows(invoices[j], invoices'[j])
  <2> SUFFICES ASSUME NEW j \in Ids PROVE Follows(invoices[j], invoices'[j])
    OBVIOUS
  <2>1. CASE invoices'[j] = invoices[j]
    BY <2>1, Zenon DEF Follows
  <2> QED BY <1>1, <2>1, Zenon
<1>4. \A j \in Ids : InvoiceOk(invoices[j])'
  <2> SUFFICES ASSUME NEW j \in Ids PROVE InvoiceOk(invoices[j])'
    OBVIOUS
  <2>1. CASE invoices'[j] = v /\ InvoiceOk(v)
    BY <2>1, Zenon DEF InvoiceOk, Blank
  <2> QED BY <1>1, <2>1, InvoiceStays, Zenon
<1>5. Busy(e)
  BY ZenonT(40) DEF Busy
<1>6. early \/ receipt.status = "issued"
  BY <1>5, Zenon DEF PayOk, CrediterPaid
<1>7. /\ crediter'[e].pays = crediter[e].pays /\ crediter'[e].ref = crediter[e].ref
      /\ crediter'[e].pc \notin {"claim", "receipt"} /\ \A f \in Crediters : f # e => crediter'[f] = crediter[f]
  BY DEF CrediterAt, Shape
<1>8. CrediterPaid(e)'
  BY <1>2, <1>3, <1>5, <1>7, CrediterOnPays, Zenon DEF Follows
<1> QED BY <1>2, <1>3, <1>4, <1>6, <1>7, <1>8, PayFollows, ZenonT(60)

\* What a request of the crediter can do.
LEMMA AskBooksDoes ==
  ASSUME NEW e \in Crediters, NEW possible, NEW inv, NEW crd, NEW next \in {"reget", "apply", "mark"},
         AskBooks(e, possible, inv, crd, next)
  PROVE  /\ (invoices' = invoices /\ credits' = credits) \/ (possible /\ invoices' = inv /\ credits' = crd)
         /\ \E pc \in {"reget", "apply", "mark", "release", "block"} : CrediterAt(e, pc)
<1>1. (invoices' = invoices /\ credits' = credits) \/ (possible /\ invoices' = inv /\ credits' = crd)
  BY Zenon DEF AskBooks, books
<1>2. \E pc \in {"reget", "apply", "mark", "release", "block"} : CrediterAt(e, pc)
  BY Zenon DEF AskBooks
<1> QED BY <1>1, <1>2, Zenon

LEMMA RefundPaymentPays ==
  ASSUME PayOk, Types, Shape, NEW e \in Crediters, RefundPayment(e)
  PROVE  PayOk'
<1>1. PICK i : i = crediter[e].ref
  OBVIOUS
<1>2. PICK a : a = crediter[e].amount
  OBVIOUS
<1>3. PICK p : p = Payable(crediter[e].pays, a)
  OBVIOUS
<1>4. PICK v : v = GivenBack(invoices[i], p, a)
  OBVIOUS
<1>5. crediter[e].pc = "refund" /\ UNCHANGED <<receipt, issuer, early>>
  BY Zenon DEF RefundPayment, rows
<1>6. i \in Ids /\ a \in Int
  <2>1. crediter[e].ref \in {0} \cup Ids /\ crediter[e].ref # 0 /\ crediter[e].amount \in 1 .. Amount
    BY <1>5 DEF Types, Sums, AtInvoice
  <2> QED BY SMTT(40), <1>1, <1>2, <2>1, BillingAssumption
<1>7. /\ \E pc \in {"reget", "apply", "mark", "release", "block"} : CrediterAt(e, pc)
      /\ invoices' = invoices \/ (p # 0 /\ invoices' = [invoices EXCEPT ![i] = v])
  <2>1. CASE p = 0
    BY <1>1, <1>2, <1>3, <2>1, Zenon DEF RefundPayment, books
  <2>2. CASE p # 0
    <3>1. AskBooks(e, invoices[i].state = "sent" /\ Amount - invoices[i].pays[p] >= a,
                   [invoices EXCEPT ![i] = v], credits, "reget")
      BY <1>1, <1>2, <1>3, <1>4, <2>2, Zenon DEF RefundPayment
    <3> QED BY <2>2, <3>1, AskBooksDoes, Zenon
  <2> QED BY <2>1, <2>2
<1>8. ASSUME p # 0 PROVE Follows(invoices[i], v) /\ InvoiceOk(v)
  <2>1. crediter[e].pays # <<>>
    BY <1>3, <1>8 DEF Payable
  <2>2. invoices[i].pays # <<>>
    BY <1>1, <2>1, Zenon DEF PayOk, CrediterPaid
  <2>3. invoices[i].pays \in Seq(Int)
    BY <1>6 DEF Types, Figures
  <2>4. PICK s : s = [invoices[i].pays EXCEPT ![p] = invoices[i].pays[p] + a]
    BY Zenon
  <2>5. s # <<>> /\ Len(s) = Len(invoices[i].pays)
    BY ZenonT(40), <1>6, <2>2, <2>3, <2>4, PaysAfter
  <2>6. v.state = invoices[i].state /\ v.pays = s
    BY ZenonT(40), <1>4, <1>6, <2>4 DEF GivenBack, Shape
  <2>7. Follows(invoices[i], v)
    BY <2>5, <2>6, Zenon DEF Follows
  <2>8. InvoiceOk(invoices[i])
    BY <1>6 DEF PayOk
  <2>9. v.state \notin {"none", "draft"}
    BY <2>2, <2>6, <2>8, Zenon DEF InvoiceOk, Blank
  <2>10. ~early => Len(v.pays) <= 1
    BY <2>5, <2>6, <2>8, Zenon DEF InvoiceOk
  <2>11. early \/ receipt.status = "issued"
    BY <1>5 DEF PayOk, CrediterPaid, Busy
  <2> QED BY <2>5, <2>6, <2>7, <2>9, <2>10, <2>11, Zenon DEF InvoiceOk
<1>9. /\ invoices' \in {invoices, [invoices EXCEPT ![i] = v]}
      /\ invoices' # invoices => Follows(invoices[i], v) /\ InvoiceOk(v)
  BY <1>7, <1>8, Zenon
<1>10. PICK pc \in {"reget", "apply", "mark", "release", "block"} : CrediterAt(e, pc)
  BY <1>7, Zenon
<1>11. crediter[e].pc \in {"refund", "apply"} /\ i \in Ids /\ UNCHANGED <<receipt, issuer, early>>
  BY ZenonT(40), <1>5, <1>6
<1> QED BY <1>9, <1>10, <1>11, BooksPay, SMTT(30)

LEMMA ApplyCreditPays ==
  ASSUME PayOk, Types, Shape, NEW e \in Crediters, ApplyCredit(e)
  PROVE  PayOk'
<1>1. PICK i : i = crediter[e].ref
  OBVIOUS
<1>2. PICK a : a = Least({crediter[e].amount, crediter[e].owed, crediter[e].left})
  OBVIOUS
<1>3. PICK v : v = Credited(invoices[i], a)
  OBVIOUS
<1>4. crediter[e].pc = "apply" /\ UNCHANGED <<receipt, issuer, early>>
  BY DEF ApplyCredit, rows
<1>5. i \in Ids /\ a \in Int
  <2>1. i \in Ids
    BY ZenonT(40), <1>1, <1>4 DEF Types, Sums, AtInvoice
  <2>2. crediter[e].amount \in Int /\ crediter[e].owed \in Int /\ crediter[e].left \in Int
    BY DEF Types, Sums
  <2>3. a \in {crediter[e].amount, crediter[e].owed, crediter[e].left}
    BY <1>2, <2>2, LeastIs, Zenon
  <2> QED BY ZenonT(40), <2>1, <2>2, <2>3
<1>6. /\ \E pc \in {"reget", "apply", "mark", "release", "block"} : CrediterAt(e, pc)
      /\ invoices' = invoices \/ (~(a <= 0) /\ a <= Balance(i) /\ invoices' = [invoices EXCEPT ![i] = v])
  <2>1. CASE a <= 0
    BY <1>2, <2>1 DEF ApplyCredit, books
  <2>2. CASE ~(a <= 0)
    <3>1. AskBooks(e, a <= Balance(i) /\ a <= CreditLeft(crediter[e].credit),
                   [invoices EXCEPT ![i] = v], [credits EXCEPT ![crediter[e].credit].left = @ - a], "mark")
      BY <1>1, <1>2, <1>3, <2>2, Zenon DEF ApplyCredit
    <3> QED BY <2>2, <3>1, AskBooksDoes, Zenon
  <2> QED BY <2>1, <2>2
<1>7. ASSUME ~(a <= 0), a <= Balance(i) PROVE Follows(invoices[i], v) /\ InvoiceOk(v)
  <2>1. invoices[i].owed \in Int /\ InvoiceOk(invoices[i])
    BY ZenonT(40), <1>5 DEF Types, Figures, PayOk
  <2>2. invoices[i].state = "sent" /\ invoices[i].owed > 0 /\ invoices[i].owed - a >= 0
    BY <1>5, <1>7, <2>1 DEF Balance
  <2>3. /\ v.state = invoices[i].state /\ v.pays = invoices[i].pays
        /\ v.owed = invoices[i].owed - a
    BY ZenonT(40), <1>3, <1>5 DEF Credited, Shape
  <2>4. Follows(invoices[i], v)
    BY SMTT(40), <2>1, <2>2, <2>3 DEF Follows
  <2>5. early \/ receipt.status = "issued"
    BY ZenonT(40), <1>4 DEF PayOk, CrediterPaid, Busy
  <2>6. InvoiceOk(v)
    BY ZenonT(40), <2>1, <2>2, <2>3, <2>5 DEF InvoiceOk
  <2> QED BY ZenonT(40), <2>4, <2>6
<1>8. /\ invoices' \in {invoices, [invoices EXCEPT ![i] = v]}
      /\ invoices' # invoices => Follows(invoices[i], v) /\ InvoiceOk(v)
  BY <1>6, <1>7, Zenon
<1>9. PICK pc \in {"reget", "apply", "mark", "release", "block"} : CrediterAt(e, pc)
  BY <1>6, Zenon
<1>10. crediter[e].pc \in {"refund", "apply"} /\ i \in Ids /\ UNCHANGED <<receipt, issuer, early>>
  BY <1>4, <1>5
<1> QED BY <1>8, <1>9, <1>10, BooksPay, SMTT(30)

LEMMA DeleteInvoicePays ==
  ASSUME PayOk, Types, Shape, NEW i \in Ids, DeleteInvoice(i)
  PROVE  PayOk'
<1>1. UNCHANGED <<receipt, issuer, crediter, early>> /\ invoices[i].state \in {"draft", "sent"}
  BY DEF DeleteInvoice, rows
<1>2. /\ \A j \in Ids : j # i => invoices'[j] = invoices[j]
      /\ invoices'[i].state = "deleted" /\ invoices'[i].pays = invoices[i].pays
      /\ invoices'[i].owed = invoices[i].owed /\ invoices'[i].back = invoices[i].back
  BY DEF DeleteInvoice, Shape
<1>3. ReceiptSays
  BY <1>1, Zenon DEF ReceiptSays
<1>4. \A j \in Ids : Follows(invoices[j], invoices'[j])
  BY <1>2, ZenonT(60) DEF Follows
<1>5. InvoiceOk(invoices[i])'
  <2>1. InvoiceOk(invoices[i])
    BY DEF PayOk
  <2> QED BY <1>1, <1>2, <2>1 DEF InvoiceOk
<1>6. \A j \in Ids : InvoiceOk(invoices[j])'
  BY <1>1, <1>2, <1>5, InvoiceStays, Zenon
<1>7. \A j \in Ids : invoices'[j].pays = invoices[j].pays
  BY <1>2, Zenon
<1> QED BY <1>1, <1>3, <1>4, <1>6, <1>7, PayFollows, Zenon

LEMMA OthersPay ==
  ASSUME PayOk, Types, Shape,
         \/ (\E c \in Notes : DeleteCredit(c)) \/ (\E a \in Refundable : RecordRefund(a))
         \/ DeleteRefund \/ RequeueReceipt \/ RequeueRefund \/ ReceiptLeaseLapses \/ RefundLeaseLapses
         \/ UNCHANGED vars
  PROVE  PayOk'
<1>1. UNCHANGED <<invoices, issuer, crediter, early>>
  BY Zenon DEF DeleteCredit, RecordRefund, DeleteRefund, RequeueReceipt, RequeueRefund, ReceiptLeaseLapses,
     RefundLeaseLapses, books, vars
<1>2. receipt' = receipt \/ RequeueReceipt \/ ReceiptLeaseLapses
  BY Zenon DEF DeleteCredit, RecordRefund, DeleteRefund, RequeueRefund, RefundLeaseLapses, rows, vars
<1>3. receipt'.ref = receipt.ref /\ (receipt'.status = "issued" <=> receipt.status = "issued")
  BY <1>2 DEF RequeueReceipt, ReceiptLeaseLapses, Shape
<1>4. ReceiptSays
  BY <1>1, <1>3, Zenon DEF ReceiptSays
<1> QED BY <1>1, <1>4, PayStill, Zenon

LEMMA InitPay == Init => Types /\ PayOk
<1> SUFFICES ASSUME Init PROVE Types /\ PayOk
  OBVIOUS
<1>1. Types
  <2>1. \A i \in Ids : Figures(invoices[i])
    <3>1. <<>> \in Seq(Int)
      BY SMTT(40)
    <3>2. Figures(NoInvoice)
      BY SMTT(40), <3>1 DEF NoInvoice, Figures
    <3>3. \A i \in Ids : invoices[i] = NoInvoice
      BY ZenonT(40) DEF Init
    <3> QED BY <3>2, <3>3, Zenon
  <2>2. \A e \in Crediters : Sums(crediter[e])
    BY ZenonT(40), UncreditedSums DEF Init
  <2>3. /\ receipt.ref = 0 /\ \A d \in Issuers : issuer[d].ref = 0
        /\ refund.amount \in 1 .. Amount /\ refund.credit = 0
        /\ \A c \in Notes : credits[c].left \in Int
    BY SMTT(40), BillingAssumption DEF Init, Unissued, NoCredit
  <2> QED BY <2>1, <2>2, <2>3, Zenon DEF Types
<1>2. \A i \in Ids : InvoiceOk(invoices[i])
  BY DEF Init, NoInvoice, InvoiceOk, Blank
<1>3. \A d \in Issuers : IssuerOk(d)
  BY Zenon DEF Init, Unissued, IssuerOk
<1>4. RowNamed /\ IssuedOk
  BY DEF Init, RowNamed, IssuedOk
<1>5. \A e \in Crediters : CrediterPaid(e)
  BY Zenon DEF Init, Uncredited, CrediterPaid, Busy
<1> QED BY <1>1, <1>2, <1>3, <1>4, <1>5, Zenon DEF PayOk

LEMMA NextPay ==
  ASSUME PayOk, ReceiptOk, Types, Shape, [Next]_vars, ~stale'
  PROVE  PayOk'
<1>1. ASSUME NEW d \in Issuers, IssuerStep(d) \/ StopIssuer(d) PROVE PayOk'
  BY <1>1, IssuerPlainPays, ClaimReceiptPays, GetInvoicePays, CreateInvoicePays, SetReceiptInvoicePays,
     MarkSentPays, RecordPaymentPays, MarkReceiptIssuedPays, Zenon DEF IssuerStep
<1>2. ASSUME NEW e \in Crediters, CrediterStep(e) \/ StopCrediter(e) PROVE PayOk'
  BY <1>2, CrediterPlainPays, CrediterReadsPays, RefundPaymentPays, ApplyCreditPays, Zenon DEF CrediterStep
<1> QED BY <1>1, <1>2, DeleteInvoicePays, OthersPay, Zenon DEF Next
-----------------------------------------------------------------------------
Payments == ~stale => PayOk

LEMMA PaysInvariance == Spec => [](IInv /\ Types /\ Payments)
<1>1. Init => IInv /\ Types /\ Payments
  BY InitIInv, InitPay, Zenon DEF Payments
<1>2. IInv /\ Types /\ Payments /\ [Next]_vars => (IInv /\ Types /\ Payments)'
  <2> SUFFICES ASSUME IInv, Types, Payments, [Next]_vars PROVE (IInv /\ Types /\ Payments)'
    OBVIOUS
  <2>1. IInv' /\ Types'
    BY NextIInv, TypesStep, Zenon DEF IInv
  <2>2. ASSUME ~stale' PROVE PayOk'
    <3>1. ~stale
      BY <2>2, StaleStays, Zenon
    <3>2. PayOk /\ ReceiptOk /\ Shape
      BY <3>1, Zenon DEF Payments, IInv, Sound
    <3> QED BY <2>2, <3>2, NextPay, Zenon
  <2> QED BY <2>1, <2>2, Zenon DEF Payments
<1> QED BY <1>1, <1>2, PTL DEF Spec

\* Without a lapsed lease under its holder, a receipt that says it was issued
\* names an invoice that was numbered and settled (or that a person deleted),
\* and however often IssueReceipt was retried the payment is recorded once.
THEOREM RecordedOnce == Spec => []PaidOnce
<1>1. IInv /\ Types /\ Payments => PaidOnce
  <2> SUFFICES ASSUME Types, Payments, ~stale
               PROVE  /\ receipt.status = "issued" =>
                             receipt.ref # 0 /\ (invoices[receipt.ref].state = "deleted" \/ Settled(receipt.ref))
                      /\ ~early => \A i \in Ids : Len(invoices[i].pays) <= 1
    BY Zenon DEF PaidOnce
  <2>1. receipt.status = "issued" => Done(receipt.ref)
    BY Zenon DEF Payments, PayOk, IssuedOk
  <2>2. ~early => \A i \in Ids : Len(invoices[i].pays) <= 1
    BY Zenon DEF Payments, PayOk, InvoiceOk
  <2> QED BY <2>1, <2>2, Positive, Zenon DEF Done
<1> QED BY <1>1, PaysInvariance, PTL
=============================================================================
