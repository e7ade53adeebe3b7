------------------------------ MODULE Receipts ------------------------------
(***************************************************************************)
(* The numbers of a store's receipts.  A receipt is written in the         *)
(* transaction that confirms its payment (settleConfirmedPayment), with a  *)
(* number from a counter per store and day.  The transaction locks the     *)
(* account first, but a store has two, TEST and LIVE, and one counter.     *)
(***************************************************************************)
EXTENDS Integers

CONSTANTS
  Sales,       \* payments to be confirmed
  Purses,      \* the store's accounts
  PurseOf,     \* the account of a payment's environment
  Days,
  NoSale

ASSUME ReceiptAssumption ==
  PurseOf \in [Sales -> Purses] /\ NoSale \notin Sales

VARIABLES
  today,
  purseHolder,   \* accounts: the transaction that holds the row
  counter,       \* receipt_counters: committed sequence of a day
  counterHolder, \* receipt_counters: the transaction that has incremented it
  sale,          \* transactions, see SaleRecords
  receipts       \* committed receipts

receiptVars == <<today, purseHolder, counter, counterHolder, sale, receipts>>

SaleRecords ==
  [at : {"none", "locked", "dated", "numbered", "done"}, day : Days, n : Nat]

ReceiptsInit ==
  /\ today \in Days
  /\ purseHolder = [a \in Purses |-> NoSale]
  /\ counter = [d \in Days |-> 0] /\ counterHolder = [d \in Days |-> NoSale]
  /\ sale = [p \in Sales |-> [at |-> "none", day |-> today, n |-> 0]]
  /\ receipts = {}

Dawn ==
  /\ today' \in Days
  /\ UNCHANGED <<purseHolder, counter, counterHolder, sale, receipts>>

LockPurse(p) ==
  /\ sale[p].at = "none" /\ purseHolder[PurseOf[p]] = NoSale
  /\ purseHolder' = [purseHolder EXCEPT ![PurseOf[p]] = p]
  /\ sale' = [sale EXCEPT ![p].at = "locked"]
  /\ UNCHANGED <<today, counter, counterHolder, receipts>>

\* The day is taken from the clock of the process, before the counter.
DateReceipt(p) ==
  /\ sale[p].at = "locked"
  /\ sale' = [sale EXCEPT ![p].at = "dated", ![p].day = today]
  /\ UNCHANGED <<today, purseHolder, counter, counterHolder, receipts>>

\* Mutant: the counter is incremented on a connection of its own.
NumberAtOnce(p) ==
  LET d == sale[p].day IN
  /\ sale[p].at = "dated"
  /\ counter' = [counter EXCEPT ![d] = @ + 1]
  /\ sale' = [sale EXCEPT ![p].at = "numbered", ![p].n = counter[d] + 1]
  /\ UNCHANGED <<today, purseHolder, counterHolder, receipts>>

\* incrementCounter: an upsert, which waits for the transaction that inserted
\* or incremented the row.
IncrementCounter(p) ==
  LET d == sale[p].day IN
  /\ sale[p].at = "dated" /\ counterHolder[d] = NoSale
  /\ counterHolder' = [counterHolder EXCEPT ![d] = p]
  /\ sale' = [sale EXCEPT ![p].at = "numbered", ![p].n = counter[d] + 1]
  /\ UNCHANGED <<today, purseHolder, counter, receipts>>

Released(holder, p) == [x \in DOMAIN holder |-> IF holder[x] = p THEN NoSale ELSE holder[x]]

EndSale(p, place) ==
  /\ purseHolder' = Released(purseHolder, p)
  /\ counterHolder' = Released(counterHolder, p)
  /\ sale' = [sale EXCEPT ![p].at = place]

\* receipt_number and payment_id are unique: a second row is refused, and the
\* transaction can only be rolled back.
IssueReceipt(p) ==
  LET s == sale[p] IN
  /\ s.at = "numbered"
  /\ \A r \in receipts : r.sale # p /\ ~(r.day = s.day /\ r.n = s.n)
  /\ receipts' = receipts \cup {[sale |-> p, day |-> s.day, n |-> s.n]}
  /\ counter' = [counter EXCEPT ![s.day] = s.n]
  /\ EndSale(p, "done")
  /\ UNCHANGED today

\* A step that throws, a timeout, the loss of the connection, or a first
\* increment that meets another one's insertion; the payment stays open.
RollbackSale(p) ==
  /\ sale[p].at \in {"locked", "dated", "numbered"}
  /\ EndSale(p, "none")
  /\ UNCHANGED <<today, counter, receipts>>

ReceiptsNext ==
  \/ Dawn
  \/ \E p \in Sales :
       \/ LockPurse(p) \/ DateReceipt(p) \/ IncrementCounter(p)
       \/ IssueReceipt(p) \/ RollbackSale(p)

ReceiptsSpec == ReceiptsInit /\ [][ReceiptsNext]_receiptVars

-----------------------------------------------------------------------------
(* Properties.                                                             *)

\* Every variable stays within its type.
ReceiptsTypeOK ==
  /\ today \in Days
  /\ purseHolder \in [Purses -> Sales \cup {NoSale}]
  /\ counter \in [Days -> Nat] /\ counterHolder \in [Days -> Sales \cup {NoSale}]
  /\ sale \in [Sales -> SaleRecords]
  /\ receipts \subseteq [sale : Sales, day : Days, n : Nat]

NumbersOf(d) == {r.n : r \in {s \in receipts : s.day = d}}

\* The receipts of a day are numbered from 1 without a gap, however many
\* confirmations of the store's two accounts race, fail and run past midnight.
ReceiptsAreNumbered == \A d \in Days : NumbersOf(d) = 1 .. counter[d]

\* A payment has a receipt when it is confirmed, and one number is one payment.
OneReceiptEach ==
  /\ \A p \in Sales : sale[p].at = "done" <=> \E r \in receipts : r.sale = p
  /\ \A r, s \in receipts : r.sale = s.sale \/ (r.day = s.day /\ r.n = s.n) => r = s

\* Both.
ReceiptsAreSound == ReceiptsAreNumbered /\ OneReceiptEach
=============================================================================
