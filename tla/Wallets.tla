------------------------------- MODULE Wallets -------------------------------
(***************************************************************************)
(* modules/payments and the payout desk of admin.routes.ts: the wallets,   *)
(* the ledger (WalletTransaction), and everything that moves money between *)
(* them: the settlement of a completed ride, the top-up paid at Paystack,  *)
(* the driver's instant payout, and the staff's decision on a payout.      *)
(*                                                                         *)
(* Handlers interleave at every await.  An interactive transaction runs at *)
(* READ COMMITTED: what its first statements check it does not look at     *)
(* again, so the checks are one step and the writes, which become visible  *)
(* together, another.  Balances are updated by {increment} and {decrement},*)
(* which the database computes.                                            *)
(***************************************************************************)
EXTENDS Integers, FiniteSets, Functions

CONSTANTS
  Users,       \* wallet owners: passengers and drivers
  Trips,       \* rides that have been driven
  Payouts,     \* BOUND: rows of Payout ever created
  Topups,      \* BOUND: TOPUP rows ever created
  Actors,      \* BOUND: requests (webhook deliveries included) served at a time
  Fare, Commission,   \* a ride's fare and the platform's share of it
  Amounts,     \* BOUND: amounts of top-ups and payouts
  MaxPosted,   \* BOUND: times one ride is settled, one top-up credited
  None         \* no user, no subject

ASSUME NoneAssumption == None \notin Users \cup Trips \cup Payouts \cup Topups
ASSUME TablesAssumption ==   \* ids of different tables
  Trips \cap Payouts = {} /\ Trips \cap Topups = {} /\ Payouts \cap Topups = {}
ASSUME FiniteAssumption == IsFiniteSet(Trips) /\ IsFiniteSet(Payouts) /\ IsFiniteSet(Topups)
ASSUME MoneyAssumption == Fare \in Nat /\ Commission \in 0 .. Fare /\ Amounts \subseteq Nat \ {0}
ASSUME MaxPostedAssumption == MaxPosted \in Nat \ {0}

VARIABLES
  balance,    \* Wallet.balance (0 as long as the wallet does not exist)
  ride,       \* the rides: who, how paid, the assignment still ACCEPTED
  posted,     \* posted[t]: how often the ledger rows TRIP-SETTLE-t were written
  topup,      \* TOPUP rows: owner, amount, metadata.status
  credited,   \* history: how often a top-up was added to the balance
  payout,     \* rows of Payout, with the number of PAYOUT-k-REVERSAL ledger rows
  paystack,   \* external: what the provider knows of each top-up
  job,        \* job[a]: the request a is serving
  overlapped, \* history: subjects two requests were deciding on at the same time
  stranded    \* history: top-ups marked paid whose request ended before the credit

vars == <<balance, ride, posted, topup, credited, payout, paystack, job, overlapped, stranded>>

\* PAYSTACK_CARD stands for MTN_MOMO, too; NONE: the ride has no RidePayment.
Methods == {"WALLET", "PAYSTACK_CARD", "CASH_ON_DELIVERY", "NONE"}
Subjects == Trips \cup Payouts \cup Topups
PayoutStatuses == {"PENDING", "PROCESSING", "PAID", "FAILED"}
JobPCs == {"idle", "post", "finish", "checkout", "keep", "ask", "mark", "credit",
           "reserve", "transfer", "record", "refund", "markPaid", "markFailed"}

NoTopup == [owner |-> None, amount |-> 0, meta |-> "none"]
NoPayout == [owner |-> None, amount |-> 0, st |-> "NONE", refunds |-> 0]
NoJob == [pc |-> "idle", on |-> None, user |-> None, amount |-> 0, seen |-> "none", own |-> FALSE]

Rides == [passenger : Users, driver : Users, method : Methods, accepted : BOOLEAN]
TopupRows == [owner : Users, amount : Amounts, meta : {"none", "open", "pending", "success"}]
PayoutRows == [owner : Users, amount : Amounts, st : PayoutStatuses, refunds : Nat]
Answers == {"none", "pending", "success"}
Jobs == [pc : JobPCs, on : Subjects \cup {None}, user : Users \cup {None},
         amount : Amounts \cup {0}, seen : Answers, own : BOOLEAN]

TypeOK ==
  /\ balance \in [Users -> Int]
  /\ ride \in [Trips -> Rides]
  /\ posted \in [Trips -> 0 .. MaxPosted]
  /\ topup \in [Topups -> TopupRows \cup {NoTopup}]
  /\ credited \in [Topups -> 0 .. MaxPosted]
  /\ payout \in [Payouts -> PayoutRows \cup {NoPayout}]
  /\ paystack \in [Topups -> Answers]
  /\ job \in [Actors -> Jobs]
  /\ overlapped \in SUBSET Subjects
  /\ stranded \in SUBSET Topups

\* Rides at their destination, whoever drove them and however they are paid.
Init ==
  /\ balance = [u \in Users |-> 0]
  /\ ride \in [Trips -> {r \in Rides : r.passenger # r.driver /\ r.accepted}]
  /\ posted = [t \in Trips |-> 0]
  /\ topup = [k \in Topups |-> NoTopup]
  /\ credited = [k \in Topups |-> 0]
  /\ payout = [k \in Payouts |-> NoPayout]
  /\ paystack = [k \in Topups |-> "none"]
  /\ job = [a \in Actors |-> NoJob]
  /\ overlapped = {}
  /\ stranded = {}

Idle(a) == job[a].pc = "idle"
Goto(a, j) == job' = [job EXCEPT ![a] = j]
GoOn(a, pc) == Goto(a, [job[a] EXCEPT !.pc = pc])
Reply(a) == Goto(a, NoJob)

\* a takes up a request on k, about which another may be past its checks.
Take(a, k, j) ==
  /\ Idle(a) /\ Goto(a, j)
  /\ overlapped' = IF \E b \in Actors : job[b].on = k /\ job[b].pc # "finish"
                     THEN overlapped \cup {k} ELSE overlapped

-----------------------------------------------------------------------------
(* A ride is completed, by its driver (own) or by staff: settleRideTrip, and *)
(* for the driver's request the end of the assignment.                       *)

\* Mutant: the ledger is not asked whether the trip was settled before.
SettleReadAgain(a, t, own) ==
  /\ ride[t].accepted
  /\ Take(a, t, [NoJob EXCEPT !.pc = "post", !.own = own, !.on = t])
  /\ UNCHANGED <<balance, ride, posted, topup, credited, payout, paystack, stranded>>

\* The reads of the transaction: an ACCEPTED assignment, no ledger row.  (A trip
\* without the one or with the other is left as it is.)
SettleRead(a, t, own) ==
  /\ ride[t].accepted /\ (own \/ posted[t] = 0)
  /\ Take(a, t, [NoJob EXCEPT !.pc = IF posted[t] = 0 THEN "post" ELSE "finish", !.own = own, !.on = t])
  /\ UNCHANGED <<balance, ride, posted, topup, credited, payout, paystack, stranded>>

\* What one settlement of t moves for u: the ledger rows TRIP-SETTLE-t.
SettlementOf(t, u) ==
  LET r == ride[t] IN
  (IF u = r.passenger /\ r.method = "WALLET" THEN -Fare ELSE 0)
    + (IF u # r.driver THEN 0
       ELSE IF r.method \in {"WALLET", "PAYSTACK_CARD"} THEN Fare - Commission ELSE -Commission)

\* Mutant: the driver's wallet gets the whole fare, the ledger says the net.
SettlePostGross(a) ==
  LET t == job[a].on IN
  /\ job[a].pc = "post" /\ posted[t] < MaxPosted
  /\ ride[t].method = "NONE" => posted[t] = 0
  /\ balance' = [u \in Users |-> IF u = ride[t].driver THEN balance[u] + Fare
                                                       ELSE balance[u] + SettlementOf(t, u)]
  /\ posted' = [posted EXCEPT ![t] = @ + 1]
  /\ IF job[a].own THEN GoOn(a, "finish") ELSE Reply(a)
  /\ UNCHANGED <<ride, topup, credited, payout, paystack, overlapped, stranded>>

\* The writes of the transaction.  RidePayment.tripId is unique: where the payment
\* has to be created, a second settlement rolls back (and the request Fails).
SettlePost(a) ==
  LET t == job[a].on IN
  /\ job[a].pc = "post" /\ posted[t] < MaxPosted
  /\ ride[t].method = "NONE" => posted[t] = 0
  /\ balance' = [u \in Users |-> balance[u] + SettlementOf(t, u)]
  /\ posted' = [posted EXCEPT ![t] = @ + 1]
  /\ IF job[a].own THEN GoOn(a, "finish") ELSE Reply(a)
  /\ UNCHANGED <<ride, topup, credited, payout, paystack, overlapped, stranded>>

SettleFinish(a) ==
  /\ job[a].pc = "finish"
  /\ ride' = [ride EXCEPT ![job[a].on].accepted = FALSE]
  /\ Reply(a)
  /\ UNCHANGED <<balance, posted, topup, credited, payout, paystack, overlapped, stranded>>

-----------------------------------------------------------------------------
(* POST /wallet-topup, the payment at Paystack, and markPaystackWalletTopup  *)
(* for the webhook and for POST /wallet-verify.                              *)

TopupCreate(a, u, k, n) ==
  /\ topup[k] = NoTopup
  /\ topup' = [topup EXCEPT ![k] = [owner |-> u, amount |-> n, meta |-> "none"]]
  /\ Take(a, k, [NoJob EXCEPT !.pc = "checkout", !.on = k])
  /\ UNCHANGED <<balance, ride, posted, credited, payout, paystack, stranded>>

\* initializePaystackTransaction.
TopupCheckout(a) ==
  /\ job[a].pc = "checkout"
  /\ paystack' = [paystack EXCEPT ![job[a].on] = "pending"]
  /\ GoOn(a, "keep")
  /\ UNCHANGED <<balance, ride, posted, topup, credited, payout, overlapped, stranded>>

\* The page's address replaces the metadata; the answer shows it to the customer.
TopupKeep(a) ==
  /\ job[a].pc = "keep"
  /\ topup' = [topup EXCEPT ![job[a].on].meta = "open"]
  /\ Reply(a)
  /\ UNCHANGED <<balance, ride, posted, credited, payout, paystack, overlapped, stranded>>

\* External: the customer, who has the page's address by then, pays, or never does.
CustomerPays(k) ==
  /\ paystack[k] = "pending" /\ topup[k].meta # "none"
  /\ \A a \in Actors : ~(job[a].pc = "keep" /\ job[a].on = k)
  /\ paystack' = [paystack EXCEPT ![k] = "success"]
  /\ UNCHANGED <<balance, ride, posted, topup, credited, payout, job, overlapped, stranded>>

\* Mutant: a confirmed top-up is confirmed again.
VerifyReadAgain(a, k) ==
  /\ topup[k] # NoTopup
  /\ Take(a, k, [NoJob EXCEPT !.pc = "ask", !.on = k])
  /\ UNCHANGED <<balance, ride, posted, topup, credited, payout, paystack, stranded>>

\* The row, by its reference: done when its metadata say success.
VerifyRead(a, k) ==
  /\ topup[k] # NoTopup /\ topup[k].meta # "success"
  /\ Take(a, k, [NoJob EXCEPT !.pc = "ask", !.on = k])
  /\ UNCHANGED <<balance, ride, posted, topup, credited, payout, paystack, stranded>>

\* verifyPaystackTransaction; of what Paystack does not know it throws (Fails).
VerifyAsk(a) ==
  /\ job[a].pc = "ask" /\ paystack[job[a].on] # "none"
  /\ Goto(a, [job[a] EXCEPT !.pc = "mark", !.seen = paystack[job[a].on]])
  /\ UNCHANGED <<balance, ride, posted, topup, credited, payout, paystack, overlapped, stranded>>

\* The answer becomes the metadata, by id and whatever they are by now.
VerifyMark(a) ==
  /\ job[a].pc = "mark"
  /\ topup' = [topup EXCEPT ![job[a].on].meta = job[a].seen]
  /\ IF job[a].seen = "success" THEN GoOn(a, "credit") ELSE Reply(a)
  /\ UNCHANGED <<balance, ride, posted, credited, payout, paystack, overlapped, stranded>>

VerifyCredit(a) ==
  LET k == job[a].on IN
  /\ job[a].pc = "credit" /\ credited[k] < MaxPosted
  /\ balance' = [balance EXCEPT ![topup[k].owner] = @ + topup[k].amount]
  /\ credited' = [credited EXCEPT ![k] = @ + 1]
  /\ Reply(a)
  /\ UNCHANGED <<ride, posted, topup, payout, paystack, overlapped, stranded>>

-----------------------------------------------------------------------------
(* POST /instant-payout *)

\* u is a driver; the balance is checked before, and not in, the transaction.
PayoutRead(a, u, n) ==
  /\ Idle(a) /\ n <= balance[u]
  /\ Goto(a, [NoJob EXCEPT !.pc = "reserve", !.user = u, !.amount = n])
  /\ UNCHANGED <<balance, ride, posted, topup, credited, payout, paystack, overlapped, stranded>>

\* The transaction that reserves the money.  Without Paystack transfers the payout
\* is left to the staff.
PayoutReserve(a, k) ==
  LET u == job[a].user
      n == job[a].amount
  IN
  /\ job[a].pc = "reserve" /\ payout[k] = NoPayout
  /\ payout' = [payout EXCEPT ![k] = [owner |-> u, amount |-> n, st |-> "PENDING", refunds |-> 0]]
  /\ balance' = [balance EXCEPT ![u] = @ - n]
  /\ Reply(a) \/ Goto(a, [NoJob EXCEPT !.pc = "transfer", !.on = k])
  /\ UNCHANGED <<ride, posted, topup, credited, paystack, overlapped, stranded>>

\* External: createTransferRecipient and initiateTransfer succeed, are accepted, or
\* are refused (or unanswered).
PayoutTransfer(a) ==
  /\ job[a].pc = "transfer"
  /\ \/ \E s \in {"success", "pending"} : Goto(a, [job[a] EXCEPT !.pc = "record", !.seen = s])
     \/ GoOn(a, "refund")
  /\ UNCHANGED <<balance, ride, posted, topup, credited, payout, paystack, overlapped, stranded>>

PayoutRecord(a) ==
  /\ job[a].pc = "record"
  /\ payout' = [payout EXCEPT ![job[a].on].st = IF job[a].seen = "success" THEN "PAID" ELSE "PROCESSING"]
  /\ Reply(a)
  /\ UNCHANGED <<balance, ride, posted, topup, credited, paystack, overlapped, stranded>>

\* The money goes back to the wallet and the payout is FAILED, in one transaction.
GiveBack(k) ==
  /\ balance' = [balance EXCEPT ![payout[k].owner] = @ + payout[k].amount]
  /\ payout' = [payout EXCEPT ![k].st = "FAILED", ![k].refunds = @ + 1]

\* The catch block.
PayoutRefund(a) ==
  /\ job[a].pc = "refund"
  /\ GiveBack(job[a].on)
  /\ Reply(a)
  /\ UNCHANGED <<ride, posted, topup, credited, paystack, overlapped, stranded>>

-----------------------------------------------------------------------------
(* POST /admin/payouts/:id/mark-paid and mark-failed *)

\* Mutant: a payout that has failed may be failed again.
DeskReadAgain(a, k, verdict) ==
  /\ payout[k].st \in {"PENDING", "PROCESSING", "FAILED"}
  /\ Take(a, k, [NoJob EXCEPT !.pc = verdict, !.on = k])
  /\ UNCHANGED <<balance, ride, posted, topup, credited, payout, paystack, stranded>>

\* Decided payouts are refused, or returned as they are.
DeskRead(a, k, verdict) ==
  /\ payout[k].st \in {"PENDING", "PROCESSING"}
  /\ Take(a, k, [NoJob EXCEPT !.pc = verdict, !.on = k])
  /\ UNCHANGED <<balance, ride, posted, topup, credited, payout, paystack, stranded>>

DeskMarkPaid(a) ==
  /\ job[a].pc = "markPaid"
  /\ payout' = [payout EXCEPT ![job[a].on].st = "PAID"]
  /\ Reply(a)
  /\ UNCHANGED <<balance, ride, posted, topup, credited, paystack, overlapped, stranded>>

DeskMarkFailed(a) ==
  /\ job[a].pc = "markFailed"
  /\ GiveBack(job[a].on)
  /\ Reply(a)
  /\ UNCHANGED <<ride, posted, topup, credited, paystack, overlapped, stranded>>

-----------------------------------------------------------------------------

\* A query rejects: what was committed stays, a paid top-up that is not credited
\* included.  The record of a transfer is inside the try block whose catch refunds.
Fails(a) ==
  /\ ~Idle(a)
  /\ IF job[a].pc = "record" THEN GoOn(a, "refund") ELSE Reply(a)
  /\ stranded' = stranded \cup {k \in Topups : job[a].pc = "credit" /\ job[a].on = k}
  /\ UNCHANGED <<balance, ride, posted, topup, credited, payout, paystack, overlapped>>

\* The process dies and starts again.
Crash ==
  /\ job' = [a \in Actors |-> NoJob]
  /\ stranded' = stranded \cup {k \in Topups : \E a \in Actors : job[a].pc = "credit" /\ job[a].on = k}
  /\ UNCHANGED <<balance, ride, posted, topup, credited, payout, paystack, overlapped>>

Begin(a) ==
  \/ \E t \in Trips, own \in BOOLEAN : SettleRead(a, t, own)
  \/ \E u \in Users, k \in Topups, n \in Amounts : TopupCreate(a, u, k, n)
  \/ \E k \in Topups : VerifyRead(a, k)
  \/ \E u \in Users, n \in Amounts : PayoutRead(a, u, n)
  \/ \E k \in Payouts, verdict \in {"markPaid", "markFailed"} : DeskRead(a, k, verdict)

Step(a) ==
  \/ SettlePost(a) \/ SettleFinish(a)
  \/ TopupCheckout(a) \/ TopupKeep(a) \/ VerifyAsk(a) \/ VerifyMark(a) \/ VerifyCredit(a)
  \/ (\E k \in Payouts : PayoutReserve(a, k)) \/ PayoutTransfer(a) \/ PayoutRecord(a) \/ PayoutRefund(a)
  \/ DeskMarkPaid(a) \/ DeskMarkFailed(a)

Next ==
  \/ \E a \in Actors : Begin(a) \/ Step(a) \/ Fails(a)
  \/ \E k \in Topups : CustomerPays(k)
  \/ Crash

Spec == Init /\ [][Next]_vars

-----------------------------------------------------------------------------

\* What u owns by the rows of the ledger: settlements, top-ups (a row is written when
\* the top-up is created; it stands for money once its metadata say success),
\* withdrawals and reversals.
LedgerOf(u) ==
  SumFunction([t \in Trips |-> posted[t] * SettlementOf(t, u)])
    + SumFunction([k \in Topups |-> IF topup[k].owner = u /\ topup[k].meta = "success"
                                      THEN topup[k].amount ELSE 0])
    + SumFunction([k \in Payouts |-> IF payout[k].owner = u
                                       THEN (payout[k].refunds - 1) * payout[k].amount ELSE 0])

\* The confirmation of top-up k is in hand, was left between mark and credit, or
\* overlapped another: its row and the balance may not agree.
Unsettled(k) ==
  \/ k \in overlapped \cup stranded
  \/ \E a \in Actors : job[a].pc = "credit" /\ job[a].on = k

\* "The wallet balance represents money the platform owes the user" (settlement.ts):
\* it is the sum of the rows of the user's ledger, whatever settlements, payouts and
\* decisions interleave, fail or restart; only an unsettled top-up of the user, whose
\* row and credit are two writes, can part the two.
BalanceIsLedger ==
  \A u \in Users :
    (\A k \in Topups : topup[k].owner = u => ~Unsettled(k)) => balance[u] = LedgerOf(u)

\* "Deterministic ledger reference so settlement is idempotent per trip"
\* (settlementReference): retried after any failure, a completion is settled once,
\* unless two of them overlapped; and no assignment is closed before it is.
SettledOnce ==
  \A t \in Trips :
    /\ t \notin overlapped => posted[t] <= 1
    /\ ~ride[t].accepted => posted[t] >= 1

\* Only money the customer has paid is added to a wallet, and by webhooks and
\* verifications that follow each other only once (markPaystackWalletTopup).
TopupCreditedOnce ==
  \A k \in Topups :
    /\ credited[k] > 0 => paystack[k] = "success"
    /\ k \notin overlapped => credited[k] <= 1 /\ (credited[k] = 1 => topup[k].meta = "success")

\* The money of a payout is back in the wallet exactly if the payout has FAILED,
\* unless two decisions on it overlapped ("so no funds are lost", instant-payout).
RefundedIffFailed ==
  \A k \in Payouts \ overlapped : payout[k].refunds = IF payout[k].st = "FAILED" THEN 1 ELSE 0
=============================================================================
