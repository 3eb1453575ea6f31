---------------------------- MODULE WalletProofs ----------------------------
(***************************************************************************)
(* TLAPS proofs about Wallets, for any users, rides, payouts, top-ups,     *)
(* amounts and bounds.  The types are proved first; then each of the three *)
(* areas (settlement, top-up, payout) has an invariant of its own, which   *)
(* its own steps preserve case by case and the steps of the other areas    *)
(* because they touch neither its tables nor its requests.  Last come what *)
(* a sum over a table is, and that the balances are such sums.             *)
(***************************************************************************)
EXTENDS Wallets, FiniteSetTheorems, TLAPS

TripPCs == {"post", "finish"}
TopupPCs == {"checkout", "keep", "ask", "mark", "credit"}
PayoutPCs == {"transfer", "record", "refund", "markPaid", "markFailed"}

\* What a request j is about exists in the tables.
Fits(j, topups, payouts) ==
  /\ j.pc = "reserve" => j.user \in Users /\ j.amount \in Amounts
  /\ j.pc \in TripPCs => j.on \in Trips
  /\ j.pc \in TopupPCs => j.on \in Topups /\ topups[j.on] # NoTopup
  /\ j.pc \in PayoutPCs => j.on \in Payouts /\ payouts[j.on] # NoPayout

TypeInv == TypeOK /\ \A a \in Actors : Fits(job[a], topup, payout)

\* The next-state relation, by area.
SettleStep(a) ==
  \/ \E t \in Trips, own \in BOOLEAN : SettleRead(a, t, own)
  \/ SettlePost(a) \/ SettleFinish(a)
TopupStep(a) ==
  \/ \E u \in Users, k \in Topups, n \in Amounts : TopupCreate(a, u, k, n)
  \/ \E k \in Topups : VerifyRead(a, k)
  \/ TopupCheckout(a) \/ TopupKeep(a) \/ VerifyAsk(a) \/ VerifyMark(a) \/ VerifyCredit(a)
PayoutStep(a) ==
  \/ \E u \in Users, n \in Amounts : PayoutRead(a, u, n)
  \/ \E k \in Payouts, verdict \in {"markPaid", "markFailed"} : DeskRead(a, k, verdict)
  \/ \E k \in Payouts : PayoutReserve(a, k)
  \/ PayoutTransfer(a) \/ PayoutRecord(a) \/ PayoutRefund(a)
  \/ DeskMarkPaid(a) \/ DeskMarkFailed(a)

\* Every step is one of an area, a failure, the customer's, a restart or a stutter.
LEMMA ByArea ==
  ASSUME [Next]_vars
  PROVE  \/ \E a \in Actors : SettleStep(a) \/ TopupStep(a) \/ PayoutStep(a) \/ Fails(a)
         \/ \E k \in Topups : CustomerPays(k)
         \/ Crash \/ UNCHANGED vars
BY Zenon DEF Next, Begin, Step, SettleStep, TopupStep, PayoutStep

-----------------------------------------------------------------------------
(* Types *)

LEMMA IdleFits == NoJob \in Jobs /\ \A f, g : Fits(NoJob, f, g)
BY DEF NoJob, Jobs, JobPCs, Answers, Fits, TripPCs, TopupPCs, PayoutPCs

\* One request goes on, no row disappears: every request still fits.
LEMMA JobStep ==
  ASSUME TypeInv, NEW a \in Actors, NEW j \in Jobs, job' = [job EXCEPT ![a] = j],
         Fits(j, topup', payout'),
         \A k \in Topups : topup[k] # NoTopup => topup'[k] # NoTopup,
         \A k \in Payouts : payout[k] # NoPayout => payout'[k] # NoPayout
  PROVE  job' \in [Actors -> Jobs] /\ \A b \in Actors : Fits(job'[b], topup', payout')
<1>1. job \in [Actors -> Jobs] /\ \A b \in Actors : Fits(job[b], topup, payout)
  BY DEF TypeInv, TypeOK
<1>2. job' \in [Actors -> Jobs]
  BY <1>1
<1>3. ASSUME NEW b \in Actors PROVE Fits(job'[b], topup', payout')
  <2>1. CASE b = a
    BY <1>1, <2>1
  <2>2. CASE b # a
    BY <1>1, <2>2 DEF Fits
  <2> QED
    BY <2>1, <2>2
<1> QED
  BY <1>2, <1>3

LEMMA SettlementIsInt ==
  ASSUME TypeOK, NEW t \in Trips, NEW u \in Users
  PROVE  SettlementOf(t, u) \in Int
BY MoneyAssumption DEF TypeOK, Rides, SettlementOf

LEMMA TypeOKInit == Init => TypeInv
BY IdleFits, MaxPostedAssumption
   DEF Init, TypeInv, TypeOK, Subjects, Rides, Answers

LEMMA SettleTypes ==
  ASSUME TypeInv, NEW a \in Actors, SettleStep(a)
  PROVE  TypeInv'
<1> USE DEF TypeInv
<1>1. CASE \E t \in Trips, own \in BOOLEAN : SettleRead(a, t, own)
  <2>1. PICK t \in Trips, own \in BOOLEAN : SettleRead(a, t, own)
    BY <1>1
  <2> DEFINE j == [NoJob EXCEPT !.pc = IF posted[t] = 0 THEN "post" ELSE "finish", !.own = own, !.on = t]
  <2>2. j \in Jobs /\ Fits(j, topup, payout)
    BY DEF NoJob, Jobs, JobPCs, Subjects, Answers, Fits, TripPCs, TopupPCs, PayoutPCs
  <2>3. job' = [job EXCEPT ![a] = j] /\ overlapped' \in {overlapped, overlapped \cup {t}}
    BY <2>1 DEF SettleRead, Take, Goto
  <2> QED
    BY <2>1, <2>2, <2>3, JobStep DEF SettleRead, TypeOK, Subjects
<1>2. CASE SettlePost(a)
  <2> DEFINE j == IF job[a].own THEN [job[a] EXCEPT !.pc = "finish"] ELSE NoJob
  <2>1. job[a] \in Jobs /\ job[a].pc = "post" /\ job[a].on \in Trips
    BY <1>2 DEF SettlePost, TypeOK, Fits, TripPCs
  <2>2. j \in Jobs /\ Fits(j, topup, payout)
    BY <2>1, IdleFits DEF Jobs, JobPCs, Fits, TripPCs, TopupPCs, PayoutPCs
  <2>3. job' = [job EXCEPT ![a] = j]
    BY <1>2, <2>1 DEF SettlePost, GoOn, Reply, Goto, Jobs
  <2>4. balance' \in [Users -> Int]
    BY <1>2, <2>1, SettlementIsInt DEF SettlePost, TypeOK
  <2>5. posted' \in [Trips -> 0 .. MaxPosted]
    BY <1>2, <2>1, MaxPostedAssumption DEF SettlePost, TypeOK
  <2>6. UNCHANGED <<ride, topup, credited, payout, paystack, overlapped, stranded>>
    BY <1>2 DEF SettlePost
  <2>7. job' \in [Actors -> Jobs] /\ \A b \in Actors : Fits(job'[b], topup', payout')
    BY <2>2, <2>3, <2>6, JobStep
  <2> QED
    BY <2>4, <2>5, <2>6, <2>7 DEF TypeOK
<1>3. CASE SettleFinish(a)
  <2>1. job[a].on \in Trips
    BY <1>3 DEF SettleFinish, Fits, TripPCs
  <2>2. ride' \in [Trips -> Rides]
    BY <1>3, <2>1 DEF SettleFinish, TypeOK, Rides
  <2>3. job' \in [Actors -> Jobs] /\ \A b \in Actors : Fits(job'[b], topup', payout')
    BY <1>3, IdleFits, JobStep DEF SettleFinish, Reply, Goto
  <2> QED
    BY <1>3, <2>2, <2>3 DEF SettleFinish, TypeOK
<1> QED
  BY <1>1, <1>2, <1>3 DEF SettleStep

LEMMA TopupTypes ==
  ASSUME TypeInv, NEW a \in Actors, TopupStep(a)
  PROVE  TypeInv'
<1> USE DEF TypeInv
<1>1. CASE \E u \in Users, k \in Topups, n \in Amounts : TopupCreate(a, u, k, n)
  <2>1. PICK u \in Users, k \in Topups, n \in Amounts : TopupCreate(a, u, k, n)
    BY <1>1
  <2> DEFINE j == [NoJob EXCEPT !.pc = "checkout", !.on = k]
  <2>2. topup' = [topup EXCEPT ![k] = [owner |-> u, amount |-> n, meta |-> "none"]]
        /\ topup'[k] \in TopupRows /\ topup'[k] # NoTopup
    BY <2>1, NoneAssumption DEF TopupCreate, TypeOK, TopupRows, NoTopup
  <2>3. j \in Jobs /\ Fits(j, topup', payout)
    BY <2>2 DEF NoJob, Jobs, JobPCs, Subjects, Answers, Fits, TripPCs, TopupPCs, PayoutPCs
  <2>4. /\ job' = [job EXCEPT ![a] = j] /\ overlapped' \in {overlapped, overlapped \cup {k}}
        /\ UNCHANGED <<balance, ride, posted, credited, payout, paystack, stranded>>
    BY <2>1 DEF TopupCreate, Take, Goto
  <2>5. job' \in [Actors -> Jobs] /\ \A b \in Actors : Fits(job'[b], topup', payout')
    BY <2>2, <2>3, <2>4, JobStep DEF TypeOK
  <2> QED
    BY <2>2, <2>4, <2>5 DEF TypeOK, Subjects
<1>2. CASE \E k \in Topups : VerifyRead(a, k)
  <2>1. PICK k \in Topups : VerifyRead(a, k)
    BY <1>2
  <2> DEFINE j == [NoJob EXCEPT !.pc = "ask", !.on = k]
  <2>a. topup[k] # NoTopup
    BY <2>1 DEF VerifyRead, NoTopup
  <2>2. j \in Jobs /\ Fits(j, topup, payout)
    BY <2>a DEF NoJob, Jobs, JobPCs, Subjects, Answers, Fits, TripPCs, TopupPCs, PayoutPCs
  <2>3. /\ job' = [job EXCEPT ![a] = j] /\ overlapped' \in {overlapped, overlapped \cup {k}}
        /\ UNCHANGED <<balance, ride, posted, topup, credited, payout, paystack, stranded>>
    BY <2>1 DEF VerifyRead, Take, Goto
  <2>4. job' \in [Actors -> Jobs] /\ \A b \in Actors : Fits(job'[b], topup', payout')
    BY <2>2, <2>3, JobStep
  <2> QED
    BY <2>3, <2>4 DEF TypeOK, Subjects
<1>3. CASE TopupCheckout(a)
  <2> DEFINE j == [job[a] EXCEPT !.pc = "keep"]
  <2>1. job[a] \in Jobs /\ job[a].on \in Topups /\ topup[job[a].on] # NoTopup
    BY <1>3 DEF TopupCheckout, TypeOK, Fits, TopupPCs
  <2>2. j \in Jobs /\ Fits(j, topup, payout)
    BY <2>1 DEF Jobs, JobPCs, Fits, TripPCs, TopupPCs, PayoutPCs
  <2>3. job' \in [Actors -> Jobs] /\ \A b \in Actors : Fits(job'[b], topup', payout')
    BY <1>3, <2>2, JobStep DEF TopupCheckout, GoOn, Goto
  <2> QED
    BY <1>3, <2>1, <2>3 DEF TopupCheckout, TypeOK, Answers
<1>7. CASE TopupKeep(a)
  <2>1. job[a].on \in Topups /\ topup[job[a].on] \in TopupRows
    BY <1>7 DEF TopupKeep, TypeOK, Fits, TopupPCs
  <2>2. /\ topup' \in [Topups -> TopupRows \cup {NoTopup}]
        /\ \A k \in Topups : topup[k] # NoTopup => topup'[k] # NoTopup
    BY <1>7, <2>1, NoneAssumption DEF TopupKeep, TypeOK, TopupRows, NoTopup
  <2>3. job' \in [Actors -> Jobs] /\ \A b \in Actors : Fits(job'[b], topup', payout')
    BY <1>7, <2>2, IdleFits, JobStep DEF TopupKeep, Reply, Goto
  <2> QED
    BY <1>7, <2>2, <2>3 DEF TopupKeep, TypeOK
<1>4. CASE VerifyAsk(a)
  <2> DEFINE j == [job[a] EXCEPT !.pc = "mark", !.seen = paystack[job[a].on]]
  <2>1. job[a] \in Jobs /\ job[a].on \in Topups /\ topup[job[a].on] # NoTopup
    BY <1>4 DEF VerifyAsk, TypeOK, Fits, TopupPCs
  <2>2. j \in Jobs /\ Fits(j, topup, payout)
    BY <2>1 DEF TypeOK, Jobs, JobPCs, Fits, TripPCs, TopupPCs, PayoutPCs
  <2>3. job' \in [Actors -> Jobs] /\ \A b \in Actors : Fits(job'[b], topup', payout')
    BY <1>4, <2>2, JobStep DEF VerifyAsk, Goto
  <2> QED
    BY <1>4, <2>3 DEF VerifyAsk, TypeOK
<1>5. CASE VerifyMark(a)
  <2> DEFINE j == IF job[a].seen = "success" THEN [job[a] EXCEPT !.pc = "credit"] ELSE NoJob
  <2>1. job[a] \in Jobs /\ job[a].on \in Topups /\ topup[job[a].on] \in TopupRows
    BY <1>5 DEF VerifyMark, TypeOK, Fits, TopupPCs
  <2>2. /\ topup' \in [Topups -> TopupRows \cup {NoTopup}]
        /\ \A k \in Topups : topup[k] # NoTopup => topup'[k] # NoTopup
    BY <1>5, <2>1, NoneAssumption DEF VerifyMark, TypeOK, TopupRows, NoTopup, Jobs, Answers
  <2>3. topup'[job[a].on] # NoTopup
    BY <2>1, <2>2, NoneAssumption DEF TopupRows, NoTopup
  <2>4. j \in Jobs /\ Fits(j, topup', payout')
    BY <2>1, <2>3, IdleFits DEF Jobs, JobPCs, Fits, TripPCs, TopupPCs, PayoutPCs
  <2>5. job' = [job EXCEPT ![a] = j]
    BY <1>5 DEF VerifyMark, GoOn, Reply, Goto
  <2>6. job' \in [Actors -> Jobs] /\ \A b \in Actors : Fits(job'[b], topup', payout')
    BY <1>5, <2>2, <2>4, <2>5, JobStep DEF VerifyMark
  <2> QED
    BY <1>5, <2>2, <2>6 DEF VerifyMark, TypeOK
<1>6. CASE VerifyCredit(a)
  <2>1. job[a].on \in Topups /\ topup[job[a].on] \in TopupRows
    BY <1>6 DEF VerifyCredit, TypeOK, Fits, TopupPCs
  <2>2. topup[job[a].on].owner \in Users /\ topup[job[a].on].amount \in Nat
    BY <2>1, MoneyAssumption DEF TopupRows
  <2>3. balance' \in [Users -> Int]
    BY <1>6, <2>2 DEF VerifyCredit, TypeOK
  <2>4. credited' \in [Topups -> 0 .. MaxPosted]
    BY <1>6, <2>1, MaxPostedAssumption DEF VerifyCredit, TypeOK
  <2>5. job' \in [Actors -> Jobs] /\ \A b \in Actors : Fits(job'[b], topup', payout')
    BY <1>6, IdleFits, JobStep DEF VerifyCredit, Reply, Goto
  <2> QED
    BY <1>6, <2>3, <2>4, <2>5 DEF VerifyCredit, TypeOK
<1> QED
  BY <1>1, <1>2, <1>3, <1>4, <1>5, <1>6, <1>7 DEF TopupStep

LEMMA PayoutTypes ==
  ASSUME TypeInv, NEW a \in Actors, PayoutStep(a)
  PROVE  TypeInv'
<1> USE DEF TypeInv
<1>1. CASE \E u \in Users, n \in Amounts : PayoutRead(a, u, n)
  <2>1. PICK u \in Users, n \in Amounts : PayoutRead(a, u, n)
    BY <1>1
  <2> DEFINE j == [NoJob EXCEPT !.pc = "reserve", !.user = u, !.amount = n]
  <2>2. j \in Jobs /\ Fits(j, topup, payout)
    BY DEF NoJob, Jobs, JobPCs, Answers, Fits, TripPCs, TopupPCs, PayoutPCs
  <2>3. job' \in [Actors -> Jobs] /\ \A b \in Actors : Fits(job'[b], topup', payout')
    BY <2>1, <2>2, JobStep DEF PayoutRead, Goto
  <2> QED
    BY <2>1, <2>3 DEF PayoutRead, TypeOK
<1>2. CASE \E k \in Payouts, verdict \in {"markPaid", "markFailed"} : DeskRead(a, k, verdict)
  <2>1. PICK k \in Payouts, verdict \in {"markPaid", "markFailed"} : DeskRead(a, k, verdict)
    BY <1>2
  <2> DEFINE j == [NoJob EXCEPT !.pc = verdict, !.on = k]
  <2>2. payout[k] # NoPayout
    BY <2>1 DEF DeskRead, NoPayout
  <2>3. j \in Jobs /\ Fits(j, topup, payout)
    BY <2>2 DEF NoJob, Jobs, JobPCs, Subjects, Answers, Fits, TripPCs, TopupPCs, PayoutPCs
  <2>4. /\ job' = [job EXCEPT ![a] = j] /\ overlapped' \in {overlapped, overlapped \cup {k}}
        /\ UNCHANGED <<balance, ride, posted, topup, credited, payout, paystack, stranded>>
    BY <2>1 DEF DeskRead, Take, Goto
  <2>5. job' \in [Actors -> Jobs] /\ \A b \in Actors : Fits(job'[b], topup', payout')
    BY <2>3, <2>4, JobStep
  <2> QED
    BY <2>4, <2>5 DEF TypeOK, Subjects
<1>3. CASE \E k \in Payouts : PayoutReserve(a, k)
  <2>1. PICK k \in Payouts : PayoutReserve(a, k)
    BY <1>3
  <2>2. job[a].user \in Users /\ job[a].amount \in Amounts /\ job[a].amount \in Nat
    BY <2>1, MoneyAssumption DEF PayoutReserve, Fits
  <2>3. payout'[k] \in PayoutRows /\ payout'[k] # NoPayout
    BY <2>1, <2>2, NoneAssumption DEF PayoutReserve, TypeOK, PayoutRows, PayoutStatuses, NoPayout
  <2>4. /\ payout' \in [Payouts -> PayoutRows \cup {NoPayout}]
        /\ \A p \in Payouts : payout[p] # NoPayout => payout'[p] # NoPayout
    BY <2>1, <2>3 DEF PayoutReserve, TypeOK
  <2>5. balance' \in [Users -> Int]
    BY <2>1, <2>2 DEF PayoutReserve, TypeOK
  <2> DEFINE j == [NoJob EXCEPT !.pc = "transfer", !.on = k]
  <2>6. j \in Jobs /\ Fits(j, topup, payout')
    BY <2>3 DEF NoJob, Jobs, JobPCs, Subjects, Answers, Fits, TripPCs, TopupPCs, PayoutPCs
  <2>7. /\ job' = [job EXCEPT ![a] = NoJob] \/ job' = [job EXCEPT ![a] = j]
        /\ UNCHANGED <<ride, posted, topup, credited, paystack, overlapped, stranded>>
    BY <2>1 DEF PayoutReserve, Reply, Goto
  <2>8. job' \in [Actors -> Jobs] /\ \A b \in Actors : Fits(job'[b], topup', payout')
    BY <2>4, <2>6, <2>7, IdleFits, JobStep
  <2> QED
    BY <2>4, <2>5, <2>7, <2>8 DEF TypeOK
<1>4. CASE PayoutTransfer(a)
  <2>1. job[a] \in Jobs /\ job[a].on \in Payouts /\ payout[job[a].on] # NoPayout
    BY <1>4 DEF PayoutTransfer, TypeOK, Fits, PayoutPCs
  <2>2. PICK j \in {[job[a] EXCEPT !.pc = "record", !.seen = "success"],
                    [job[a] EXCEPT !.pc = "record", !.seen = "pending"],
                    [job[a] EXCEPT !.pc = "refund"]} : job' = [job EXCEPT ![a] = j]
    BY <1>4 DEF PayoutTransfer, GoOn, Goto
  <2>3. j \in Jobs /\ Fits(j, topup, payout)
    BY <2>1, <2>2 DEF Jobs, JobPCs, Answers, Fits, TripPCs, TopupPCs, PayoutPCs
  <2>4. job' \in [Actors -> Jobs] /\ \A b \in Actors : Fits(job'[b], topup', payout')
    BY <1>4, <2>2, <2>3, JobStep DEF PayoutTransfer
  <2> QED
    BY <1>4, <2>4 DEF PayoutTransfer, TypeOK
<1>5. CASE PayoutRecord(a) \/ DeskMarkPaid(a)
  <2>1. job[a].on \in Payouts /\ payout[job[a].on] \in PayoutRows
    BY <1>5 DEF PayoutRecord, DeskMarkPaid, TypeOK, Fits, PayoutPCs
  <2>2. PICK s \in PayoutStatuses : payout' = [payout EXCEPT ![job[a].on].st = s]
    BY <1>5 DEF PayoutRecord, DeskMarkPaid, PayoutStatuses
  <2>3. /\ payout' \in [Payouts -> PayoutRows \cup {NoPayout}]
        /\ \A k \in Payouts : payout[k] # NoPayout => payout'[k] # NoPayout
    BY <2>1, <2>2, NoneAssumption DEF TypeOK, PayoutRows, NoPayout
  <2>4. job' = [job EXCEPT ![a] = NoJob]
        /\ UNCHANGED <<balance, ride, posted, topup, credited, paystack, overlapped, stranded>>
    BY <1>5 DEF PayoutRecord, DeskMarkPaid, Reply, Goto
  <2>5. job' \in [Actors -> Jobs] /\ \A b \in Actors : Fits(job'[b], topup', payout')
    BY <2>3, <2>4, IdleFits, JobStep
  <2> QED
    BY <2>3, <2>4, <2>5 DEF TypeOK
<1>6. CASE PayoutRefund(a) \/ DeskMarkFailed(a)
  <2>1. job[a].on \in Payouts /\ payout[job[a].on] \in PayoutRows
    BY <1>6 DEF PayoutRefund, DeskMarkFailed, TypeOK, Fits, PayoutPCs
  <2>2. GiveBack(job[a].on) /\ job' = [job EXCEPT ![a] = NoJob]
        /\ UNCHANGED <<ride, posted, topup, credited, paystack, overlapped, stranded>>
    BY <1>6 DEF PayoutRefund, DeskMarkFailed, Reply, Goto
  <2>3. /\ payout' \in [Payouts -> PayoutRows \cup {NoPayout}]
        /\ \A k \in Payouts : payout[k] # NoPayout => payout'[k] # NoPayout
    BY <2>1, <2>2, NoneAssumption DEF GiveBack, TypeOK, PayoutRows, PayoutStatuses, NoPayout
  <2>4. payout[job[a].on].owner \in Users /\ payout[job[a].on].amount \in Nat
    BY <2>1, MoneyAssumption DEF PayoutRows
  <2>5. balance' \in [Users -> Int]
    BY <2>2, <2>4 DEF GiveBack, TypeOK
  <2>6. job' \in [Actors -> Jobs] /\ \A b \in Actors : Fits(job'[b], topup', payout')
    BY <2>2, <2>3, IdleFits, JobStep
  <2> QED
    BY <2>2, <2>3, <2>5, <2>6 DEF TypeOK
<1> QED
  BY <1>1, <1>2, <1>3, <1>4, <1>5, <1>6 DEF PayoutStep

LEMMA FailsTypes ==
  ASSUME TypeInv, NEW a \in Actors, Fails(a)
  PROVE  TypeInv'
<1> USE DEF TypeInv
<1> DEFINE j == IF job[a].pc = "record" THEN [job[a] EXCEPT !.pc = "refund"] ELSE NoJob
<1>1. job[a] \in Jobs /\ Fits(job[a], topup, payout)
  BY DEF TypeOK
<1>2. j \in Jobs /\ Fits(j, topup, payout)
  BY <1>1, IdleFits DEF Jobs, JobPCs, Fits, TripPCs, TopupPCs, PayoutPCs
<1>3. job' = [job EXCEPT ![a] = j] /\ stranded' \in SUBSET Topups
      /\ UNCHANGED <<balance, ride, posted, topup, credited, payout, paystack, overlapped>>
  BY DEF Fails, GoOn, Reply, Goto, TypeOK
<1>4. job' \in [Actors -> Jobs] /\ \A b \in Actors : Fits(job'[b], topup', payout')
  BY <1>2, <1>3, JobStep
<1> QED
  BY <1>3, <1>4 DEF TypeOK

LEMMA TypesKept ==
  ASSUME TypeInv, [Next]_vars
  PROVE  TypeInv'
<1>1. CASE \E a \in Actors : SettleStep(a) \/ TopupStep(a) \/ PayoutStep(a) \/ Fails(a)
  BY <1>1, SettleTypes, TopupTypes, PayoutTypes, FailsTypes
<1>2. CASE \E k \in Topups : CustomerPays(k)
  BY <1>2 DEF CustomerPays, TypeInv, TypeOK, Answers
<1>3. CASE Crash
  BY <1>3, IdleFits DEF Crash, TypeInv, TypeOK
<1>4. CASE UNCHANGED vars
  BY <1>4 DEF vars, TypeInv, TypeOK
<1> QED
  BY <1>1, <1>2, <1>3, <1>4, ByArea

LEMMA TypeInvHolds == Spec => []TypeInv
BY TypeOKInit, TypesKept, PTL DEF Spec

\* Balances stay integers, rows stay rows, counters within their bounds, and every
\* request is about something that exists, whatever fails or restarts.
THEOREM WalletsTyped == Spec => []TypeOK
<1>1. TypeInv => TypeOK
  BY DEF TypeInv
<1> QED
  BY <1>1, TypeInvHolds, PTL

-----------------------------------------------------------------------------
(* What the steps of an area leave alone *)

\* a moves to one of pcs or becomes idle; the other requests stay where they are.
Moves(a, pcs) ==
  /\ job'[a].pc \in pcs \cup {"idle", "reserve"}
  /\ \A b \in Actors \ {a} : job'[b] = job[b]
  /\ overlapped \subseteq overlapped'

LEMMA SettleMoves ==
  ASSUME TypeInv, NEW a \in Actors, SettleStep(a)
  PROVE  Moves(a, TripPCs) /\ UNCHANGED <<topup, credited, payout, paystack>>
<1>1. ASSUME NEW t \in Trips, NEW own \in BOOLEAN, SettleRead(a, t, own)
      PROVE  Moves(a, TripPCs) /\ UNCHANGED <<topup, credited, payout, paystack>>
  BY <1>1 DEF SettleRead, Take, Goto, NoJob, Moves, TripPCs, TypeInv, TypeOK
<1>2. CASE SettlePost(a) \/ SettleFinish(a)
  BY <1>2 DEF SettlePost, SettleFinish, GoOn, Reply, Goto, NoJob, Moves, TripPCs, TypeInv, TypeOK, Jobs
<1> QED
  BY <1>1, <1>2 DEF SettleStep

LEMMA TopupMoves ==
  ASSUME TypeInv, NEW a \in Actors, TopupStep(a)
  PROVE  Moves(a, TopupPCs) /\ UNCHANGED <<ride, posted, payout>>
<1>1. ASSUME NEW u \in Users, NEW k \in Topups, NEW n \in Amounts, TopupCreate(a, u, k, n)
      PROVE  Moves(a, TopupPCs) /\ UNCHANGED <<ride, posted, payout>>
  BY <1>1 DEF TopupCreate, Take, Goto, NoJob, Moves, TopupPCs, TypeInv, TypeOK
<1>2. ASSUME NEW k \in Topups, VerifyRead(a, k)
      PROVE  Moves(a, TopupPCs) /\ UNCHANGED <<ride, posted, payout>>
  BY <1>2 DEF VerifyRead, Take, Goto, NoJob, Moves, TopupPCs, TypeInv, TypeOK
<1>3. CASE TopupKeep(a) \/ VerifyCredit(a)
  <2>1. job'[a].pc = "idle" /\ \A b \in Actors \ {a} : job'[b] = job[b]
    BY <1>3 DEF TopupKeep, VerifyCredit, Reply, Goto, NoJob, TypeInv, TypeOK
  <2>2. UNCHANGED <<ride, posted, payout, overlapped>>
    BY <1>3 DEF TopupKeep, VerifyCredit
  <2> QED
    BY <2>1, <2>2 DEF Moves
<1>4. CASE TopupCheckout(a) \/ VerifyAsk(a)
  <2>1. job'[a].pc \in {"keep", "mark"}
    <3>1. job[a] \in Jobs
      BY DEF TypeInv, TypeOK
    <3>2. CASE TopupCheckout(a)
      BY <3>1, <3>2 DEF TopupCheckout, GoOn, Goto, TypeInv, TypeOK, Jobs
    <3>3. CASE VerifyAsk(a)
      BY <3>1, <3>3 DEF VerifyAsk, Goto, TypeInv, TypeOK, Jobs
    <3> QED
      BY <1>4, <3>2, <3>3
  <2>2. \A b \in Actors \ {a} : job'[b] = job[b]
    BY <1>4 DEF TopupCheckout, VerifyAsk, GoOn, Goto, TypeInv, TypeOK
  <2>3. UNCHANGED <<ride, posted, payout, overlapped>>
    BY <1>4 DEF TopupCheckout, VerifyAsk
  <2> QED
    BY <2>1, <2>2, <2>3 DEF Moves, TopupPCs
<1>5. CASE VerifyMark(a)
  BY <1>5 DEF VerifyMark, GoOn, Reply, Goto, NoJob, Moves, TopupPCs, TypeInv, TypeOK, Jobs
<1> QED
  BY <1>1, <1>2, <1>3, <1>4, <1>5 DEF TopupStep

LEMMA PayoutMoves ==
  ASSUME TypeInv, NEW a \in Actors, PayoutStep(a)
  PROVE  Moves(a, PayoutPCs) /\ UNCHANGED <<ride, posted, topup, credited, paystack>>
<1>1. ASSUME NEW u \in Users, NEW n \in Amounts, PayoutRead(a, u, n)
      PROVE  Moves(a, PayoutPCs) /\ UNCHANGED <<ride, posted, topup, credited, paystack>>
  BY <1>1 DEF PayoutRead, Goto, NoJob, Moves, TypeInv, TypeOK
<1>2. ASSUME NEW k \in Payouts, NEW verdict \in {"markPaid", "markFailed"}, DeskRead(a, k, verdict)
      PROVE  Moves(a, PayoutPCs) /\ UNCHANGED <<ride, posted, topup, credited, paystack>>
  BY <1>2 DEF DeskRead, Take, Goto, NoJob, Moves, PayoutPCs, TypeInv, TypeOK
<1>3. ASSUME NEW k \in Payouts, PayoutReserve(a, k)
      PROVE  Moves(a, PayoutPCs) /\ UNCHANGED <<ride, posted, topup, credited, paystack>>
  <2>1. /\ \/ job' = [job EXCEPT ![a] = NoJob]
           \/ job' = [job EXCEPT ![a] = [NoJob EXCEPT !.pc = "transfer", !.on = k]]
        /\ UNCHANGED <<ride, posted, topup, credited, paystack, overlapped>>
    BY <1>3 DEF PayoutReserve, Reply, Goto
  <2>2. job'[a].pc \in {"idle", "transfer"} /\ \A b \in Actors \ {a} : job'[b] = job[b]
    <3>1. job \in [Actors -> Jobs]
      BY DEF TypeInv, TypeOK
    <3>2. CASE job' = [job EXCEPT ![a] = NoJob]
      BY <3>1, <3>2 DEF NoJob
    <3>3. CASE job' = [job EXCEPT ![a] = [NoJob EXCEPT !.pc = "transfer", !.on = k]]
      BY <3>1, <3>3 DEF NoJob
    <3> QED
      BY <2>1, <3>2, <3>3
  <2> QED
    BY <2>1, <2>2 DEF Moves, PayoutPCs
<1>4. CASE PayoutTransfer(a)
  <2>1. job'[a].pc \in {"record", "refund"}
    BY <1>4 DEF PayoutTransfer, GoOn, Goto, TypeInv, TypeOK, Jobs
  <2>2. \A b \in Actors \ {a} : job'[b] = job[b]
    BY <1>4 DEF PayoutTransfer, GoOn, Goto, TypeInv, TypeOK
  <2>3. UNCHANGED <<ride, posted, topup, credited, paystack, overlapped>>
    BY <1>4 DEF PayoutTransfer
  <2> QED
    BY <2>1, <2>2, <2>3 DEF Moves, PayoutPCs
<1>5. CASE PayoutRecord(a) \/ PayoutRefund(a) \/ DeskMarkPaid(a) \/ DeskMarkFailed(a)
  BY <1>5 DEF PayoutRecord, PayoutRefund, DeskMarkPaid, DeskMarkFailed, Reply, Goto, NoJob,
              Moves, TypeInv, TypeOK
<1> QED
  BY <1>1, <1>2, <1>3, <1>4, <1>5 DEF PayoutStep

\* A failure ends the request, or starts the refund of a payout it could not record.
LEMMA FailsMoves ==
  ASSUME TypeInv, NEW a \in Actors, Fails(a)
  PROVE  /\ Moves(a, PayoutPCs) /\ overlapped' = overlapped
         /\ UNCHANGED <<ride, posted, topup, credited, payout, paystack>>
         /\ job'[a].pc \in PayoutPCs => job[a].pc \in PayoutPCs /\ job'[a].on = job[a].on
BY DEF Fails, GoOn, Reply, Goto, NoJob, Moves, PayoutPCs, TypeInv, TypeOK, Jobs

-----------------------------------------------------------------------------
(* Settlement *)

\* A request past the ledger check knows that the trip is not settled, one that
\* closes the assignment that it is.
SettleInv ==
  /\ SettledOnce
  /\ \A a \in Actors :
       /\ job[a].pc = "finish" => posted[job[a].on] >= 1
       /\ job[a].pc = "post" /\ job[a].on \notin overlapped =>
            /\ posted[job[a].on] = 0
            /\ \A b \in Actors : job[b].pc = "post" /\ job[b].on = job[a].on => b = a

LEMMA SettleInit == Init => SettleInv
BY DEF Init, SettleInv, SettledOnce, NoJob, Rides

LEMMA SettleFrame ==
  ASSUME SettleInv, UNCHANGED <<ride, posted>>, overlapped \subseteq overlapped',
         \A b \in Actors : job'[b].pc \in TripPCs => job'[b] = job[b]
  PROVE  SettleInv'
BY DEF SettleInv, SettledOnce, TripPCs

LEMMA SettleReadKeeps ==
  ASSUME TypeInv, SettleInv, NEW a \in Actors, NEW t \in Trips, NEW own \in BOOLEAN, SettleRead(a, t, own)
  PROVE  SettleInv'
<1>1. /\ job'[a].pc = (IF posted[t] = 0 THEN "post" ELSE "finish") /\ job'[a].on = t
      /\ \A b \in Actors \ {a} : job'[b] = job[b]
      /\ overlapped \subseteq overlapped'
      /\ \A b \in Actors : job[b].on = t /\ job[b].pc # "finish" => t \in overlapped'
      /\ UNCHANGED <<ride, posted>>
  BY DEF SettleRead, Take, Goto, NoJob, TypeInv, TypeOK
<1>2. posted[t] \in Nat
  BY MaxPostedAssumption DEF TypeInv, TypeOK
<1>3. SettledOnce'
  BY <1>1 DEF SettleInv, SettledOnce
<1>4. ASSUME NEW b \in Actors, job'[b].pc = "finish"
      PROVE  posted'[job'[b].on] >= 1
  BY <1>1, <1>2, <1>4 DEF SettleInv
<1>5. ASSUME NEW b \in Actors, job'[b].pc = "post", job'[b].on \notin overlapped'
      PROVE  /\ posted'[job'[b].on] = 0
             /\ \A c \in Actors : job'[c].pc = "post" /\ job'[c].on = job'[b].on => c = b
  BY <1>1, <1>5 DEF SettleInv
<1> QED
  BY <1>3, <1>4, <1>5 DEF SettleInv

LEMMA SettlePostKeeps ==
  ASSUME TypeInv, SettleInv, NEW a \in Actors, SettlePost(a)
  PROVE  SettleInv'
<1> DEFINE t == job[a].on
<1>1. /\ job[a].pc = "post" /\ t \in Trips
      /\ \A x \in Trips : posted[x] \in Nat
  BY MaxPostedAssumption DEF SettlePost, TypeInv, TypeOK, Fits, TripPCs
<1>2. /\ posted' = [posted EXCEPT ![t] = @ + 1]
      /\ job'[a].pc \in {"finish", "idle"} /\ (job'[a].pc = "finish" => job'[a].on = t)
      /\ \A b \in Actors \ {a} : job'[b] = job[b]
      /\ UNCHANGED <<ride, overlapped>>
  BY DEF SettlePost, GoOn, Reply, Goto, NoJob, TypeInv, TypeOK, Jobs
<1>3. /\ posted'[t] = posted[t] + 1
      /\ \A x \in Trips : x # t => posted'[x] = posted[x]
  BY <1>1, <1>2 DEF TypeInv, TypeOK
<1>4. \A b \in Actors : job[b].pc \in TripPCs => job[b].on \in Trips
  BY DEF TypeInv, Fits
<1>5. SettledOnce'
  BY <1>1, <1>2, <1>3 DEF SettleInv, SettledOnce
<1>6. ASSUME NEW b \in Actors, job'[b].pc = "finish"
      PROVE  posted'[job'[b].on] >= 1
  <2>1. CASE b = a
    BY <1>1, <1>2, <1>3, <1>6, <2>1
  <2>2. CASE b # a
    BY <1>1, <1>2, <1>3, <1>4, <1>6, <2>2 DEF SettleInv, TripPCs
  <2> QED
    BY <2>1, <2>2
<1>7. ASSUME NEW b \in Actors, job'[b].pc = "post", job'[b].on \notin overlapped'
      PROVE  /\ posted'[job'[b].on] = 0
             /\ \A c \in Actors : job'[c].pc = "post" /\ job'[c].on = job'[b].on => c = b
  BY <1>1, <1>2, <1>3, <1>4, <1>7 DEF SettleInv, TripPCs
<1> QED
  BY <1>5, <1>6, <1>7 DEF SettleInv

LEMMA SettleFinishKeeps ==
  ASSUME TypeInv, SettleInv, NEW a \in Actors, SettleFinish(a)
  PROVE  SettleInv'
<1>1. job[a].pc = "finish" /\ job[a].on \in Trips /\ posted[job[a].on] >= 1
  BY DEF SettleFinish, TypeInv, Fits, TripPCs, SettleInv
<1>2. /\ ride' = [ride EXCEPT ![job[a].on].accepted = FALSE]
      /\ job'[a].pc = "idle" /\ \A b \in Actors \ {a} : job'[b] = job[b]
      /\ UNCHANGED <<posted, overlapped>>
  BY DEF SettleFinish, Reply, Goto, NoJob, TypeInv, TypeOK
<1>3. SettledOnce'
  BY <1>1, <1>2 DEF SettleInv, SettledOnce, TypeInv, TypeOK
<1> QED
  BY <1>2, <1>3 DEF SettleInv

\* A completed ride is settled exactly once before its assignment is closed, and
\* twice only by two completions that overlapped (settleRideTrip, completeRide).
THEOREM SettlesOnce == Spec => []SettledOnce
<1>1. ASSUME TypeInv, SettleInv, [Next]_vars PROVE SettleInv'
  <2>1. ASSUME NEW a \in Actors, SettleStep(a) PROVE SettleInv'
    BY <1>1, <2>1, SettleReadKeeps, SettlePostKeeps, SettleFinishKeeps DEF SettleStep
  <2>2. ASSUME NEW a \in Actors, TopupStep(a) \/ PayoutStep(a) \/ Fails(a) PROVE SettleInv'
    <3>1. UNCHANGED <<ride, posted>> /\ (Moves(a, TopupPCs) \/ Moves(a, PayoutPCs))
      BY <1>1, <2>2, TopupMoves, PayoutMoves, FailsMoves
    <3> QED
      BY <1>1, <3>1, SettleFrame DEF Moves, TripPCs, TopupPCs, PayoutPCs
  <2>3. CASE \E k \in Topups : CustomerPays(k)
    BY <1>1, <2>3, SettleFrame DEF CustomerPays
  <2>4. CASE Crash
    BY <1>1, <2>4, SettleFrame DEF Crash, NoJob, TripPCs
  <2>5. CASE UNCHANGED vars
    BY <1>1, <2>5, SettleFrame DEF vars
  <2> QED
    BY <1>1, <2>1, <2>2, <2>3, <2>4, <2>5, ByArea
<1>2. SettleInv => SettledOnce
  BY DEF SettleInv
<1> QED
  BY <1>1, <1>2, SettleInit, TypeInvHolds, PTL DEF Spec

-----------------------------------------------------------------------------
(* Top-ups *)

\* Nothing is known of a top-up whose row does not exist; one request at most opens it
\* at Paystack, and the customer cannot pay before that is over; what Paystack has
\* answered remains true.
JobKnows(j) ==
  /\ j.pc = "checkout" => topup[j.on].meta = "none" /\ paystack[j.on] = "none"
  /\ j.pc = "keep" => paystack[j.on] = "pending"
  /\ j.pc = "credit" => j.seen = "success"
  /\ j.pc \in {"mark", "credit"} =>
       paystack[j.on] # "none" /\ (j.seen = "success" => paystack[j.on] = "success")
  /\ j.on \notin overlapped =>
       /\ j.pc \in {"ask", "mark"} => topup[j.on].meta # "success"
       /\ j.pc = "credit" => topup[j.on].meta = "success" /\ credited[j.on] = 0

Opening == {"checkout", "keep"}

Alone ==
  \A a, b \in Actors :
    /\ job[a].pc \in TopupPCs /\ job[b].pc \in TopupPCs /\ job[b].on = job[a].on
    /\ job[a].on \notin overlapped \/ {job[a].pc, job[b].pc} \subseteq Opening
    => b = a

TopupInv ==
  /\ TopupCreditedOnce
  /\ \A k \in Topups : topup[k] = NoTopup => paystack[k] = "none"
  /\ \A a \in Actors : JobKnows(job[a])
  /\ Alone

LEMMA TopupInit == Init => TopupInv
BY DEF Init, TopupInv, TopupCreditedOnce, JobKnows, Alone, NoJob, TopupPCs

LEMMA TopupFrame ==
  ASSUME TopupInv, UNCHANGED <<topup, credited, paystack>>, overlapped \subseteq overlapped',
         \A b \in Actors : job'[b].pc \in TopupPCs => job'[b] = job[b]
  PROVE  TopupInv'
<1>1. TopupCreditedOnce' /\ \A k \in Topups : topup'[k] = NoTopup => paystack'[k] = "none"
  BY DEF TopupInv, TopupCreditedOnce
<1>2. ASSUME NEW a \in Actors PROVE JobKnows(job[a])'
  BY DEF TopupInv, JobKnows, TopupPCs
<1>3. Alone'
  BY DEF TopupInv, Alone, Opening
<1> QED
  BY <1>1, <1>2, <1>3 DEF TopupInv

LEMMA TopupCreateKeeps ==
  ASSUME TypeInv, TopupInv, NEW a \in Actors, NEW u \in Users, NEW k \in Topups, NEW n \in Amounts,
         TopupCreate(a, u, k, n)
  PROVE  TopupInv'
<1>1. /\ topup[k] = NoTopup /\ paystack[k] = "none"
      /\ topup' = [topup EXCEPT ![k] = [owner |-> u, amount |-> n, meta |-> "none"]]
      /\ UNCHANGED <<credited, paystack>> /\ overlapped \subseteq overlapped'
  BY DEF TopupCreate, Take, TopupInv
<1>2. /\ job'[a].pc = "checkout" /\ job'[a].on = k
      /\ \A b \in Actors \ {a} : job'[b] = job[b]
  BY DEF TopupCreate, Take, Goto, NoJob, TypeInv, TypeOK
<1>3. \A b \in Actors : job[b].pc \in TopupPCs => job[b].on # k /\ job[b].on \in Topups
  BY <1>1 DEF TypeInv, Fits
<1>4. /\ topup'[k].meta = "none" /\ topup'[k] # NoTopup
      /\ \A x \in Topups : x # k => topup'[x] = topup[x]
  BY <1>1, NoneAssumption DEF TypeInv, TypeOK, NoTopup
<1>5. TopupCreditedOnce'
  <2>1. credited[k] = 0
    BY <1>1, MaxPostedAssumption DEF TopupInv, TopupCreditedOnce, TypeInv, TypeOK
  <2> QED
    BY <2>1, <1>1, <1>4 DEF TopupInv, TopupCreditedOnce
<1>6. \A x \in Topups : topup'[x] = NoTopup => paystack'[x] = "none"
  BY <1>1, <1>4 DEF TopupInv
<1>7. ASSUME NEW b \in Actors
      PROVE  JobKnows(job[b])'
  <2>1. CASE b = a
    BY <1>1, <1>2, <1>4, <2>1 DEF JobKnows
  <2>2. CASE b # a
    BY <1>1, <1>2, <1>3, <1>4, <2>2 DEF TopupInv, JobKnows, TopupPCs
  <2> QED
    BY <2>1, <2>2
<1>8. Alone'
  BY <1>1, <1>2, <1>3 DEF TopupInv, Alone, Opening, TopupPCs
<1> QED
  BY <1>5, <1>6, <1>7, <1>8 DEF TopupInv

LEMMA VerifyReadKeeps ==
  ASSUME TypeInv, TopupInv, NEW a \in Actors, NEW k \in Topups, VerifyRead(a, k)
  PROVE  TopupInv'
<1>1. /\ topup[k].meta # "success"
      /\ UNCHANGED <<topup, credited, paystack>> /\ overlapped \subseteq overlapped'
      /\ \A b \in Actors : job[b].on = k /\ job[b].pc # "finish" => k \in overlapped'
  BY DEF VerifyRead, Take
<1>2. /\ job'[a].pc = "ask" /\ job'[a].on = k
      /\ \A b \in Actors \ {a} : job'[b] = job[b]
  BY DEF VerifyRead, Take, Goto, NoJob, TypeInv, TypeOK
<1>3. TopupCreditedOnce' /\ \A x \in Topups : topup'[x] = NoTopup => paystack'[x] = "none"
  BY <1>1 DEF TopupInv, TopupCreditedOnce
<1>4. ASSUME NEW b \in Actors PROVE JobKnows(job[b])'
  <2>1. CASE b = a
    BY <1>1, <1>2, <2>1 DEF JobKnows
  <2>2. CASE b # a
    BY <1>1, <1>2, <2>2 DEF TopupInv, JobKnows
  <2> QED
    BY <2>1, <2>2
<1>5. Alone'
  BY <1>1, <1>2 DEF TopupInv, Alone, Opening, TopupPCs, JobKnows
<1> QED
  BY <1>3, <1>4, <1>5 DEF TopupInv

LEMMA TopupCheckoutKeeps ==
  ASSUME TypeInv, TopupInv, NEW a \in Actors, TopupCheckout(a)
  PROVE  TopupInv'
<1> DEFINE k == job[a].on
<1>1. /\ job[a].pc = "checkout" /\ k \in Topups /\ topup[k] # NoTopup /\ paystack[k] = "none"
  BY DEF TopupCheckout, TypeInv, Fits, TopupPCs, TopupInv, JobKnows
<1>2. /\ paystack'[k] = "pending" /\ \A x \in Topups : x # k => paystack'[x] = paystack[x]
      /\ UNCHANGED <<topup, credited, overlapped>>
  BY <1>1 DEF TopupCheckout, TypeInv, TypeOK
<1>3. /\ job'[a].pc = "keep" /\ job'[a].on = k /\ \A b \in Actors \ {a} : job'[b] = job[b]
  BY DEF TopupCheckout, GoOn, Goto, TypeInv, TypeOK, Jobs
<1>4. /\ \A b \in Actors : job[b].pc \in TopupPCs => job[b].on \in Topups
      /\ \A b \in Actors \ {a} : job[b].pc \in Opening => job[b].on # k
      /\ \A b \in Actors \ {a} : job[b].pc \in TopupPCs /\ job[b].on = k => k \in overlapped
  BY <1>1 DEF TypeInv, Fits, TopupInv, Alone, Opening, TopupPCs
<1>5. TopupCreditedOnce'
  <2>1. credited[k] = 0
    BY <1>1, MaxPostedAssumption DEF TopupInv, TopupCreditedOnce, TypeInv, TypeOK
  <2> QED
    BY <2>1, <1>2 DEF TopupInv, TopupCreditedOnce
<1>6. \A x \in Topups : topup'[x] = NoTopup => paystack'[x] = "none"
  BY <1>1, <1>2 DEF TopupInv
<1>7. ASSUME NEW b \in Actors PROVE JobKnows(job[b])'
  <2>1. CASE b = a
    BY <1>2, <1>3, <2>1 DEF JobKnows
  <2>2. CASE b # a /\ job[b].on # k
    BY <1>2, <1>3, <1>4, <2>2 DEF TopupInv, JobKnows, TopupPCs
  <2>3. CASE b # a /\ job[b].on = k
    BY <1>1, <1>2, <1>3, <1>4, <2>3 DEF TopupInv, JobKnows, Opening, TopupPCs
  <2> QED
    BY <2>1, <2>2, <2>3
<1>8. Alone'
  BY <1>1, <1>2, <1>3 DEF TopupInv, Alone, Opening, TopupPCs
<1> QED
  BY <1>5, <1>6, <1>7, <1>8 DEF TopupInv

LEMMA TopupKeepKeeps ==
  ASSUME TypeInv, TopupInv, NEW a \in Actors, TopupKeep(a)
  PROVE  TopupInv'
<1> DEFINE k == job[a].on
<1>1. /\ job[a].pc = "keep" /\ k \in Topups /\ topup[k] \in TopupRows /\ paystack[k] = "pending"
  BY DEF TopupKeep, TypeInv, TypeOK, Fits, TopupPCs, TopupInv, JobKnows
<1>2. /\ topup'[k].meta = "open" /\ topup'[k] # NoTopup
      /\ \A x \in Topups : x # k => topup'[x] = topup[x]
      /\ UNCHANGED <<credited, paystack, overlapped>>
  BY <1>1 DEF TopupKeep, TypeInv, TypeOK, TopupRows, NoTopup
<1>3. job'[a].pc = "idle" /\ \A b \in Actors \ {a} : job'[b] = job[b]
  BY DEF TopupKeep, Reply, Goto, NoJob, TypeInv, TypeOK
<1>4. /\ \A b \in Actors : job[b].pc \in TopupPCs => job[b].on \in Topups
      /\ \A b \in Actors \ {a} : job[b].pc \in Opening => job[b].on # k
      /\ \A b \in Actors \ {a} : job[b].pc \in TopupPCs /\ job[b].on = k => k \in overlapped
  BY <1>1 DEF TypeInv, Fits, TopupInv, Alone, Opening, TopupPCs
<1>5. TopupCreditedOnce'
  <2>1. credited[k] = 0
    BY <1>1, MaxPostedAssumption DEF TopupInv, TopupCreditedOnce, TypeInv, TypeOK
  <2> QED
    BY <2>1, <1>2 DEF TopupInv, TopupCreditedOnce
<1>6. \A x \in Topups : topup'[x] = NoTopup => paystack'[x] = "none"
  BY <1>2 DEF TopupInv
<1>7. ASSUME NEW b \in Actors PROVE JobKnows(job[b])'
  <2>1. CASE b = a
    BY <1>3, <2>1 DEF JobKnows
  <2>2. CASE b # a /\ job[b].on # k
    BY <1>2, <1>3, <1>4, <2>2 DEF TopupInv, JobKnows, TopupPCs
  <2>3. CASE b # a /\ job[b].on = k
    BY <1>1, <1>2, <1>3, <1>4, <2>3 DEF TopupInv, JobKnows, Opening, TopupPCs
  <2> QED
    BY <2>1, <2>2, <2>3
<1>8. Alone'
  BY <1>2, <1>3 DEF TopupInv, Alone, Opening, TopupPCs
<1> QED
  BY <1>5, <1>6, <1>7, <1>8 DEF TopupInv

LEMMA VerifyAskKeeps ==
  ASSUME TypeInv, TopupInv, NEW a \in Actors, VerifyAsk(a)
  PROVE  TopupInv'
<1>1. /\ job[a].pc = "ask" /\ job[a].on \in Topups /\ paystack[job[a].on] # "none"
      /\ UNCHANGED <<topup, credited, paystack, overlapped>>
  BY DEF VerifyAsk, TypeInv, Fits, TopupPCs
<1>2. /\ job'[a].pc = "mark" /\ job'[a].on = job[a].on /\ job'[a].seen = paystack[job[a].on]
      /\ \A b \in Actors \ {a} : job'[b] = job[b]
  BY DEF VerifyAsk, Goto, TypeInv, TypeOK, Jobs
<1>3. TopupCreditedOnce' /\ \A x \in Topups : topup'[x] = NoTopup => paystack'[x] = "none"
  BY <1>1 DEF TopupInv, TopupCreditedOnce
<1>4. ASSUME NEW b \in Actors PROVE JobKnows(job[b])'
  <2>1. CASE b = a
    BY <1>1, <1>2, <2>1 DEF TopupInv, JobKnows
  <2>2. CASE b # a
    BY <1>1, <1>2, <2>2 DEF TopupInv, JobKnows
  <2> QED
    BY <2>1, <2>2
<1>5. Alone'
  BY <1>1, <1>2 DEF TopupInv, Alone, Opening, TopupPCs
<1> QED
  BY <1>3, <1>4, <1>5 DEF TopupInv

LEMMA VerifyMarkKeeps ==
  ASSUME TypeInv, TopupInv, NEW a \in Actors, VerifyMark(a)
  PROVE  TopupInv'
<1> DEFINE k == job[a].on
<1>1. /\ job[a].pc = "mark" /\ k \in Topups /\ topup[k] \in TopupRows
      /\ job[a].seen = "success" => paystack[k] = "success"
      /\ paystack[k] # "none" /\ (k \notin overlapped => topup[k].meta # "success")
  BY DEF VerifyMark, TypeInv, TypeOK, Fits, TopupPCs, TopupInv, JobKnows
<1>2. /\ topup' = [topup EXCEPT ![k].meta = job[a].seen]
      /\ topup'[k].meta = job[a].seen /\ topup'[k] # NoTopup
      /\ UNCHANGED <<paystack, credited, overlapped>>
  BY <1>1, NoneAssumption DEF VerifyMark, TypeInv, TypeOK, TopupRows, NoTopup
<1>3. /\ job'[a].pc \in {"credit", "idle"}
      /\ job'[a].pc = "credit" => /\ job'[a].on = k /\ job'[a].seen = job[a].seen
                                  /\ job[a].seen = "success"
      /\ \A b \in Actors \ {a} : job'[b] = job[b]
  BY DEF VerifyMark, GoOn, Reply, Goto, NoJob, TypeInv, TypeOK, Jobs
<1>4. /\ \A b \in Actors : job[b].pc \in TopupPCs => job[b].on \in Topups
      /\ \A b \in Actors \ {a} :
           job[b].pc \in TopupPCs /\ job[b].on = k => job[b].pc # "checkout" /\ k \in overlapped
  <2>1. \A b \in Actors : job[b].pc \in TopupPCs => job[b].on \in Topups
    BY DEF TypeInv, Fits
  <2>2. \A b \in Actors : job[b].on = k => job[b].pc # "checkout"
    BY <1>1 DEF TopupInv, JobKnows
  <2>3. \A b \in Actors \ {a} : job[b].pc \in TopupPCs /\ job[b].on = k => k \in overlapped
    BY <1>1 DEF TopupInv, Alone, TopupPCs
  <2> QED
    BY <2>1, <2>2, <2>3
<1>5. \A x \in Topups : x # k => topup'[x] = topup[x]
  BY <1>2 DEF TypeInv, TypeOK
<1>a. k \notin overlapped => credited[k] = 0
  BY <1>1, MaxPostedAssumption DEF TopupInv, TopupCreditedOnce, TypeInv, TypeOK
<1>6. TopupCreditedOnce'
  BY <1>2, <1>5, <1>a DEF TopupInv, TopupCreditedOnce
<1>7. \A x \in Topups : topup'[x] = NoTopup => paystack'[x] = "none"
  BY <1>2, <1>5 DEF TopupInv
<1>8. ASSUME NEW b \in Actors PROVE JobKnows(job[b])'
  <2>1. CASE b = a
    BY <1>1, <1>2, <1>3, <1>a, <2>1 DEF JobKnows
  <2>2. CASE b # a
    BY <1>2, <1>3, <1>4, <1>5, <2>2 DEF TopupInv, JobKnows, TopupPCs
  <2> QED
    BY <2>1, <2>2
<1>9. Alone'
  BY <1>1, <1>2, <1>3 DEF TopupInv, Alone, Opening, TopupPCs
<1> QED
  BY <1>6, <1>7, <1>8, <1>9 DEF TopupInv

LEMMA VerifyCreditKeeps ==
  ASSUME TypeInv, TopupInv, NEW a \in Actors, VerifyCredit(a)
  PROVE  TopupInv'
<1> DEFINE k == job[a].on
<1>1. /\ job[a].pc = "credit" /\ k \in Topups /\ paystack[k] = "success"
      /\ k \notin overlapped => topup[k].meta = "success" /\ credited[k] = 0
  BY DEF VerifyCredit, TypeInv, Fits, TopupPCs, TopupInv, JobKnows
<1>2. /\ credited' = [credited EXCEPT ![k] = @ + 1] /\ credited[k] \in Nat
      /\ UNCHANGED <<topup, paystack, overlapped>>
  BY <1>1, MaxPostedAssumption DEF VerifyCredit, TypeInv, TypeOK
<1>3. job'[a].pc = "idle" /\ \A b \in Actors \ {a} : job'[b] = job[b]
  BY DEF VerifyCredit, Reply, Goto, NoJob, TypeInv, TypeOK
<1>4. /\ credited'[k] = credited[k] + 1
      /\ \A x \in Topups : x # k => credited'[x] = credited[x]
  BY <1>1, <1>2 DEF TypeInv, TypeOK
<1>5. /\ \A b \in Actors : job[b].pc \in TopupPCs => job[b].on \in Topups
      /\ \A b \in Actors \ {a} : job[b].pc \in TopupPCs /\ job[b].on = k => k \in overlapped
  BY <1>1 DEF TypeInv, Fits, TopupInv, Alone, Opening, TopupPCs
<1>6. TopupCreditedOnce'
  BY <1>1, <1>2, <1>4 DEF TopupInv, TopupCreditedOnce
<1>7. ASSUME NEW b \in Actors PROVE JobKnows(job[b])'
  BY <1>2, <1>3, <1>4, <1>5 DEF TopupInv, JobKnows, TopupPCs
<1>8. Alone' /\ \A x \in Topups : topup'[x] = NoTopup => paystack'[x] = "none"
  BY <1>2, <1>3 DEF TopupInv, Alone, Opening, TopupPCs
<1> QED
  BY <1>6, <1>7, <1>8 DEF TopupInv

LEMMA CustomerPaysKeeps ==
  ASSUME TypeInv, TopupInv, NEW k \in Topups, CustomerPays(k)
  PROVE  TopupInv'
<1>1. /\ paystack[k] = "pending" /\ paystack'[k] = "success"
      /\ \A x \in Topups : x # k => paystack'[x] = paystack[x]
      /\ \A b \in Actors : job[b].on = k => job[b].pc # "keep"
      /\ UNCHANGED <<topup, credited, job, overlapped>>
  BY DEF CustomerPays, TypeInv, TypeOK
<1>2. TopupCreditedOnce' /\ \A x \in Topups : topup'[x] = NoTopup => paystack'[x] = "none"
  BY <1>1 DEF TopupInv, TopupCreditedOnce
<1>3. ASSUME NEW b \in Actors PROVE JobKnows(job[b])'
  BY <1>1 DEF TopupInv, JobKnows, TypeInv, Fits, TopupPCs
<1>4. Alone'
  BY <1>1 DEF TopupInv, Alone, Opening
<1> QED
  BY <1>2, <1>3, <1>4 DEF TopupInv

LEMMA TopupInvHolds == Spec => []TopupInv
<1>1. ASSUME TypeInv, TopupInv, [Next]_vars PROVE TopupInv'
  <2>1. ASSUME NEW a \in Actors, TopupStep(a) PROVE TopupInv'
    BY <1>1, <2>1, TopupCreateKeeps, VerifyReadKeeps, TopupCheckoutKeeps, TopupKeepKeeps, VerifyAskKeeps,
       VerifyMarkKeeps, VerifyCreditKeeps DEF TopupStep
  <2>2. ASSUME NEW a \in Actors, SettleStep(a) \/ PayoutStep(a) \/ Fails(a) PROVE TopupInv'
    <3>1. UNCHANGED <<topup, credited, paystack>> /\ (Moves(a, TripPCs) \/ Moves(a, PayoutPCs))
      BY <1>1, <2>2, SettleMoves, PayoutMoves, FailsMoves
    <3> QED
      BY <1>1, <3>1, TopupFrame DEF Moves, TripPCs, TopupPCs, PayoutPCs
  <2>3. CASE \E k \in Topups : CustomerPays(k)
    BY <1>1, <2>3, CustomerPaysKeeps
  <2>4. CASE Crash
    BY <1>1, <2>4, TopupFrame DEF Crash, NoJob, TopupPCs
  <2>5. CASE UNCHANGED vars
    BY <1>1, <2>5, TopupFrame DEF vars
  <2> QED
    BY <1>1, <2>1, <2>2, <2>3, <2>4, <2>5, ByArea
<1> QED
  BY <1>1, TopupInit, TypeInvHolds, PTL DEF Spec

\* Only what was paid at Paystack is added to a wallet, and twice only by webhooks and
\* verifications that overlapped (markPaystackWalletTopup).
THEOREM CreditsOnce == Spec => []TopupCreditedOnce
<1>1. TopupInv => TopupCreditedOnce
  BY DEF TopupInv
<1> QED
  BY <1>1, TopupInvHolds, PTL

-----------------------------------------------------------------------------
(* Payouts *)

\* While nobody else decides on a payout, the one who does finds it undecided.
PayoutInv ==
  /\ RefundedIffFailed
  /\ \A a \in Actors : job[a].pc \in PayoutPCs /\ job[a].on \notin overlapped =>
       /\ payout[job[a].on].st \in {"PENDING", "PROCESSING"}
       /\ \A b \in Actors : job[b].pc \in PayoutPCs /\ job[b].on = job[a].on => b = a

LEMMA PayoutInit == Init => PayoutInv
BY DEF Init, PayoutInv, RefundedIffFailed, NoJob, NoPayout, PayoutPCs

LEMMA PayoutFrame ==
  ASSUME PayoutInv, UNCHANGED payout, overlapped \subseteq overlapped',
         \A b \in Actors : job'[b].pc \in PayoutPCs => job[b].pc \in PayoutPCs /\ job'[b].on = job[b].on
  PROVE  PayoutInv'
BY DEF PayoutInv, RefundedIffFailed

LEMMA PayoutReadKeeps ==
  ASSUME TypeInv, PayoutInv, NEW a \in Actors, NEW u \in Users, NEW n \in Amounts, PayoutRead(a, u, n)
  PROVE  PayoutInv'
<1>1. /\ job'[a].pc = "reserve" /\ \A b \in Actors \ {a} : job'[b] = job[b]
      /\ UNCHANGED <<payout, overlapped>>
  BY DEF PayoutRead, Goto, NoJob, TypeInv, TypeOK
<1> QED
  BY <1>1, PayoutFrame DEF PayoutPCs

LEMMA DeskReadKeeps ==
  ASSUME TypeInv, PayoutInv, NEW a \in Actors, NEW k \in Payouts, NEW verdict \in {"markPaid", "markFailed"},
         DeskRead(a, k, verdict)
  PROVE  PayoutInv'
<1>1. /\ payout[k].st \in {"PENDING", "PROCESSING"}
      /\ UNCHANGED payout /\ overlapped \subseteq overlapped'
      /\ \A b \in Actors : job[b].on = k /\ job[b].pc # "finish" => k \in overlapped'
  BY DEF DeskRead, Take
<1>2. job'[a].on = k /\ \A b \in Actors \ {a} : job'[b] = job[b]
  BY DEF DeskRead, Take, Goto, NoJob, TypeInv, TypeOK
<1>3. RefundedIffFailed'
  BY <1>1 DEF PayoutInv, RefundedIffFailed
<1> QED
  BY <1>1, <1>2, <1>3 DEF PayoutInv, PayoutPCs

LEMMA PayoutReserveKeeps ==
  ASSUME TypeInv, PayoutInv, NEW a \in Actors, NEW k \in Payouts, PayoutReserve(a, k)
  PROVE  PayoutInv'
<1>1. /\ payout'[k].st = "PENDING" /\ payout'[k].refunds = 0
      /\ \A x \in Payouts : x # k => payout'[x] = payout[x]
      /\ payout[k] = NoPayout /\ overlapped' = overlapped
  BY DEF PayoutReserve, TypeInv, TypeOK
<1>2. \A b \in Actors : job[b].pc \in PayoutPCs => job[b].on # k /\ job[b].on \in Payouts
  BY <1>1 DEF TypeInv, Fits
<1>3. /\ job'[a].pc = "idle" \/ job'[a].on = k
      /\ \A b \in Actors \ {a} : job'[b] = job[b]
  <2>1. job \in [Actors -> Jobs]
    BY DEF TypeInv, TypeOK
  <2>2. CASE Reply(a)
    BY <2>1, <2>2 DEF Reply, Goto, NoJob
  <2>3. CASE Goto(a, [NoJob EXCEPT !.pc = "transfer", !.on = k])
    BY <2>1, <2>3 DEF Goto, NoJob
  <2> QED
    BY <2>2, <2>3 DEF PayoutReserve
<1>4. RefundedIffFailed'
  BY <1>1 DEF PayoutInv, RefundedIffFailed
<1> QED
  BY <1>1, <1>2, <1>3, <1>4 DEF PayoutInv, PayoutPCs

LEMMA PayoutTransferKeeps ==
  ASSUME TypeInv, PayoutInv, NEW a \in Actors, PayoutTransfer(a)
  PROVE  PayoutInv'
<1>1. /\ job[a].pc \in PayoutPCs /\ job'[a].on = job[a].on
      /\ \A b \in Actors \ {a} : job'[b] = job[b]
      /\ UNCHANGED <<payout, overlapped>>
  BY DEF PayoutTransfer, GoOn, Goto, PayoutPCs, TypeInv, TypeOK, Jobs
<1> QED
  BY <1>1, PayoutFrame

\* A request a that decides on its payout and ends: the payout has been refunded
\* exactly if it becomes FAILED.
LEMMA DecisionKeeps ==
  ASSUME TypeInv, PayoutInv, NEW a \in Actors, job[a].pc \in PayoutPCs, overlapped' = overlapped,
         job' = [job EXCEPT ![a] = NoJob],
         NEW s \in PayoutStatuses,
         \A x \in Payouts : x # job[a].on => payout'[x] = payout[x],
         payout'[job[a].on].st = s,
         payout'[job[a].on].refunds = payout[job[a].on].refunds + (IF s = "FAILED" THEN 1 ELSE 0)
  PROVE  PayoutInv'
<1> DEFINE k == job[a].on
<1>1. k \in Payouts /\ \A b \in Actors : job[b].pc \in PayoutPCs => job[b].on \in Payouts
  BY DEF TypeInv, Fits
<1>2. job'[a].pc = "idle" /\ \A b \in Actors \ {a} : job'[b] = job[b]
  BY DEF NoJob, TypeInv, TypeOK
<1>3. k \notin overlapped => payout[k].refunds = 0
  BY <1>1 DEF PayoutInv, RefundedIffFailed
<1>4. RefundedIffFailed'
  BY <1>3 DEF PayoutInv, RefundedIffFailed
<1>5. ASSUME NEW b \in Actors, job'[b].pc \in PayoutPCs, job'[b].on \notin overlapped'
      PROVE  /\ payout'[job'[b].on].st \in {"PENDING", "PROCESSING"}
             /\ \A c \in Actors : job'[c].pc \in PayoutPCs /\ job'[c].on = job'[b].on => c = b
  <2>1. b # a /\ job'[b] = job[b] /\ job[b].on # k
    BY <1>2, <1>5 DEF PayoutInv, PayoutPCs
  <2> QED
    BY <1>1, <1>2, <1>5, <2>1 DEF PayoutInv, PayoutPCs
<1> QED
  BY <1>4, <1>5 DEF PayoutInv

LEMMA PayoutDecisionsKeep ==
  ASSUME TypeInv, PayoutInv, NEW a \in Actors,
         PayoutRecord(a) \/ PayoutRefund(a) \/ DeskMarkPaid(a) \/ DeskMarkFailed(a)
  PROVE  PayoutInv'
<1>1. /\ job[a].pc \in PayoutPCs /\ job[a].on \in Payouts /\ payout[job[a].on] \in PayoutRows
      /\ job' = [job EXCEPT ![a] = NoJob] /\ overlapped' = overlapped
  BY DEF PayoutRecord, PayoutRefund, DeskMarkPaid, DeskMarkFailed, Reply, Goto, TypeInv, TypeOK, Fits, PayoutPCs
<1>2. CASE PayoutRecord(a) \/ DeskMarkPaid(a)
  <2>1. PICK s \in {"PAID", "PROCESSING"} : payout' = [payout EXCEPT ![job[a].on].st = s]
    BY <1>2 DEF PayoutRecord, DeskMarkPaid
  <2>2. /\ payout'[job[a].on].st = s /\ payout'[job[a].on].refunds = payout[job[a].on].refunds + 0
        /\ \A x \in Payouts : x # job[a].on => payout'[x] = payout[x]
    BY <1>1, <2>1 DEF TypeInv, TypeOK, PayoutRows
  <2> QED
    BY <1>1, <2>2, DecisionKeeps DEF PayoutStatuses
<1>3. CASE PayoutRefund(a) \/ DeskMarkFailed(a)
  <2>1. GiveBack(job[a].on)
    BY <1>3 DEF PayoutRefund, DeskMarkFailed
  <2>2. /\ payout'[job[a].on].st = "FAILED"
        /\ payout'[job[a].on].refunds = payout[job[a].on].refunds + 1
        /\ \A x \in Payouts : x # job[a].on => payout'[x] = payout[x]
    BY <1>1, <2>1 DEF GiveBack, TypeInv, TypeOK, PayoutRows
  <2> QED
    BY <1>1, <2>2, DecisionKeeps DEF PayoutStatuses
<1> QED
  BY <1>2, <1>3

\* The money of a payout is back in its owner's wallet exactly if it has FAILED, unless
\* two decisions on it overlapped (instant-payout, mark-paid, mark-failed).
THEOREM RefundsMatch == Spec => []RefundedIffFailed
<1>1. ASSUME TypeInv, PayoutInv, [Next]_vars PROVE PayoutInv'
  <2>1. ASSUME NEW a \in Actors, PayoutStep(a) PROVE PayoutInv'
    BY <1>1, <2>1, PayoutReadKeeps, DeskReadKeeps, PayoutReserveKeeps, PayoutTransferKeeps,
       PayoutDecisionsKeep DEF PayoutStep
  <2>2. ASSUME NEW a \in Actors, SettleStep(a) \/ TopupStep(a) PROVE PayoutInv'
    <3>1. UNCHANGED payout /\ (Moves(a, TripPCs) \/ Moves(a, TopupPCs))
      BY <1>1, <2>2, SettleMoves, TopupMoves
    <3> QED
      BY <1>1, <3>1, PayoutFrame DEF Moves, TripPCs, TopupPCs, PayoutPCs
  <2>3. ASSUME NEW a \in Actors, Fails(a) PROVE PayoutInv'
    BY <1>1, <2>3, FailsMoves, PayoutFrame DEF Moves
  <2>4. CASE (\E k \in Topups : CustomerPays(k)) \/ UNCHANGED vars
    BY <1>1, <2>4, PayoutFrame DEF CustomerPays, vars
  <2>5. CASE Crash
    BY <1>1, <2>5, PayoutFrame DEF Crash, NoJob, PayoutPCs
  <2> QED
    BY <1>1, <2>1, <2>2, <2>3, <2>4, <2>5, ByArea
<1>2. PayoutInv => RefundedIffFailed
  BY DEF PayoutInv
<1> QED
  BY <1>1, <1>2, PayoutInit, TypeInvHolds, PTL DEF Spec

-----------------------------------------------------------------------------
(* What a sum comes to.  The recursion of SumFunction is over subsets; it has
   a solution for every finite domain, and a change of one summand changes the
   sum by as much.  Both by a smallest counterexample.                       *)

Some(s) == CHOOSE x \in s : TRUE

\* g sums f over the sets in S, one element at a time.
Adds(g, f, S) ==
  g = [s \in S |-> IF s = {} THEN 0 ELSE f[Some(s)] + g[s \ {Some(s)}]]

Small(D, n) == {s \in SUBSET D : Cardinality(s) <= n}

LEMMA SumIsAdds ==
  ASSUME NEW D, NEW f \in [D -> Int]
  PROVE  SumFunction(f) = (CHOOSE g : Adds(g, f, SUBSET D))[D]
BY DEF SumFunction, SumFunctionOnSet, FoldFunctionOnSet, MapThenFoldSet, Adds, Some

Below == {ss \in Nat \X Nat : ss[1] < ss[2]}

LEMMA BelowWellFounded == IsWellFoundedOn(Below, Nat)
BY NatLessThanWellFounded, Zenon DEF OpToRel, Below

LEMMA Least ==
  ASSUME NEW Bad, Bad \subseteq Nat, Bad # {}
  PROVE  \E m \in Bad : \A k \in Bad : m <= k
<1>1. PICK m \in Bad : \A k \in Bad : ~ (<<k, m>> \in Below)
  BY BelowWellFounded, WFMin
<1>2. ASSUME NEW k \in Bad PROVE m <= k
  <2>1. k \in Nat /\ m \in Nat /\ (k < m => <<k, m>> \in Below)
    BY DEF Below
  <2> QED
    BY <1>1, <2>1
<1> QED
  BY <1>2

LEMMA LeastSet ==
  ASSUME NEW D, IsFiniteSet(D), NEW Bad, Bad \subseteq SUBSET D, Bad # {}
  PROVE  \E s \in Bad : \A r \in Bad : r \subseteq s => r = s
<1>1. IsWellFoundedOn(StrictSubsetOrdering(D), SUBSET D)
  BY FS_StrictSubsetOrderingWellFounded, FS_FiniteSubsetsOfFinite
<1>2. PICK s \in Bad : \A r \in Bad : ~ (<<r, s>> \in StrictSubsetOrdering(D))
  BY <1>1, WFMin
<1>3. ASSUME NEW r \in Bad, r \subseteq s PROVE r = s
  <2>1. <<r, s>> \in (SUBSET D) \X (SUBSET D) /\ ~ (<<r, s>> \in StrictSubsetOrdering(D))
    BY <1>2
  <2> QED
    BY <1>3, <2>1 DEF StrictSubsetOrdering
<1> QED
  BY <1>3

\* One element taken from a set that is not empty.
LEMMA TakeOne ==
  ASSUME NEW D, IsFiniteSet(D), NEW s \in SUBSET D, s # {}
  PROVE  /\ Some(s) \in s /\ Some(s) \in D /\ s \ {Some(s)} \in SUBSET D
         /\ Cardinality(s) \in Nat /\ Cardinality(s \ {Some(s)}) = Cardinality(s) - 1
<1>1. Some(s) \in s
  BY DEF Some
<1>2. IsFiniteSet(s)
  BY FS_Subset
<1> QED
  BY <1>1, <1>2, FS_CardinalityType, FS_RemoveElement

LEMMA AddsUpTo ==
  ASSUME NEW D, IsFiniteSet(D), NEW f \in [D -> Int], NEW n \in Nat
  PROVE  \E g \in [Small(D, n) -> Int] : Adds(g, f, Small(D, n))
<1> DEFINE Good(m) == \E g \in [Small(D, m) -> Int] : Adds(g, f, Small(D, m))
           Bad == {m \in Nat : ~ Good(m)}
<1>1. Good(0)
  <2> DEFINE g == [s \in Small(D, 0) |-> 0]
  <2>1. \A s \in Small(D, 0) : s = {}
    <3> SUFFICES ASSUME NEW s \in SUBSET D, Cardinality(s) <= 0, s # {} PROVE FALSE
      BY DEF Small
    <3>1. IsFiniteSet(s)
      BY FS_Subset
    <3> QED
      BY <3>1, FS_CardinalityType, FS_EmptySet
  <2>2. g \in [Small(D, 0) -> Int] /\ Adds(g, f, Small(D, 0))
    BY <2>1 DEF Adds
  <2> QED
    BY <2>2
<1>2. ASSUME NEW m \in Nat, Good(m) PROVE Good(m + 1)
  <2>1. PICK g \in [Small(D, m) -> Int] : Adds(g, f, Small(D, m))
    BY <1>2
  <2> DEFINE S == Small(D, m + 1)
             h == [s \in S |-> IF s = {} THEN 0 ELSE f[Some(s)] + g[s \ {Some(s)}]]
  <2>2. \A s \in S : s # {} => Some(s) \in D /\ s \ {Some(s)} \in Small(D, m)
    <3> SUFFICES ASSUME NEW s \in S, s # {} PROVE Some(s) \in D /\ s \ {Some(s)} \in Small(D, m)
      OBVIOUS
    <3>1. s \in SUBSET D /\ Cardinality(s) <= m + 1
      BY DEF Small
    <3> QED
      BY <3>1, TakeOne DEF Small
  <2>3. h \in [S -> Int]
    <3>1. ASSUME NEW s \in S PROVE h[s] \in Int
      BY <2>2
    <3> QED
      BY <3>1
  <2>4. \A s \in Small(D, m) : s \in S /\ h[s] = g[s]
    <3>1. Small(D, m) \subseteq S
      <4> SUFFICES ASSUME NEW s \in SUBSET D, Cardinality(s) <= m PROVE Cardinality(s) <= m + 1
        BY DEF Small
      <4>1. Cardinality(s) \in Nat
        BY FS_Subset, FS_CardinalityType
      <4> QED
        BY <4>1
    <3>2. \A s \in Small(D, m) : g[s] = IF s = {} THEN 0 ELSE f[Some(s)] + g[s \ {Some(s)}]
      BY <2>1 DEF Adds
    <3> QED
      BY <3>1, <3>2
  <2>5. Adds(h, f, S)
    <3>1. \A s \in S : h[s] = IF s = {} THEN 0 ELSE f[Some(s)] + h[s \ {Some(s)}]
      BY <2>2, <2>4
    <3> HIDE DEF h
    <3> QED
      BY <2>3, <3>1 DEF Adds
  <2> QED
    BY <2>3, <2>5
<1> HIDE DEF Good
<1> SUFFICES ASSUME Bad # {} PROVE FALSE
  BY DEF Good
<1>3. PICK m \in Bad : \A k \in Bad : m <= k
  BY Least
<1>4. m \in Nat /\ m # 0 /\ m - 1 \in Nat /\ m - 1 \notin Bad
  BY <1>1, <1>3
<1> QED
  BY <1>2, <1>3, <1>4

\* The sum, as a function on the subsets of the domain.
LEMMA SumAdds ==
  ASSUME NEW D, IsFiniteSet(D), NEW f \in [D -> Int]
  PROVE  \E g \in [SUBSET D -> Int] : SumFunction(f) = g[D] /\ Adds(g, f, SUBSET D)
<1> DEFINE n == Cardinality(D)
           g == CHOOSE h : Adds(h, f, SUBSET D)
<1>1. n \in Nat /\ Small(D, n) = SUBSET D
  BY FS_CardinalityType, FS_Subset DEF Small
<1>2. \E h : Adds(h, f, SUBSET D)
  <2> HIDE DEF n
  <2>1. \E h \in [Small(D, n) -> Int] : Adds(h, f, Small(D, n))
    BY <1>1, AddsUpTo
  <2> QED
    BY <1>1, <2>1
<1>3. Adds(g, f, SUBSET D)
  BY <1>2
<1> HIDE DEF g
<1>4. g \in [SUBSET D -> Int]
  <2> DEFINE Bad == {s \in SUBSET D : g[s] \notin Int}
  <2> SUFFICES ASSUME Bad # {} PROVE FALSE
    BY <1>3 DEF Adds
  <2>1. PICK s \in Bad : \A r \in Bad : r \subseteq s => r = s
    <3>1. Bad \subseteq SUBSET D
      OBVIOUS
    <3> HIDE DEF Bad
    <3> QED
      BY <3>1, LeastSet
  <2>2. s # {} /\ g[s] = f[Some(s)] + g[s \ {Some(s)}]
    <3>1. g[s] = IF s = {} THEN 0 ELSE f[Some(s)] + g[s \ {Some(s)}]
      BY <1>3 DEF Adds
    <3> QED
      BY <3>1
  <2>3. Some(s) \in s /\ Some(s) \in D /\ s \ {Some(s)} \in SUBSET D
    BY <2>2, TakeOne
  <2>4. g[s \ {Some(s)}] \in Int
    BY <2>1, <2>3
  <2> QED
    BY <2>1, <2>2, <2>3, <2>4
<1> QED
  BY <1>3, <1>4, SumIsAdds

LEMMA SumTyped ==
  ASSUME NEW D, IsFiniteSet(D), NEW f \in [D -> Int]
  PROVE  SumFunction(f) \in Int
<1>1. PICK g \in [SUBSET D -> Int] : SumFunction(f) = g[D] /\ Adds(g, f, SUBSET D)
  BY SumAdds
<1> QED
  BY <1>1

\* One summand changes, and the sum by as much.
LEMMA SumChanges ==
  ASSUME NEW D, IsFiniteSet(D), NEW f \in [D -> Int], NEW h \in [D -> Int], NEW x \in D,
         \A y \in D \ {x} : h[y] = f[y]
  PROVE  SumFunction(h) = SumFunction(f) + (h[x] - f[x])
<1>1. PICK g \in [SUBSET D -> Int] : SumFunction(f) = g[D] /\ Adds(g, f, SUBSET D)
  BY SumAdds
<1>2. PICK k \in [SUBSET D -> Int] : SumFunction(h) = k[D] /\ Adds(k, h, SUBSET D)
  BY SumAdds
<1> DEFINE Bad == {s \in SUBSET D : k[s] # g[s] + (IF x \in s THEN h[x] - f[x] ELSE 0)}
<1> SUFFICES ASSUME Bad # {} PROVE FALSE
  BY <1>1, <1>2
<1>3. PICK s \in Bad : \A r \in Bad : r \subseteq s => r = s
  <2>1. Bad \subseteq SUBSET D
    OBVIOUS
  <2> HIDE DEF Bad
  <2> QED
    BY <2>1, LeastSet
<1>4. /\ g[s] = IF s = {} THEN 0 ELSE f[Some(s)] + g[s \ {Some(s)}]
      /\ k[s] = IF s = {} THEN 0 ELSE h[Some(s)] + k[s \ {Some(s)}]
  BY <1>1, <1>2 DEF Adds
<1>5. s # {}
  BY <1>3, <1>4
<1> DEFINE y == Some(s)
           r == s \ {y}
<1>6. y \in s /\ y \in D /\ r \in SUBSET D /\ r # s
  BY <1>5, TakeOne
<1> HIDE DEF y
<1>7. k[r] = g[r] + (IF x \in r THEN h[x] - f[x] ELSE 0)
  BY <1>3, <1>6
<1>8. g[s] = f[y] + g[r] /\ k[s] = h[y] + k[r]
  BY <1>4, <1>5 DEF y
<1>9. f[y] \in Int /\ h[y] \in Int /\ f[x] \in Int /\ h[x] \in Int /\ g[r] \in Int /\ g[s] \in Int
  BY <1>6
<1>10. k[s] = g[s] + (IF x \in s THEN h[x] - f[x] ELSE 0)
  <2>1. CASE x = y
    BY <1>6, <1>7, <1>8, <1>9, <2>1
  <2>2. CASE x # y
    BY <1>6, <1>7, <1>8, <1>9, <2>2
  <2> QED
    BY <2>1, <2>2
<1> QED
  BY <1>3, <1>10

\* A sum of zeros.
LEMMA SumOfZeros ==
  ASSUME NEW D, IsFiniteSet(D), NEW f \in [D -> Int], \A x \in D : f[x] = 0
  PROVE  SumFunction(f) = 0
<1>1. PICK g \in [SUBSET D -> Int] : SumFunction(f) = g[D] /\ Adds(g, f, SUBSET D)
  BY SumAdds
<1> DEFINE Bad == {s \in SUBSET D : g[s] # 0}
<1> SUFFICES ASSUME Bad # {} PROVE FALSE
  BY <1>1
<1>2. PICK s \in Bad : \A r \in Bad : r \subseteq s => r = s
  <2>1. Bad \subseteq SUBSET D
    OBVIOUS
  <2> HIDE DEF Bad
  <2> QED
    BY <2>1, LeastSet
<1>3. s # {} /\ g[s] = f[Some(s)] + g[s \ {Some(s)}]
  BY <1>1, <1>2 DEF Adds
<1>4. Some(s) \in s /\ Some(s) \in D /\ s \ {Some(s)} \in SUBSET D
  BY <1>3, TakeOne
<1>5. g[s \ {Some(s)}] = 0 /\ f[Some(s)] = 0
  BY <1>2, <1>4
<1> QED
  BY <1>2, <1>3, <1>5

-----------------------------------------------------------------------------
(* Balances and the ledger *)

\* What u's rows come to, per ride, top-up and payout.
OfTrips(u) == [t \in Trips |-> posted[t] * SettlementOf(t, u)]
OfTopups(u) == [k \in Topups |-> IF topup[k].owner = u THEN credited[k] * topup[k].amount ELSE 0]
OfPayouts(u) ==
  [k \in Payouts |-> IF payout[k].owner = u THEN (payout[k].refunds - 1) * payout[k].amount ELSE 0]

\* What was booked to u's wallet: top-ups as often as they were credited.
BookedOf(u) == SumFunction(OfTrips(u)) + SumFunction(OfTopups(u)) + SumFunction(OfPayouts(u))
BalanceIsBooked == \A u \in Users : balance[u] = BookedOf(u)

\* A top-up that does not exist yet has not been credited.
NewTopups == \A k \in Topups : topup[k] = NoTopup => credited[k] = 0

LedgerInv == BalanceIsBooked /\ NewTopups

LEMMA Once == \A m, n \in Int : (m + 1) * n - m * n = n /\ 0 * n = 0 /\ (0 - 1) * n = -n /\ m * n \in Int
OBVIOUS

LEMMA AmountsAreInts == \A n \in Amounts : n \in Int
BY MoneyAssumption

\* The rows a summand is made of are numbers.
LEMMA RowsTyped ==
  ASSUME TypeInv
  PROVE  /\ \A t \in Trips : posted[t] \in Int
         /\ \A k \in Topups : topup[k].amount \in Int /\ credited[k] \in Int
         /\ \A k \in Payouts : payout[k].amount \in Int /\ payout[k].refunds \in Int
         /\ \A u \in Users : balance[u] \in Int /\ \A t \in Trips : SettlementOf(t, u) \in Int
<1>1. \A t \in Trips : posted[t] \in Int
  BY MaxPostedAssumption DEF TypeInv, TypeOK
<1>2. ASSUME NEW k \in Topups PROVE topup[k].amount \in Int /\ credited[k] \in Int
  <2>1. topup[k] \in TopupRows \cup {NoTopup}
    BY DEF TypeInv, TypeOK
  <2>2. credited[k] \in Int
    BY MaxPostedAssumption DEF TypeInv, TypeOK
  <2>3. CASE topup[k] \in TopupRows
    BY <2>2, <2>3, AmountsAreInts DEF TopupRows
  <2>4. CASE topup[k] = NoTopup
    BY <2>2, <2>4 DEF NoTopup
  <2> QED
    BY <2>1, <2>3, <2>4
<1>3. ASSUME NEW k \in Payouts PROVE payout[k].amount \in Int /\ payout[k].refunds \in Int
  <2>1. payout[k] \in PayoutRows \cup {NoPayout}
    BY DEF TypeInv, TypeOK
  <2>2. CASE payout[k] \in PayoutRows
    BY <2>2, AmountsAreInts DEF PayoutRows
  <2>3. CASE payout[k] = NoPayout
    BY <2>3 DEF NoPayout
  <2> QED
    BY <2>1, <2>2, <2>3
<1> QED
  BY <1>1, <1>2, <1>3, SettlementIsInt DEF TypeInv, TypeOK

SummandsTyped ==
  \A u \in Users : /\ OfTrips(u) \in [Trips -> Int]
                  /\ OfTopups(u) \in [Topups -> Int]
                  /\ OfPayouts(u) \in [Payouts -> Int]

LEMMA SummandsAreInts == TypeInv => SummandsTyped
<1> SUFFICES ASSUME TypeInv, NEW u \in Users
             PROVE  /\ OfTrips(u) \in [Trips -> Int]
                    /\ OfTopups(u) \in [Topups -> Int]
                    /\ OfPayouts(u) \in [Payouts -> Int]
  BY DEF SummandsTyped
<1>1. ASSUME NEW t \in Trips PROVE posted[t] * SettlementOf(t, u) \in Int
  BY RowsTyped, Once
<1>2. ASSUME NEW k \in Topups PROVE credited[k] * topup[k].amount \in Int
  BY RowsTyped, Once
<1>3. ASSUME NEW k \in Payouts PROVE (payout[k].refunds - 1) * payout[k].amount \in Int
  <2>1. payout[k].refunds - 1 \in Int /\ payout[k].amount \in Int
    BY RowsTyped
  <2> QED
    BY <2>1, Once
<1>4. OfTrips(u) \in [Trips -> Int]
  BY <1>1 DEF OfTrips
<1>5. OfTopups(u) \in [Topups -> Int]
  BY <1>2 DEF OfTopups
<1>6. OfPayouts(u) \in [Payouts -> Int]
  BY <1>3 DEF OfPayouts
<1> QED
  BY <1>4, <1>5, <1>6

\* The sums of a user move with the balance, and no others do.
LEMMA BalanceMoves ==
  ASSUME TypeInv, TypeInv', BalanceIsBooked,
         \A u \in Users :
           \/ /\ UNCHANGED <<OfTopups(u), OfPayouts(u)>>
              /\ \E t \in Trips : /\ \A x \in Trips \ {t} : OfTrips(u)'[x] = OfTrips(u)[x]
                                 /\ balance'[u] = balance[u] + (OfTrips(u)'[t] - OfTrips(u)[t])
           \/ /\ UNCHANGED <<OfTrips(u), OfPayouts(u)>>
              /\ \E k \in Topups : /\ \A x \in Topups \ {k} : OfTopups(u)'[x] = OfTopups(u)[x]
                                  /\ balance'[u] = balance[u] + (OfTopups(u)'[k] - OfTopups(u)[k])
           \/ /\ UNCHANGED <<OfTrips(u), OfTopups(u)>>
              /\ \E k \in Payouts : /\ \A x \in Payouts \ {k} : OfPayouts(u)'[x] = OfPayouts(u)[x]
                                   /\ balance'[u] = balance[u] + (OfPayouts(u)'[k] - OfPayouts(u)[k])
           \/ UNCHANGED <<OfTrips(u), OfTopups(u), OfPayouts(u), balance[u]>>
  PROVE  BalanceIsBooked'
<1>1. SummandsTyped /\ SummandsTyped'
  BY SummandsAreInts, PTL
<1> SUFFICES ASSUME NEW u \in Users PROVE balance'[u] = BookedOf(u)'
  BY DEF BalanceIsBooked
<1> DEFINE A == SumFunction(OfTrips(u))
           B == SumFunction(OfTopups(u))
           C == SumFunction(OfPayouts(u))
           a == OfTrips(u)
           b == OfTopups(u)
           c == OfPayouts(u)
<1>2. balance[u] = A + B + C
  BY DEF BalanceIsBooked, BookedOf
<1>3. BookedOf(u)' = A' + B' + C'
  BY DEF BookedOf, OfTrips, OfTopups, OfPayouts
<1>4. /\ a \in [Trips -> Int] /\ b \in [Topups -> Int] /\ c \in [Payouts -> Int]
      /\ a' \in [Trips -> Int] /\ b' \in [Topups -> Int] /\ c' \in [Payouts -> Int]
  BY <1>1 DEF SummandsTyped
<1>5. A \in Int /\ B \in Int /\ C \in Int
  BY <1>4, SumTyped, FiniteAssumption
<1> HIDE DEF a, b, c
<1>6. CASE /\ UNCHANGED <<b, c>>
           /\ \E t \in Trips : /\ \A x \in Trips \ {t} : a'[x] = a[x]
                              /\ balance'[u] = balance[u] + (a'[t] - a[t])
  <2>1. PICK t \in Trips : /\ \A x \in Trips \ {t} : a'[x] = a[x]
                           /\ balance'[u] = balance[u] + (a'[t] - a[t])
    BY <1>6
  <2>2. SumFunction(a') = SumFunction(a) + (a'[t] - a[t])
    BY <1>4, <2>1, SumChanges, FiniteAssumption
  <2>3. A' = A + (a'[t] - a[t]) /\ B' = B /\ C' = C
    BY <1>6, <2>2 DEF a, b, c
  <2>4. a'[t] - a[t] \in Int
    BY <1>4
  <2> QED
    BY <1>2, <1>3, <1>5, <2>1, <2>3, <2>4
<1>7. CASE /\ UNCHANGED <<a, c>>
           /\ \E k \in Topups : /\ \A x \in Topups \ {k} : b'[x] = b[x]
                               /\ balance'[u] = balance[u] + (b'[k] - b[k])
  <2>1. PICK k \in Topups : /\ \A x \in Topups \ {k} : b'[x] = b[x]
                            /\ balance'[u] = balance[u] + (b'[k] - b[k])
    BY <1>7
  <2>2. SumFunction(b') = SumFunction(b) + (b'[k] - b[k])
    BY <1>4, <2>1, SumChanges, FiniteAssumption
  <2>3. A' = A /\ B' = B + (b'[k] - b[k]) /\ C' = C
    BY <1>7, <2>2 DEF a, b, c
  <2>4. b'[k] - b[k] \in Int
    BY <1>4
  <2> QED
    BY <1>2, <1>3, <1>5, <2>1, <2>3, <2>4
<1>8. CASE /\ UNCHANGED <<a, b>>
           /\ \E k \in Payouts : /\ \A x \in Payouts \ {k} : c'[x] = c[x]
                                /\ balance'[u] = balance[u] + (c'[k] - c[k])
  <2>1. PICK k \in Payouts : /\ \A x \in Payouts \ {k} : c'[x] = c[x]
                             /\ balance'[u] = balance[u] + (c'[k] - c[k])
    BY <1>8
  <2>2. SumFunction(c') = SumFunction(c) + (c'[k] - c[k])
    BY <1>4, <2>1, SumChanges, FiniteAssumption
  <2>3. A' = A /\ B' = B /\ C' = C + (c'[k] - c[k])
    BY <1>8, <2>2 DEF a, b, c
  <2>4. c'[k] - c[k] \in Int
    BY <1>4
  <2> QED
    BY <1>2, <1>3, <1>5, <2>1, <2>3, <2>4
<1>9. CASE UNCHANGED <<a, b, c, balance[u]>>
  <2>1. A' = A /\ B' = B /\ C' = C /\ balance'[u] = balance[u]
    BY <1>9 DEF a, b, c
  <2> QED
    BY <1>2, <1>3, <2>1
<1> QED
  BY <1>6, <1>7, <1>8, <1>9 DEF a, b, c

LEMMA PostLedger ==
  ASSUME TypeInv, TypeInv', LedgerInv, NEW a \in Actors, SettlePost(a)
  PROVE  LedgerInv'
<1> DEFINE t == job[a].on
<1>1. /\ t \in Trips /\ posted[t] \in Int
      /\ posted' = [posted EXCEPT ![t] = @ + 1]
      /\ balance' = [u \in Users |-> balance[u] + SettlementOf(t, u)]
      /\ UNCHANGED <<ride, topup, credited, payout>>
  BY RowsTyped DEF SettlePost, TypeInv, Fits, TripPCs
<1> HIDE DEF t
<1>2. ASSUME NEW u \in Users
      PROVE  /\ UNCHANGED <<OfTopups(u), OfPayouts(u)>>
             /\ \A x \in Trips \ {t} : OfTrips(u)'[x] = OfTrips(u)[x]
             /\ balance'[u] = balance[u] + (OfTrips(u)'[t] - OfTrips(u)[t])
  <2>1. UNCHANGED <<OfTopups(u), OfPayouts(u)>>
    BY <1>1 DEF OfTopups, OfPayouts
  <2>2. \A x \in Trips : SettlementOf(x, u)' = SettlementOf(x, u) /\ SettlementOf(x, u) \in Int
    BY <1>1, RowsTyped DEF SettlementOf
  <2>3. posted'[t] = posted[t] + 1 /\ \A x \in Trips \ {t} : posted'[x] = posted[x]
    BY <1>1 DEF TypeInv, TypeOK
  <2>4. \A x \in Trips : /\ OfTrips(u)[x] = posted[x] * SettlementOf(x, u)
                         /\ OfTrips(u)'[x] = posted'[x] * SettlementOf(x, u)
    BY <2>2 DEF OfTrips
  <2>5. OfTrips(u)'[t] - OfTrips(u)[t] = SettlementOf(t, u)
    BY <1>1, <2>2, <2>3, <2>4, Once
  <2> QED
    BY <1>1, <2>1, <2>3, <2>4, <2>5
<1>3. BalanceIsBooked'
  BY <1>1, <1>2, BalanceMoves DEF LedgerInv
<1> QED
  BY <1>1, <1>3 DEF LedgerInv, NewTopups

LEMMA CreateLedger ==
  ASSUME TypeInv, TypeInv', LedgerInv, NEW a \in Actors,
         NEW v \in Users, NEW k \in Topups, NEW n \in Amounts, TopupCreate(a, v, k, n)
  PROVE  LedgerInv'
<1>1. /\ topup[k] = NoTopup /\ credited[k] = 0
      /\ topup' = [topup EXCEPT ![k] = [owner |-> v, amount |-> n, meta |-> "none"]]
      /\ UNCHANGED <<balance, ride, posted, credited, payout>>
  BY DEF TopupCreate, LedgerInv, NewTopups
<1>2. ASSUME NEW u \in Users PROVE UNCHANGED <<OfTrips(u), OfTopups(u), OfPayouts(u), balance[u]>>
  <2>1. UNCHANGED <<OfTrips(u), OfPayouts(u), balance[u]>>
    BY <1>1 DEF OfTrips, OfPayouts, SettlementOf
  <2>2. ASSUME NEW x \in Topups
        PROVE  (IF topup'[x].owner = u THEN credited'[x] * topup'[x].amount ELSE 0)
                 = IF topup[x].owner = u THEN credited[x] * topup[x].amount ELSE 0
    <3>1. CASE x = k
      <4>1. topup'[x].amount = n /\ n \in Int /\ 0 * n = 0
        BY <1>1, <3>1, MoneyAssumption, Once DEF TypeInv, TypeOK
      <4>2. topup[x].owner = None /\ u # None
        BY <1>1, <3>1, NoneAssumption DEF NoTopup
      <4> QED
        BY <1>1, <3>1, <4>1, <4>2
    <3>2. CASE x # k
      BY <1>1, <3>2 DEF TypeInv, TypeOK
    <3> QED
      BY <3>1, <3>2
  <2> QED
    BY <2>1, <2>2 DEF OfTopups
<1>3. BalanceIsBooked'
  BY <1>2, BalanceMoves DEF LedgerInv
<1>4. \A x \in Topups : topup'[x] = NoTopup => topup[x] = NoTopup
  BY <1>1 DEF TypeInv, TypeOK
<1> QED
  BY <1>1, <1>3, <1>4 DEF LedgerInv, NewTopups

\* The metadata of a top-up are no money.
LEMMA MetaLedger ==
  ASSUME TypeInv, TypeInv', LedgerInv, NEW k \in Topups, topup[k] # NoTopup, NEW meta,
         topup' = [topup EXCEPT ![k].meta = meta],
         UNCHANGED <<balance, ride, posted, credited, payout>>
  PROVE  LedgerInv'
<1>1. \A x \in Topups : topup'[x].owner = topup[x].owner /\ topup'[x].amount = topup[x].amount
                       /\ (topup'[x] = NoTopup => topup[x] = NoTopup)
  <2>1. topup[k] \in TopupRows
    BY DEF TypeInv, TypeOK
  <2>2. topup'[k].owner # None
    BY <2>1, NoneAssumption DEF TypeInv, TypeOK, TopupRows
  <2> QED
    BY <2>1, <2>2 DEF TypeInv, TypeOK, TopupRows, NoTopup
<1>2. ASSUME NEW u \in Users PROVE UNCHANGED <<OfTrips(u), OfTopups(u), OfPayouts(u), balance[u]>>
  BY <1>1 DEF OfTrips, OfTopups, OfPayouts, SettlementOf
<1>3. BalanceIsBooked'
  BY <1>2, BalanceMoves DEF LedgerInv
<1> QED
  BY <1>1, <1>3 DEF LedgerInv, NewTopups

LEMMA CreditLedger ==
  ASSUME TypeInv, TypeInv', LedgerInv, NEW a \in Actors, VerifyCredit(a)
  PROVE  LedgerInv'
<1> DEFINE k == job[a].on
<1>1. /\ k \in Topups /\ topup[k] # NoTopup
      /\ balance' = [balance EXCEPT ![topup[k].owner] = @ + topup[k].amount]
      /\ credited' = [credited EXCEPT ![k] = @ + 1]
      /\ UNCHANGED <<ride, posted, topup, payout>>
  BY DEF VerifyCredit, TypeInv, Fits, TopupPCs
<1> HIDE DEF k
<1>2. topup[k].amount \in Int /\ credited[k] \in Int /\ credited'[k] = credited[k] + 1
  BY <1>1, RowsTyped DEF TypeInv, TypeOK
<1>3. credited'[k] * topup[k].amount - credited[k] * topup[k].amount = topup[k].amount
  BY <1>2, Once
<1>4. ASSUME NEW u \in Users
      PROVE  /\ UNCHANGED <<OfTrips(u), OfPayouts(u)>>
             /\ \A x \in Topups \ {k} : OfTopups(u)'[x] = OfTopups(u)[x]
             /\ balance'[u] = balance[u] + (OfTopups(u)'[k] - OfTopups(u)[k])
  <2>1. UNCHANGED <<OfTrips(u), OfPayouts(u)>>
    BY <1>1 DEF OfTrips, OfPayouts, SettlementOf
  <2>2. \A x \in Topups \ {k} : credited'[x] = credited[x]
    BY <1>1 DEF TypeInv, TypeOK
  <2>3. \A x \in Topups :
          /\ OfTopups(u)[x] = IF topup[x].owner = u THEN credited[x] * topup[x].amount ELSE 0
          /\ OfTopups(u)'[x] = IF topup[x].owner = u THEN credited'[x] * topup[x].amount ELSE 0
    BY <1>1 DEF OfTopups
  <2>4. balance'[u] = balance[u] + IF topup[k].owner = u THEN topup[k].amount ELSE 0
    <3>1. balance \in [Users -> Int]
      BY DEF TypeInv, TypeOK
    <3> QED
      BY <1>1, <1>2, <3>1
  <2>5. OfTopups(u)'[k] - OfTopups(u)[k] = IF topup[k].owner = u THEN topup[k].amount ELSE 0
    BY <1>1, <1>3, <2>3
  <2> QED
    BY <2>1, <2>2, <2>3, <2>4, <2>5
<1>5. BalanceIsBooked'
  BY <1>1, <1>4, BalanceMoves DEF LedgerInv
<1>6. NewTopups'
  BY <1>1 DEF LedgerInv, NewTopups, TypeInv, TypeOK
<1> QED
  BY <1>5, <1>6 DEF LedgerInv

\* A payout is made, or given back: n leaves the wallet or comes in, and the row says so.
LEMMA PayoutLedger ==
  ASSUME TypeInv, TypeInv', LedgerInv, NEW k \in Payouts, NEW v \in Users, NEW n \in Int,
         balance' = [balance EXCEPT ![v] = @ + n],
         \A x \in Payouts \ {k} : payout'[x] = payout[x],
         payout'[k].owner = v, payout[k].owner \in {v, None},
         (payout'[k].refunds - 1) * payout'[k].amount
           = n + IF payout[k].owner = v THEN (payout[k].refunds - 1) * payout[k].amount ELSE 0,
         UNCHANGED <<ride, posted, topup, credited>>
  PROVE  LedgerInv'
<1>1. ASSUME NEW u \in Users
      PROVE  /\ UNCHANGED <<OfTrips(u), OfTopups(u)>>
             /\ \A x \in Payouts \ {k} : OfPayouts(u)'[x] = OfPayouts(u)[x]
             /\ balance'[u] = balance[u] + (OfPayouts(u)'[k] - OfPayouts(u)[k])
  <2>1. UNCHANGED <<OfTrips(u), OfTopups(u)>>
    BY DEF OfTrips, OfTopups, SettlementOf
  <2>2. \A x \in Payouts :
          /\ OfPayouts(u)[x] = IF payout[x].owner = u THEN (payout[x].refunds - 1) * payout[x].amount ELSE 0
          /\ OfPayouts(u)'[x] = IF payout'[x].owner = u THEN (payout'[x].refunds - 1) * payout'[x].amount ELSE 0
    BY DEF OfPayouts
  <2>3. balance \in [Users -> Int] /\ u # None
    BY NoneAssumption DEF TypeInv, TypeOK
  <2>4. OfPayouts(u)[k] \in Int
    BY SummandsAreInts DEF SummandsTyped
  <2>5. balance'[u] = balance[u] + (OfPayouts(u)'[k] - OfPayouts(u)[k])
    <3>1. CASE u = v
      <4>1. OfPayouts(u)'[k] = n + OfPayouts(u)[k]
        BY <2>2, <2>3, <3>1
      <4> QED
        BY <2>3, <2>4, <3>1, <4>1
    <3>2. CASE u # v
      <4>1. OfPayouts(u)'[k] = 0 /\ OfPayouts(u)[k] = 0
        BY <2>2, <2>3, <3>2
      <4> QED
        BY <2>3, <3>2, <4>1
    <3> QED
      BY <3>1, <3>2
  <2> QED
    BY <2>1, <2>2, <2>5
<1>2. BalanceIsBooked'
  BY <1>1, BalanceMoves DEF LedgerInv
<1> QED
  BY <1>2 DEF LedgerInv, NewTopups

LEMMA ReserveLedger ==
  ASSUME TypeInv, TypeInv', LedgerInv, NEW a \in Actors, NEW k \in Payouts, PayoutReserve(a, k)
  PROVE  LedgerInv'
<1> DEFINE u == job[a].user
           n == job[a].amount
<1>1. u \in Users /\ n \in Int
  BY MoneyAssumption DEF PayoutReserve, TypeInv, Fits
<1>2. /\ payout[k] = NoPayout
      /\ payout' = [payout EXCEPT ![k] = [owner |-> u, amount |-> n, st |-> "PENDING", refunds |-> 0]]
      /\ balance' = [balance EXCEPT ![u] = @ - n]
      /\ UNCHANGED <<ride, posted, topup, credited>>
  BY DEF PayoutReserve
<1> HIDE DEF u, n
<1>3. balance' = [balance EXCEPT ![u] = @ + (-n)]
  BY <1>1, <1>2 DEF TypeInv, TypeOK
<1>4. payout'[k] = [owner |-> u, amount |-> n, st |-> "PENDING", refunds |-> 0]
      /\ \A x \in Payouts \ {k} : payout'[x] = payout[x]
  BY <1>2 DEF TypeInv, TypeOK
<1>5. payout'[k].owner = u /\ payout[k].owner = None /\ u # None
  BY <1>1, <1>2, <1>4, NoneAssumption DEF NoPayout
<1>6. (payout'[k].refunds - 1) * payout'[k].amount = -n
  BY <1>1, <1>4, Once
<1>7. (payout'[k].refunds - 1) * payout'[k].amount
        = (-n) + IF payout[k].owner = u THEN (payout[k].refunds - 1) * payout[k].amount ELSE 0
  BY <1>1, <1>5, <1>6
<1>8. -n \in Int
  BY <1>1
<1> QED
  BY <1>1, <1>2, <1>3, <1>4, <1>5, <1>7, <1>8, PayoutLedger

LEMMA GiveBackLedger ==
  ASSUME TypeInv, TypeInv', LedgerInv, NEW k \in Payouts, payout[k] # NoPayout, GiveBack(k),
         UNCHANGED <<ride, posted, topup, credited>>
  PROVE  LedgerInv'
<1> DEFINE v == payout[k].owner
           n == payout[k].amount
           r == payout[k].refunds
<1>1. payout[k] \in PayoutRows
  BY DEF TypeInv, TypeOK
<1>2. v \in Users /\ n \in Int /\ r \in Int
  BY <1>1, AmountsAreInts DEF PayoutRows
<1>3. balance' = [balance EXCEPT ![v] = @ + n]
  BY DEF GiveBack
<1>4. /\ payout'[k].owner = v /\ payout'[k].amount = n /\ payout'[k].refunds = r + 1
      /\ \A x \in Payouts \ {k} : payout'[x] = payout[x]
  BY <1>1 DEF GiveBack, TypeInv, TypeOK, PayoutRows
<1> HIDE DEF v, n, r
<1>5. r - 1 \in Int /\ (r - 1) + 1 = r /\ (r + 1) - 1 = r
  BY <1>2
<1>6. (payout'[k].refunds - 1) * payout'[k].amount
        = n + IF payout[k].owner = v THEN (payout[k].refunds - 1) * payout[k].amount ELSE 0
  <2>1. payout'[k].refunds - 1 = r
    BY <1>4, <1>5
  <2>2. (payout'[k].refunds - 1) * payout'[k].amount = r * n
    BY <2>1, <1>4
  <2>3. payout[k].owner = v /\ (payout[k].refunds - 1) * payout[k].amount = (r - 1) * n
    BY DEF v, n, r
  <2>4. r * n = n + (r - 1) * n
    <3>1. r * n - (r - 1) * n = n /\ (r - 1) * n \in Int /\ r * n \in Int
      BY <1>2, <1>5, Once
    <3> QED
      BY <1>2, <3>1
  <2> QED
    BY <2>2, <2>3, <2>4, Zenon
<1>7. payout[k].owner \in {v, None} /\ payout'[k].owner = v
  BY <1>4 DEF v
<1>8. \A x \in Payouts \ {k} : payout'[x] = payout[x]
  BY <1>4
<1> QED
  BY <1>2, <1>3, <1>6, <1>7, <1>8, PayoutLedger

\* Nor is the status of a payout.
LEMMA StatusLedger ==
  ASSUME TypeInv, TypeInv', LedgerInv, NEW k \in Payouts, payout[k] # NoPayout, NEW st,
         payout' = [payout EXCEPT ![k].st = st],
         UNCHANGED <<balance, ride, posted, topup, credited>>
  PROVE  LedgerInv'
<1>1. \A x \in Payouts : /\ payout'[x].owner = payout[x].owner /\ payout'[x].amount = payout[x].amount
                         /\ payout'[x].refunds = payout[x].refunds
  <2>1. payout[k] \in PayoutRows
    BY DEF TypeInv, TypeOK
  <2> QED
    BY <2>1 DEF TypeInv, TypeOK, PayoutRows
<1>2. ASSUME NEW u \in Users PROVE UNCHANGED <<OfTrips(u), OfTopups(u), OfPayouts(u), balance[u]>>
  BY <1>1 DEF OfTrips, OfTopups, OfPayouts, SettlementOf
<1>3. BalanceIsBooked'
  BY <1>2, BalanceMoves DEF LedgerInv
<1> QED
  BY <1>3 DEF LedgerInv, NewTopups

LEMMA QuietLedger ==
  ASSUME LedgerInv, UNCHANGED <<balance, ride, posted, topup, credited, payout>>
  PROVE  LedgerInv'
BY DEF LedgerInv, BalanceIsBooked, BookedOf, OfTrips, OfTopups, OfPayouts, SettlementOf, NewTopups

LEMMA LedgerInit == Init => LedgerInv
<1> SUFFICES ASSUME Init PROVE LedgerInv
  OBVIOUS
<1>1. TypeInv
  BY TypeOKInit
<1>2. ASSUME NEW u \in Users PROVE balance[u] = BookedOf(u)
  <2>1. \A t \in Trips : OfTrips(u)[t] = 0
    BY <1>1, RowsTyped, Once DEF Init, OfTrips
  <2>2. u # None /\ \A k \in Topups : OfTopups(u)[k] = 0
    BY NoneAssumption DEF Init, OfTopups, NoTopup
  <2>3. \A k \in Payouts : OfPayouts(u)[k] = 0
    BY <2>2 DEF Init, OfPayouts, NoPayout
  <2>4. /\ OfTrips(u) \in [Trips -> Int] /\ OfTopups(u) \in [Topups -> Int]
        /\ OfPayouts(u) \in [Payouts -> Int]
    BY <1>1, SummandsAreInts DEF SummandsTyped
  <2>5. SumFunction(OfTrips(u)) = 0 /\ SumFunction(OfTopups(u)) = 0 /\ SumFunction(OfPayouts(u)) = 0
    BY <2>1, <2>2, <2>3, <2>4, SumOfZeros, FiniteAssumption
  <2> QED
    BY <2>5 DEF Init, BookedOf
<1> QED
  BY <1>2 DEF Init, LedgerInv, BalanceIsBooked, NewTopups

LEMMA LedgerKept == TypeInv /\ TypeInv' /\ LedgerInv /\ [Next]_vars => LedgerInv'
<1> SUFFICES ASSUME TypeInv, TypeInv', LedgerInv, [Next]_vars PROVE LedgerInv'
  OBVIOUS
<1>1. ASSUME NEW a \in Actors, SettleStep(a) PROVE LedgerInv'
  <2>1. CASE \E t \in Trips, own \in BOOLEAN : SettleRead(a, t, own)
    BY <2>1, QuietLedger DEF SettleRead
  <2>2. CASE SettlePost(a)
    BY <2>2, PostLedger
  <2>3. CASE SettleFinish(a)
    <3>1. \A t \in Trips : \A u : SettlementOf(t, u)' = SettlementOf(t, u)
      BY <2>3 DEF SettleFinish, SettlementOf, TypeInv, TypeOK, Rides
    <3>2. ASSUME NEW u \in Users PROVE UNCHANGED <<OfTrips(u), OfTopups(u), OfPayouts(u), balance[u]>>
      BY <2>3, <3>1 DEF SettleFinish, OfTrips, OfTopups, OfPayouts
    <3>3. BalanceIsBooked'
      BY <3>2, BalanceMoves DEF LedgerInv
    <3> QED
      BY <2>3, <3>3 DEF SettleFinish, LedgerInv, NewTopups
  <2> QED
    BY <1>1, <2>1, <2>2, <2>3 DEF SettleStep
<1>2. ASSUME NEW a \in Actors, TopupStep(a) PROVE LedgerInv'
  <2>1. CASE \E u \in Users, k \in Topups, n \in Amounts : TopupCreate(a, u, k, n)
    BY <2>1, CreateLedger
  <2>2. CASE TopupKeep(a)
    <3>1. job[a].on \in Topups /\ topup[job[a].on] # NoTopup
      BY <2>2 DEF TopupKeep, TypeInv, Fits, TopupPCs
    <3> QED
      BY <2>2, <3>1, MetaLedger DEF TopupKeep
  <2>3. CASE VerifyMark(a)
    <3>1. job[a].on \in Topups /\ topup[job[a].on] # NoTopup
      BY <2>3 DEF VerifyMark, TypeInv, Fits, TopupPCs
    <3> QED
      BY <2>3, <3>1, MetaLedger DEF VerifyMark
  <2>4. CASE VerifyCredit(a)
    BY <2>4, CreditLedger
  <2>5. CASE TopupCheckout(a) \/ VerifyAsk(a) \/ \E k \in Topups : VerifyRead(a, k)
    BY <2>5, QuietLedger DEF TopupCheckout, VerifyAsk, VerifyRead
  <2> QED
    BY <1>2, <2>1, <2>2, <2>3, <2>4, <2>5 DEF TopupStep
<1>3. ASSUME NEW a \in Actors, PayoutStep(a) PROVE LedgerInv'
  <2>1. job[a].pc \in PayoutPCs => job[a].on \in Payouts /\ payout[job[a].on] # NoPayout
    BY DEF TypeInv, Fits
  <2>2. CASE PayoutRefund(a)
    BY <2>1, <2>2, GiveBackLedger DEF PayoutRefund, PayoutPCs
  <2>3. CASE DeskMarkFailed(a)
    BY <2>1, <2>3, GiveBackLedger DEF DeskMarkFailed, PayoutPCs
  <2>4. CASE PayoutRecord(a)
    BY <2>1, <2>4, StatusLedger DEF PayoutRecord, PayoutPCs
  <2>5. CASE DeskMarkPaid(a)
    BY <2>1, <2>5, StatusLedger DEF DeskMarkPaid, PayoutPCs
  <2>6. CASE \E k \in Payouts : PayoutReserve(a, k)
    BY <2>6, ReserveLedger
  <2>7. CASE \/ \E u \in Users, n \in Amounts : PayoutRead(a, u, n)
             \/ \E k \in Payouts, verdict \in {"markPaid", "markFailed"} : DeskRead(a, k, verdict)
             \/ PayoutTransfer(a)
    BY <2>7, QuietLedger DEF PayoutRead, DeskRead, PayoutTransfer
  <2> QED
    BY <1>3, <2>2, <2>3, <2>4, <2>5, <2>6, <2>7 DEF PayoutStep
<1>4. CASE \/ \E a \in Actors : Fails(a)
           \/ \E k \in Topups : CustomerPays(k)
           \/ Crash \/ UNCHANGED vars
  BY <1>4, QuietLedger DEF Fails, CustomerPays, Crash, vars
<1> QED
  BY <1>1, <1>2, <1>3, <1>4, ByArea

-----------------------------------------------------------------------------
(* A top-up and its row *)

\* A top-up marked paid has been credited or is about to be, unless the request that
\* marked it was lost or another one was at it, too.
PromiseInv ==
  \A k \in Topups \ (overlapped \cup stranded) : topup[k].meta = "success" =>
    credited[k] >= 1 \/ \E a \in Actors : job[a].pc = "credit" /\ job[a].on = k

LEMMA PromiseFrame ==
  ASSUME PromiseInv, overlapped \subseteq overlapped', stranded \subseteq stranded', UNCHANGED credited,
         \A k \in Topups : topup'[k].meta = "success" => topup[k].meta = "success",
         \A b \in Actors : job[b].pc = "credit" =>
           job'[b] = job[b] \/ job[b].on \in stranded' \/ job[b].on \notin Topups
  PROVE  PromiseInv'
BY DEF PromiseInv

LEMMA PromiseKept ==
  ASSUME TypeInv, PromiseInv, [Next]_vars
  PROVE  PromiseInv'
<1>1. ASSUME NEW a \in Actors, SettleStep(a) \/ PayoutStep(a) PROVE PromiseInv'
  <2>1. job[a].pc # "credit" /\ UNCHANGED stranded
    BY <1>1 DEF SettleStep, SettleRead, SettlePost, SettleFinish, PayoutStep, PayoutRead, DeskRead,
                PayoutReserve, PayoutTransfer, PayoutRecord, PayoutRefund, DeskMarkPaid,
                DeskMarkFailed, Take, Idle
  <2>2. UNCHANGED <<topup, credited>> /\ overlapped \subseteq overlapped'
        /\ \A b \in Actors \ {a} : job'[b] = job[b]
    BY <1>1, SettleMoves, PayoutMoves DEF Moves
  <2> QED
    BY <2>1, <2>2, PromiseFrame
<1>2. ASSUME NEW a \in Actors, TopupStep(a) PROVE PromiseInv'
  <2>1. \A b \in Actors \ {a} : job'[b] = job[b]
    BY <1>2, TopupMoves DEF Moves
  <2>2. overlapped \subseteq overlapped' /\ UNCHANGED stranded
    BY <1>2, TopupMoves DEF Moves, TopupStep, TopupCreate, TopupCheckout, TopupKeep, VerifyRead,
                            VerifyAsk, VerifyMark, VerifyCredit
  <2>3. CASE \E u \in Users, k \in Topups, n \in Amounts : TopupCreate(a, u, k, n)
    <3>1. job[a].pc # "credit" /\ UNCHANGED credited
      BY <2>3 DEF TopupCreate, Take, Idle
    <3>2. \A k \in Topups : topup'[k].meta = "success" => topup[k].meta = "success"
      BY <2>3 DEF TopupCreate, TypeInv, TypeOK
    <3> QED
      BY <2>1, <2>2, <3>1, <3>2, PromiseFrame
  <2>4. CASE (\E k \in Topups : VerifyRead(a, k)) \/ TopupCheckout(a) \/ VerifyAsk(a)
    <3>1. job[a].pc # "credit" /\ UNCHANGED <<topup, credited>>
      BY <2>4 DEF VerifyRead, TopupCheckout, VerifyAsk, Take, Idle
    <3> QED
      BY <2>1, <2>2, <3>1, PromiseFrame
  <2>5. CASE TopupKeep(a)
    <3>1. /\ job[a].pc # "credit" /\ UNCHANGED credited
          /\ job[a].on \in Topups /\ topup[job[a].on] \in TopupRows
      BY <2>5 DEF TopupKeep, TypeInv, TypeOK, Fits, TopupPCs
    <3>2. \A k \in Topups : topup'[k].meta = "success" => topup[k].meta = "success"
      BY <2>5, <3>1 DEF TopupKeep, TypeInv, TypeOK, TopupRows
    <3> QED
      BY <2>1, <2>2, <3>1, <3>2, PromiseFrame
  <2>6. CASE VerifyMark(a)
    <3> DEFINE m == job[a].on
    <3>1. /\ job[a].pc = "mark" /\ UNCHANGED credited /\ m \in Topups /\ topup[m] \in TopupRows
      BY <2>6 DEF VerifyMark, TypeInv, TypeOK, Fits, TopupPCs
    <3>2. \A k \in Topups : topup'[k].meta = IF k = m THEN job[a].seen ELSE topup[k].meta
      BY <2>6, <3>1 DEF VerifyMark, TypeInv, TypeOK, TopupRows
    <3>3. job[a].seen = "success" => job'[a].pc = "credit" /\ job'[a].on = m
      BY <2>6 DEF VerifyMark, GoOn, Goto, TypeInv, TypeOK, Jobs
    <3> QED
      BY <2>1, <2>2, <3>1, <3>2, <3>3 DEF PromiseInv
  <2>7. CASE VerifyCredit(a)
    <3> DEFINE m == job[a].on
    <3>1. m \in Topups /\ UNCHANGED topup
      BY <2>7 DEF VerifyCredit, TypeInv, Fits, TopupPCs
    <3>2. credited'[m] >= 1 /\ \A k \in Topups : k # m => credited'[k] = credited[k]
      BY <2>7, <3>1, MaxPostedAssumption DEF VerifyCredit, TypeInv, TypeOK
    <3> QED
      BY <2>1, <2>2, <3>1, <3>2 DEF PromiseInv
  <2> QED
    BY <1>2, <2>3, <2>4, <2>5, <2>6, <2>7 DEF TopupStep
<1>3. ASSUME NEW a \in Actors, Fails(a) PROVE PromiseInv'
  <2>1. /\ UNCHANGED <<topup, credited, overlapped>> /\ stranded \subseteq stranded'
        /\ job[a].pc = "credit" => job[a].on \in stranded' \/ job[a].on \notin Topups
    BY <1>3 DEF Fails
  <2>2. \A b \in Actors \ {a} : job'[b] = job[b]
    BY <1>3, FailsMoves DEF Moves
  <2> QED
    BY <2>1, <2>2, PromiseFrame
<1>4. CASE \E k \in Topups : CustomerPays(k)
  BY <1>4, PromiseFrame DEF CustomerPays
<1>5. CASE Crash
  <2>1. /\ UNCHANGED <<topup, credited, overlapped>> /\ stranded \subseteq stranded'
        /\ \A b \in Actors : job[b].pc = "credit" => job[b].on \in stranded' \/ job[b].on \notin Topups
    BY <1>5 DEF Crash
  <2> QED
    BY <2>1, PromiseFrame
<1>6. CASE UNCHANGED vars
  BY <1>6, PromiseFrame DEF vars
<1> QED
  BY <1>1, <1>2, <1>3, <1>4, <1>5, <1>6, ByArea

LEMMA PromiseInit == Init => PromiseInv
BY DEF Init, PromiseInv, NoTopup

\* Of a top-up that is not unsettled, the row stands for what was credited.
LEMMA RowIsCredit ==
  ASSUME TypeInv, TopupInv, PromiseInv, NEW k \in Topups, ~Unsettled(k)
  PROVE  credited[k] = IF topup[k].meta = "success" THEN 1 ELSE 0
<1>1. /\ k \notin overlapped /\ k \notin stranded
      /\ ~\E a \in Actors : job[a].pc = "credit" /\ job[a].on = k
  BY DEF Unsettled
<1>2. credited[k] \in {0, 1} /\ (credited[k] = 1 => topup[k].meta = "success")
  BY <1>1, MaxPostedAssumption DEF TopupInv, TopupCreditedOnce, TypeInv, TypeOK
<1>3. topup[k].meta = "success" => credited[k] >= 1
  BY <1>1 DEF PromiseInv
<1> QED
  BY <1>2, <1>3

LEMMA BookedIsLedger ==
  ASSUME TypeInv, TopupInv, PromiseInv, BalanceIsBooked
  PROVE  BalanceIsLedger
<1> SUFFICES ASSUME NEW u \in Users, \A k \in Topups : topup[k].owner = u => ~Unsettled(k)
             PROVE  balance[u] = LedgerOf(u)
  BY DEF BalanceIsLedger
<1>1. ASSUME NEW k \in Topups
      PROVE  (IF topup[k].owner = u THEN credited[k] * topup[k].amount ELSE 0)
               = IF topup[k].owner = u /\ topup[k].meta = "success" THEN topup[k].amount ELSE 0
  <2>1. topup[k].amount \in Int
    BY RowsTyped
  <2>2. 1 * topup[k].amount = topup[k].amount /\ 0 * topup[k].amount = 0
    BY <2>1
  <2>3. topup[k].owner = u => credited[k] = IF topup[k].meta = "success" THEN 1 ELSE 0
    BY RowIsCredit
  <2> QED
    BY <2>2, <2>3
<1>2. OfTopups(u) = [k \in Topups |-> IF topup[k].owner = u /\ topup[k].meta = "success"
                                        THEN topup[k].amount ELSE 0]
  BY <1>1 DEF OfTopups
<1> QED
  BY <1>2 DEF BalanceIsBooked, BookedOf, LedgerOf, OfTrips, OfPayouts

\* A wallet holds what the rows of its owner's ledger come to, for any number of rides,
\* top-ups, payouts and requests, unless a top-up of the owner is unsettled: settlements,
\* payouts and reversals move the money in the transaction that writes the row, a top-up is
\* marked in one write and credited in the next.
THEOREM BalancesMatchLedger == Spec => []BalanceIsLedger
<1>1. TypeInv /\ TopupInv /\ PromiseInv /\ LedgerInv => BalanceIsLedger
  BY BookedIsLedger DEF LedgerInv
<1> QED
  BY <1>1, PromiseInit, PromiseKept, LedgerInit, LedgerKept, TopupInvHolds, TypeInvHolds, PTL DEF Spec

=============================================================================
