-------------------------- MODULE DonationsProofs --------------------------
(***************************************************************************)
(* Theorems about Donations, for any number of requests and donors, any    *)
(* mix of gifts, any deployment and any number of faults.                  *)
(*                                                                         *)
(* The inductive invariant says what each request has written at each      *)
(* point of its handler (Written), which requests can hold a donor's row   *)
(* (Holding), and where the donors on file come from (OnFileByGift).       *)
(***************************************************************************)
EXTENDS Donations, TLAPS

\* The rows of r's transaction, by the point it has reached.
Written(r) ==
  /\ pc[r] \notin {"activate", "event", "donate", "mark", "mail", "commit"} =>
       work[r] = NoRows
  /\ pc[r] \in {"activate", "event", "donate", "mark", "mail"} => IsTest(r)
  /\ pc[r] \in {"subscribe", "activate"} => req[r].kind = "subscription"
  /\ pc[r] = "flush" => req[r].kind = "one_off" /\ ~IsTest(r)
  /\ pc[r] = "activate" =>
       work[r] = [event |-> "none", donation |-> "none", sub |-> "pending"]
  /\ pc[r] = "event" =>
       work[r] = [event |-> "none", donation |-> "none", sub |-> Booked(req[r]).sub]
  /\ pc[r] = "donate" =>
       work[r] = [event |-> "received", donation |-> "none", sub |-> Booked(req[r]).sub]
  /\ pc[r] = "mark" =>
       work[r] = [event |-> "received", donation |-> "succeeded", sub |-> Booked(req[r]).sub]
  /\ pc[r] \in {"mail", "commit"} => work[r] = Booked(req[r])

\* A request writes its donor's row after its SELECT and has let go of it when
\* it answers.
Holding == \A r \in holds : pc[r] \in InFlight \ {"start", "select", "insert"}

\* As long as nothing failed, a donor on file has a gift that went through.
OnFileByGift ==
  faults = 0 =>
    \A m \in Emails :
      donors[m] # "absent" => \E q \in Requests : req[q].email = m /\ pc[q] = "200"

IInv ==
  /\ TypeOK
  /\ \A r \in Requests : Written(r)
  /\ Holding
  /\ OneWriterPerDonor
  /\ AnswerIsTrue
  /\ OnFileByGift
  /\ RefusedOnlyToARival

-----------------------------------------------------------------------------
LEMMA EntryFacts ==
  /\ NoRows \in Entries
  /\ \A a : Booked(a) \in Entries
  /\ \A a, d : d \in DonorRows =>
       /\ DonorAfter(a, d) \in DonorRows \ {"absent"}
       /\ a.consent => DonorAfter(a, d) = "consented"
       /\ d = "consented" => DonorAfter(a, d) = "consented"
BY DEF NoRows, Entries, Booked, DonorAfter, DonorRows

LEMMA AskFacts ==
  ASSUME TypeOK, NEW r \in Requests
  PROVE  /\ req[r] \in Asks
         /\ req[r].email \in Emails
         /\ req[r].consent \in BOOLEAN
         /\ req[r].kind \in {"one_off", "subscription"}
BY AskedAssumption DEF TypeOK, Asks, Kinds

\* The test rail is always available.
LEMMA TestIsOffered == GetProvider(Settings, "test") = "ok"
BY DEF GetProvider, Rails, BUILDERS, TestProvider

\* It never raises.
LEMMA TestReturns ==
  ASSUME TypeOK, NEW r \in Requests, IsTest(r)
  PROVE  ~CanRaise(req[r].kind, req[r].rail)
BY AskFacts DEF CanRaise, BUILDERS, TestProvider, IsTest

LEMMA InitInv == Init => IInv
<1> SUFFICES ASSUME Init PROVE IInv
  OBVIOUS
<1>1. TypeOK
  BY EntryFacts, MaxFaultsAssumption DEF Init, TypeOK, DonorRows, InFlight
<1>2. \A r \in Requests : Written(r)
  BY DEF Init, Written
<1>3. Holding /\ OneWriterPerDonor /\ AnswerIsTrue /\ RefusedOnlyToARival
  BY DEF Init, Holding, OneWriterPerDonor, AnswerIsTrue, RefusedOnlyToARival
<1>4. OnFileByGift
  BY DEF Init, OnFileByGift
<1> QED
  BY <1>1, <1>2, <1>3, <1>4 DEF IInv

-----------------------------------------------------------------------------
(***************************************************************************)
(* One lemma per way a step can go.  Advance: a handler moves on inside    *)
(* its transaction.                                                        *)
(***************************************************************************)
LEMMA Advance ==
  ASSUME IInv, NEW r \in Requests, NEW label \in InFlight \ {"start", "select", "insert"},
         pc[r] \in InFlight \ {"start", "select"},
         Goto(r, label),
         \/ holds' = holds
         \/ holds' = holds \union {r} /\ (~Locked(r) \/ r \in holds),
         NEW rows \in Entries, work' = [work EXCEPT ![r] = rows],
         Written(r)',
         orders' \subseteq Requests, mailed' \subseteq Requests,
         UNCHANGED <<req, donors, ledger, faults>>
  PROVE  IInv'
<1> USE DEF IInv, Goto
<1>1. TypeOK'
  BY DEF TypeOK
<1>2. (\A q \in Requests : Written(q))'
  BY DEF TypeOK, Written, IsTest
<1>3. Holding'
  BY DEF TypeOK, Holding
<1>4. OneWriterPerDonor'
  BY DEF TypeOK, OneWriterPerDonor, Locked
<1>5. (AnswerIsTrue /\ OnFileByGift /\ RefusedOnlyToARival)'
  BY DEF TypeOK, AnswerIsTrue, OnFileByGift, RefusedOnlyToARival, InFlight, IsTest
<1> QED
  BY <1>1, <1>2, <1>3, <1>4, <1>5

\* A handler answers with an error, its transaction rolled back.
LEMMA Rollback ==
  ASSUME IInv, NEW r \in Requests, NEW label \in {"422", "500"},
         pc[r] \in InFlight,
         Goto(r, label), holds' = holds \ {r}, work' = [work EXCEPT ![r] = NoRows],
         IsTest(r) /\ faults' = 0 => donors[req[r].email] # "absent",
         orders' \subseteq Requests, mailed' \subseteq Requests,
         faults' \in {faults, faults + 1}, faults' \in 0..MaxFaults,
         UNCHANGED <<req, donors, ledger>>
  PROVE  IInv'
<1> USE DEF IInv, Goto
<1>1. TypeOK'
  BY EntryFacts DEF TypeOK, Answered
<1>2. (\A q \in Requests : Written(q))'
  BY DEF TypeOK, Written, IsTest
<1>3. (Holding /\ OneWriterPerDonor /\ AnswerIsTrue)'
  BY DEF TypeOK, Holding, OneWriterPerDonor, AnswerIsTrue, InFlight
<1>4. faults' = 0 => faults = 0
  BY MaxFaultsAssumption DEF TypeOK
<1>5. OnFileByGift'
  BY <1>4 DEF TypeOK, OnFileByGift, InFlight
<1>6. RefusedOnlyToARival'
  <2> SUFFICES ASSUME NEW q \in Requests, pc'[q] = "500", IsTest(q), faults' = 0
               PROVE  \E p \in Requests \ {q} : req[p].email = req[q].email /\ pc'[p] = "200"
    BY DEF RefusedOnlyToARival, IsTest
  <2>1. CASE q = r
    <3>1. PICK p \in Requests : req[p].email = req[r].email /\ pc[p] = "200"
      BY <1>4, <2>1, AskFacts DEF OnFileByGift
    <3> QED
      BY <2>1, <3>1 DEF TypeOK, InFlight
  <2>2. CASE q # r
    <3>1. PICK p \in Requests \ {q} : req[p].email = req[q].email /\ pc[p] = "200"
      BY <1>4, <2>2 DEF TypeOK, RefusedOnlyToARival
    <3> QED
      BY <3>1 DEF TypeOK, InFlight
  <2> QED
    BY <2>1, <2>2
<1> QED
  BY <1>1, <1>2, <1>3, <1>5, <1>6

\* COMMIT takes effect, heard of or not.
LEMMA Durable ==
  ASSUME IInv, NEW r \in Requests, TakesEffect(r),
         \/ Goto(r, "200") /\ faults' = faults
         \/ Goto(r, "500") /\ faults' = faults + 1,
         faults' \in 0..MaxFaults,
         UNCHANGED <<req, orders, mailed>>
  PROVE  IInv'
<1> USE DEF IInv, Goto, TakesEffect
<1> DEFINE m == req[r].email
<1>1. /\ m \in Emails
      /\ donors'[m] \in DonorRows \ {"absent"}
      /\ req[r].consent => donors'[m] = "consented"
      /\ \A n \in Emails : donors[n] # "absent" => donors'[n] # "absent"
      /\ \A n \in Emails : donors[n] = "consented" => donors'[n] = "consented"
      /\ \A n \in Emails \ {m} : donors'[n] = donors[n]
      /\ donors' \in [Emails -> DonorRows]
  BY EntryFacts, AskFacts DEF TypeOK
<1>2. TypeOK'
  BY <1>1, EntryFacts DEF TypeOK, Answered
<1>3. (\A q \in Requests : Written(q))'
  BY DEF TypeOK, Written, IsTest
<1>4. (Holding /\ OneWriterPerDonor)'
  BY DEF TypeOK, Holding, OneWriterPerDonor
<1>5. AnswerIsTrue'
  <2> SUFFICES ASSUME NEW q \in Requests, pc'[q] = "200"
               PROVE  /\ ledger'[q] = Booked(req[q])
                      /\ donors'[req[q].email] # "absent"
                      /\ req[q].consent => donors'[req[q].email] = "consented"
    BY DEF AnswerIsTrue
  <2>1. CASE q = r
    BY <1>1, <2>1 DEF TypeOK, Written
  <2>2. CASE q # r
    BY <1>1, <2>2, AskFacts DEF TypeOK, AnswerIsTrue
  <2> QED
    BY <2>1, <2>2
<1>6. OnFileByGift'
  BY <1>1, MaxFaultsAssumption DEF TypeOK, OnFileByGift
<1>7. RefusedOnlyToARival'
  BY MaxFaultsAssumption DEF TypeOK, RefusedOnlyToARival, IsTest
<1> QED
  BY <1>2, <1>3, <1>4, <1>5, <1>6, <1>7

-----------------------------------------------------------------------------
\* An action that leaves work alone leaves r's own rows alone.
LEMMA SameWork ==
  ASSUME TypeOK, NEW r \in Requests, UNCHANGED work
  PROVE  work[r] \in Entries /\ work' = [work EXCEPT ![r] = work[r]]
BY DEF TypeOK

LEMMA NextInv == IInv /\ [Next]_vars => IInv'
<1> SUFFICES ASSUME IInv, [Next]_vars PROVE IInv'
  OBVIOUS
<1> USE DEF Goto
<1>t. TypeOK
  BY DEF IInv
<1>1. ASSUME NEW r \in Requests, Admit(r) PROVE IInv'
  <2>1. TypeOK' /\ (\A q \in Requests : Written(q))'
    BY <1>1 DEF Admit, IInv, TypeOK, InFlight, Written, IsTest
  <2>2. (Holding /\ OneWriterPerDonor /\ AnswerIsTrue)'
    BY <1>1 DEF Admit, IInv, TypeOK, Holding, OneWriterPerDonor, AnswerIsTrue
  <2>3. (OnFileByGift /\ RefusedOnlyToARival)'
    BY <1>1 DEF Admit, IInv, TypeOK, OnFileByGift, RefusedOnlyToARival, IsTest
  <2> QED
    BY <2>1, <2>2, <2>3 DEF IInv
<1>2. ASSUME NEW r \in Requests, Refuse(r) PROVE IInv'
  <2>1. ~IsTest(r)
    BY <1>2, TestIsOffered DEF Refuse, IsTest
  <2>2. pc[r] \in InFlight /\ r \notin holds /\ work[r] = NoRows
    BY <1>2 DEF Refuse, InFlight, IInv, Holding, Written
  <2>3. holds' = holds \ {r} /\ work' = [work EXCEPT ![r] = NoRows]
    BY <1>2, <2>2, <1>t DEF Refuse, TypeOK
  <2>4. \E label \in {"422", "500"} : Goto(r, label)
    BY <1>2 DEF Refuse
  <2>5. PICK label \in {"422", "500"} : Goto(r, label)
    BY <2>4
  <2> QED
    BY <1>2, <1>t, <2>1, <2>2, <2>3, <2>5, Rollback DEF Refuse, TypeOK
<1>3. ASSUME NEW r \in Requests, SelectDonor(r) PROVE IInv'
  <2>1. TypeOK' /\ (\A q \in Requests : Written(q))'
    BY <1>3 DEF SelectDonor, IInv, TypeOK, InFlight, Written, IsTest
  <2>2. (Holding /\ OneWriterPerDonor /\ AnswerIsTrue)'
    BY <1>3 DEF SelectDonor, IInv, TypeOK, Holding, OneWriterPerDonor, AnswerIsTrue, InFlight
  <2>3. (OnFileByGift /\ RefusedOnlyToARival)'
    BY <1>3 DEF SelectDonor, IInv, TypeOK, OnFileByGift, RefusedOnlyToARival, IsTest
  <2> QED
    BY <2>1, <2>2, <2>3 DEF IInv
<1>4. ASSUME NEW r \in Requests, InsertDonor(r) PROVE IInv'
  <2>1. Written(r)'
    BY <1>4 DEF InsertDonor, IInv, TypeOK, Written, IsTest
  <2> QED
    BY <1>4, <1>t, <2>1, SameWork, Advance DEF InsertDonor, InFlight, TypeOK
<1>5. ASSUME NEW r \in Requests, DonorConflict(r) PROVE IInv'
  BY <1>5, <1>t, Rollback DEF DonorConflict, Abort, InFlight, TypeOK
<1>6. ASSUME NEW r \in Requests, ProviderCreates(r) PROVE IInv'
  <2>1. Written(r)'
    BY <1>6, <1>t, AskFacts, EntryFacts
      DEF ProviderCreates, IInv, TypeOK, Written, IsTest, NoRows, Booked
  <2>2. PICK label \in {"subscribe", "event", "flush"} : Goto(r, label)
    BY <1>6 DEF ProviderCreates
  <2>3. orders' \subseteq Requests
    BY <1>6, <1>t DEF ProviderCreates, TypeOK
  <2> QED
    BY <1>6, <1>t, <2>1, <2>2, <2>3, SameWork, Advance DEF ProviderCreates, InFlight, TypeOK
<1>7. ASSUME NEW r \in Requests, ProviderRaises(r) PROVE IInv'
  <2>1. ~IsTest(r) /\ orders' \subseteq Requests
    BY <1>7, <1>t, TestReturns DEF ProviderRaises, TypeOK
  <2> QED
    BY <1>7, <1>t, <2>1, Rollback DEF ProviderRaises, Abort, InFlight, TypeOK
<1>8. ASSUME NEW r \in Requests, InsertSubscription(r) PROVE IInv'
  <2> DEFINE rows == [event |-> "none", donation |-> "none", sub |-> "pending"]
  <2>1. work[r] = NoRows /\ req[r].kind = "subscription"
    BY <1>8 DEF InsertSubscription, IInv, Written
  <2>2. work' = [work EXCEPT ![r] = rows]
    <3>1. [work[r] EXCEPT !.sub = "pending"] = rows
      BY <2>1 DEF NoRows
    <3>2. work' = [work EXCEPT ![r] = [work[r] EXCEPT !.sub = "pending"]]
      BY <1>8, <1>t DEF InsertSubscription, TypeOK
    <3> QED
      BY <3>1, <3>2
  <2>3. rows \in Entries
    BY DEF Entries
  <2>4. Written(r)'
    BY <1>8, <1>t, <2>1, <2>2 DEF InsertSubscription, TypeOK, Written, IsTest, Booked
  <2>5. PICK label \in {"activate", "commit"} : Goto(r, label)
    BY <1>8 DEF InsertSubscription
  <2> QED
    BY <1>8, <1>t, <2>2, <2>3, <2>4, <2>5, AskFacts, Advance
      DEF InsertSubscription, WriteConsent, InFlight, TypeOK
<1>9. ASSUME NEW r \in Requests, ActivateSubscription(r) PROVE IInv'
  <2> DEFINE rows == [event |-> "none", donation |-> "none", sub |-> "active"]
  <2>1. /\ work[r] = [event |-> "none", donation |-> "none", sub |-> "pending"]
        /\ req[r].kind = "subscription" /\ IsTest(r)
    BY <1>9 DEF ActivateSubscription, IInv, Written
  <2>2. work' = [work EXCEPT ![r] = rows]
    <3>1. [work[r] EXCEPT !.sub = "active"] = rows
      BY <2>1
    <3>2. work' = [work EXCEPT ![r] = [work[r] EXCEPT !.sub = "active"]]
      BY <1>9, <1>t DEF ActivateSubscription, TypeOK
    <3> QED
      BY <3>1, <3>2
  <2>3. rows \in Entries
    BY DEF Entries
  <2>4. Written(r)'
    BY <1>9, <1>t, <2>1, <2>2 DEF ActivateSubscription, TypeOK, Written, IsTest, Booked
  <2> QED
    BY <1>9, <1>t, <2>2, <2>3, <2>4, Advance DEF ActivateSubscription, InFlight, TypeOK
<1>10. ASSUME NEW r \in Requests, RecordEvent(r) PROVE IInv'
  <2> DEFINE rows == [event |-> "received", donation |-> "none", sub |-> Booked(req[r]).sub]
  <2>1. /\ work[r] = [event |-> "none", donation |-> "none", sub |-> Booked(req[r]).sub]
        /\ IsTest(r)
    BY <1>10 DEF RecordEvent, IInv, Written
  <2>2. work' = [work EXCEPT ![r] = rows]
    <3>1. [work[r] EXCEPT !.event = "received"] = rows
      BY <2>1
    <3>2. work' = [work EXCEPT ![r] = [work[r] EXCEPT !.event = "received"]]
      BY <1>10, <1>t DEF RecordEvent, TypeOK
    <3> QED
      BY <3>1, <3>2
  <2>3. rows \in Entries
    BY EntryFacts DEF Entries
  <2>4. Written(r)'
    BY <1>10, <1>t, <2>1, <2>2 DEF RecordEvent, TypeOK, Written, IsTest
  <2> QED
    BY <1>10, <1>t, <2>2, <2>3, <2>4, AskFacts, Advance
      DEF RecordEvent, WriteConsent, InFlight, TypeOK
<1>11. ASSUME NEW r \in Requests, RecordDonation(r) PROVE IInv'
  <2> DEFINE rows == [event |-> "received", donation |-> "succeeded", sub |-> Booked(req[r]).sub]
  <2>1. /\ work[r] = [event |-> "received", donation |-> "none", sub |-> Booked(req[r]).sub]
        /\ IsTest(r)
    BY <1>11 DEF RecordDonation, IInv, Written
  <2>2. work' = [work EXCEPT ![r] = rows]
    <3>1. [work[r] EXCEPT !.donation = "succeeded"] = rows
      BY <2>1
    <3>2. work' = [work EXCEPT ![r] = [work[r] EXCEPT !.donation = "succeeded"]]
      BY <1>11, <1>t DEF RecordDonation, TypeOK
    <3> QED
      BY <3>1, <3>2
  <2>3. rows \in Entries
    BY EntryFacts DEF Entries
  <2>4. Written(r)'
    BY <1>11, <1>t, <2>1, <2>2 DEF RecordDonation, TypeOK, Written, IsTest
  <2> QED
    BY <1>11, <1>t, <2>2, <2>3, <2>4, Advance DEF RecordDonation, InFlight, TypeOK
<1>12. ASSUME NEW r \in Requests, MarkProcessed(r) PROVE IInv'
  <2>1. /\ work[r] = [event |-> "received", donation |-> "succeeded", sub |-> Booked(req[r]).sub]
        /\ IsTest(r)
    BY <1>12 DEF MarkProcessed, IInv, Written
  <2>2. work' = [work EXCEPT ![r] = Booked(req[r])]
    <3>1. [work[r] EXCEPT !.event = "processed"] = Booked(req[r])
      BY <2>1 DEF Booked, IsTest
    <3>2. work' = [work EXCEPT ![r] = [work[r] EXCEPT !.event = "processed"]]
      BY <1>12, <1>t DEF MarkProcessed, TypeOK
    <3> QED
      BY <3>1, <3>2
  <2>3. Written(r)'
    BY <1>12, <1>t, <2>1, <2>2 DEF MarkProcessed, TypeOK, Written, IsTest
  <2> QED
    BY <1>12, <1>t, <2>2, <2>3, EntryFacts, Advance DEF MarkProcessed, InFlight, TypeOK
<1>13. ASSUME NEW r \in Requests, SendReceipt(r) PROVE IInv'
  <2>1. Written(r)'
    BY <1>13, <1>t DEF SendReceipt, IInv, TypeOK, Written, IsTest
  <2> QED
    BY <1>13, <1>t, <2>1, SameWork, Advance DEF SendReceipt, InFlight, TypeOK
<1>14. ASSUME NEW r \in Requests, FlushConsent(r) PROVE IInv'
  <2>1. Written(r)'
    BY <1>14, <1>t DEF FlushConsent, IInv, TypeOK, Written, IsTest, NoRows, Booked
  <2> QED
    BY <1>14, <1>t, <2>1, SameWork, AskFacts, Advance
      DEF FlushConsent, WriteConsent, InFlight, TypeOK
<1>15. ASSUME NEW r \in Requests, Commit(r) PROVE IInv'
  BY <1>15, <1>t, Durable DEF Commit, TypeOK
<1>16. ASSUME NEW r \in Requests, CommitUnheard(r) PROVE IInv'
  <2>1. faults' \in 0..MaxFaults
    BY <1>16, <1>t, MaxFaultsAssumption DEF CommitUnheard, TypeOK
  <2>2. TakesEffect(r) /\ Goto(r, "500") /\ faults' = faults + 1 /\ UNCHANGED <<req, orders, mailed>>
    BY <1>16 DEF CommitUnheard
  <2> QED
    BY <2>1, <2>2, Durable
<1>17. ASSUME NEW r \in Requests, Fault(r) PROVE IInv'
  <2>1. mailed' \subseteq Requests /\ faults' # 0 /\ faults' \in 0..MaxFaults
    BY <1>17, <1>t, MaxFaultsAssumption DEF Fault, TypeOK
  <2> QED
    BY <1>17, <1>t, <2>1, Rollback DEF Fault, Abort, TypeOK
<1>18. CASE Crash
  <2>1. faults' # 0 /\ faults' \in 0..MaxFaults
    BY <1>18, <1>t, MaxFaultsAssumption DEF Crash, TypeOK
  <2>2. TypeOK'
    BY <1>18, <2>1, EntryFacts DEF Crash, IInv, TypeOK, Answered
  <2>3. (\A q \in Requests : Written(q))'
    BY <1>18 DEF Crash, IInv, TypeOK, Written, InFlight
  <2>4. (Holding /\ OneWriterPerDonor)'
    BY <1>18 DEF Crash, Holding, OneWriterPerDonor
  <2>5. AnswerIsTrue'
    BY <1>18 DEF Crash, IInv, TypeOK, AnswerIsTrue
  <2>6. (OnFileByGift /\ RefusedOnlyToARival)'
    BY <2>1 DEF OnFileByGift, RefusedOnlyToARival
  <2> QED
    BY <2>2, <2>3, <2>4, <2>5, <2>6 DEF IInv
<1>19. CASE UNCHANGED vars
  BY <1>19 DEF vars, IInv, TypeOK, Written, IsTest, Holding, OneWriterPerDonor,
               AnswerIsTrue, OnFileByGift, RefusedOnlyToARival
<1> QED
  BY <1>1, <1>2, <1>3, <1>4, <1>5, <1>6, <1>7, <1>8, <1>9, <1>10, <1>11, <1>12,
     <1>13, <1>14, <1>15, <1>16, <1>17, <1>18, <1>19 DEF Next, Step

-----------------------------------------------------------------------------
\* The strengthened invariant holds in every reachable state.
THEOREM Invariance == Spec => []IInv
<1> QED
  BY InitInv, NextInv, PTL DEF Spec

\* Every variable keeps its type.
THEOREM TypeCorrect == Spec => []TypeOK
<1>1. IInv => TypeOK
  BY DEF IInv
<1> QED
  BY <1>1, Invariance, PTL

\* A donor answered 200 finds the gift, whole, and the consent that was given,
\* in the database: whatever other requests of the same donor do, whatever
\* fails.
THEOREM AnswersAreTrue == Spec => []AnswerIsTrue
<1>1. IInv => AnswerIsTrue
  BY DEF IInv
<1> QED
  BY <1>1, Invariance, PTL

\* Two open transactions never have the same donor's row: the unique e-mail
\* address and the row lock of the consent UPDATE exclude each other.
THEOREM WritersExclude == Spec => []OneWriterPerDonor
<1>1. IInv => OneWriterPerDonor
  BY DEF IInv
<1> QED
  BY <1>1, Invariance, PTL

\* With nothing failing, a test gift is refused only when the donor's other
\* first gift went through.
THEOREM RefusedToARival == Spec => []RefusedOnlyToARival
<1>1. IInv => RefusedOnlyToARival
  BY DEF IInv
<1> QED
  BY <1>1, Invariance, PTL

-----------------------------------------------------------------------------
(***************************************************************************)
(* The requests implement GiftBook.                                        *)
(***************************************************************************)
Told == [r \in Requests |-> IF pc[r] \in InFlight THEN "none"
                            ELSE IF pc[r] = "200" THEN "accepted" ELSE "failed"]

LEMMA BookInit == Init => Book!Init
BY AskedAssumption
  DEF Init, Book!Init, InFlight, NoRows, Book!NoRows, Asks, Book!Asks, Kinds, Book!Kinds,
      ProviderNames, Book!ProviderNames, Rails, Book!Rails

\* A handler that moves on inside its transaction shows nothing.
LEMMA Invisible ==
  ASSUME TypeOK, NEW r \in Requests, NEW label \in InFlight,
         pc[r] \in InFlight, Goto(r, label), UNCHANGED <<req, donors, ledger>>
  PROVE  UNCHANGED Book!vars
<1>1. Told' = Told
  BY DEF TypeOK, Told, Goto
<1> QED
  BY <1>1 DEF Book!vars, Told

\* A handler that answers with an error fails for the book.
LEMMA Failing ==
  ASSUME TypeOK, NEW r \in Requests, NEW label \in {"422", "500"},
         pc[r] \in InFlight, Goto(r, label), UNCHANGED <<req, donors, ledger>>
  PROVE  Book!Next
<1>1. Told[r] = "none" /\ Told' = [q \in Requests |-> IF q \in {r} THEN "failed" ELSE Told[q]]
  BY DEF TypeOK, Told, Goto, InFlight
<1>2. Book!Fail({r})
  BY <1>1 DEF Book!Fail, Told
<1> QED
  BY <1>2 DEF Book!Next

\* A commit enters the gift in the book, whatever the donor is told.
LEMMA Entering ==
  ASSUME IInv, NEW r \in Requests, TakesEffect(r), NEW label \in {"200", "500"},
         Goto(r, label), UNCHANGED req
  PROVE  Book!Next
<1>1. ledger' = [ledger EXCEPT ![r] = Booked(req[r])]
  BY DEF IInv, Written, TakesEffect
<1>2. Told[r] = "none"
      /\ Told' = [Told EXCEPT ![r] = IF label = "200" THEN "accepted" ELSE "failed"]
  BY DEF IInv, TypeOK, Told, Goto, TakesEffect, InFlight
<1>3. Book!Enter(r)
  <2>1. Book!Booked(req[r]) = Booked(req[r])
    BY DEF Booked, Book!Booked
  <2>2. \A d : Book!DonorAfter(req[r], d) = DonorAfter(req[r], d)
    BY DEF DonorAfter, Book!DonorAfter
  <2>3. \E told \in {"accepted", "failed"} : Told' = [Told EXCEPT ![r] = told]
    BY <1>2
  <2> QED
    BY <1>1, <1>2, <2>1, <2>2, <2>3 DEF Book!Enter, TakesEffect, Told
<1> QED
  BY <1>3 DEF Book!Next

LEMMA BookNext == IInv /\ [Next]_vars => [Book!Next]_(Book!vars)
<1> SUFFICES ASSUME IInv, [Next]_vars PROVE [Book!Next]_(Book!vars)
  OBVIOUS
<1>t. TypeOK
  BY DEF IInv
<1>1. ASSUME NEW r \in Requests,
             \/ Admit(r) \/ SelectDonor(r) \/ InsertDonor(r) \/ ProviderCreates(r)
             \/ InsertSubscription(r) \/ ActivateSubscription(r) \/ RecordEvent(r)
             \/ RecordDonation(r) \/ MarkProcessed(r) \/ SendReceipt(r) \/ FlushConsent(r)
      PROVE  UNCHANGED Book!vars
  <2>1. \E label \in InFlight : Goto(r, label)
    BY <1>1 DEF Admit, SelectDonor, InsertDonor, ProviderCreates, InsertSubscription,
                ActivateSubscription, RecordEvent, RecordDonation, MarkProcessed,
                SendReceipt, FlushConsent, InFlight
  <2>2. pc[r] \in InFlight /\ UNCHANGED <<req, donors, ledger>>
    BY <1>1 DEF Admit, SelectDonor, InsertDonor, ProviderCreates, InsertSubscription,
                ActivateSubscription, RecordEvent, RecordDonation, MarkProcessed,
                SendReceipt, FlushConsent, InFlight
  <2> QED
    BY <1>t, <2>1, <2>2, Invisible
<1>2. ASSUME NEW r \in Requests,
             Refuse(r) \/ DonorConflict(r) \/ ProviderRaises(r) \/ Fault(r)
      PROVE  Book!Next
  <2>1. \E label \in {"422", "500"} : Goto(r, label)
    BY <1>2 DEF Refuse, DonorConflict, ProviderRaises, Fault, Abort, Goto
  <2>2. pc[r] \in InFlight /\ UNCHANGED <<req, donors, ledger>>
    BY <1>2 DEF Refuse, DonorConflict, ProviderRaises, Fault, InFlight
  <2> QED
    BY <1>t, <2>1, <2>2, Failing
<1>3. ASSUME NEW r \in Requests, Commit(r) \/ CommitUnheard(r) PROVE Book!Next
  BY <1>3, Entering DEF Commit, CommitUnheard
<1>4. CASE Crash
  <2>1. PICK R \in SUBSET Requests :
          \A r \in Requests : r \in R <=> pc[r] \in InFlight \ {"start"}
    <3>1. {r \in Requests : pc[r] \in InFlight \ {"start"}} \in SUBSET Requests
      OBVIOUS
    <3> QED
      BY <3>1
  <2>2. \A r \in R : Told[r] = "none"
    BY <2>1 DEF Told
  <2>3. Told' = [r \in Requests |-> IF r \in R THEN "failed" ELSE Told[r]]
    BY <1>4, <1>t, <2>1 DEF Crash, TypeOK, Told, InFlight
  <2>4. Book!Fail(R)
    BY <1>4, <2>2, <2>3 DEF Crash, Book!Fail, Told
  <2> QED
    BY <2>4 DEF Book!Next
<1>5. CASE UNCHANGED vars
  BY <1>5 DEF vars, Book!vars
<1> QED
  BY <1>1, <1>2, <1>3, <1>4, <1>5 DEF Next, Step

\* Every behaviour of the giving endpoints is one GiftBook allows: a gift is
\* entered whole and once, or not at all, and a 200 says that it is.
THEOREM ImplementsBook == Spec => BookSpec
<1> QED
  BY BookInit, BookNext, Invariance, PTL DEF Spec, BookSpec, Book!Spec

-----------------------------------------------------------------------------
(***************************************************************************)
(* Waiting for a donor's row.                                              *)
(***************************************************************************)

\* Whoever has a row that others wait for is in the middle of its handler and
\* waits for no row itself: a transaction writes one donor's row, and nobody
\* else has written it.
LEMMA HoldersRun == IInv => HolderIsFree
<1> SUFFICES ASSUME IInv, NEW r \in Requests, Waits(r)
             PROVE  \E q \in holds \ {r} :
                      req[q].email = req[r].email /\ pc[q] \in InFlight /\ ~Waits(q)
  BY DEF HolderIsFree
<1>1. PICK q \in holds \ {r} : req[q].email = req[r].email
  BY DEF Waits, Locked
<1>2. pc[q] \in InFlight
  BY <1>1 DEF IInv, Holding
<1>3. ~Locked(q)
  BY <1>1 DEF Locked, IInv, OneWriterPerDonor
<1> QED
  BY <1>1, <1>2, <1>3 DEF Waits

\* No chain of requests waits for rows, however many donors and requests there
\* are.
THEOREM HoldersAreFree == Spec => []HolderIsFree
<1> QED
  BY HoldersRun, Invariance, PTL

\* So requests are never all stuck: while one is unanswered, one is that waits
\* for no row.
THEOREM SomebodyMoves ==
  Spec => []((\E r \in Requests : pc[r] \in InFlight) =>
               \E r \in Requests : pc[r] \in InFlight /\ ~Waits(r))
<1>1. IInv => ((\E r \in Requests : pc[r] \in InFlight) =>
                 \E r \in Requests : pc[r] \in InFlight /\ ~Waits(r))
  BY HoldersRun DEF HolderIsFree, IInv, TypeOK
<1> QED
  BY <1>1, Invariance, PTL

\* How many statements a request at this point has before it, at most.
Left(label) ==
  CASE label = "start" -> 12 [] label = "select" -> 11 [] label = "insert" -> 10
    [] label = "call" -> 9 [] label = "subscribe" -> 8 [] label = "activate" -> 7
    [] label = "event" -> 6 [] label = "donate" -> 5 [] label = "mark" -> 4
    [] label = "mail" -> 3 [] label = "flush" -> 2 [] label = "commit" -> 1
    [] OTHER -> 0

LEMMA LeftFacts ==
  /\ Left("start") = 12 /\ Left("select") = 11 /\ Left("insert") = 10 /\ Left("call") = 9
  /\ Left("subscribe") = 8 /\ Left("activate") = 7 /\ Left("event") = 6 /\ Left("donate") = 5
  /\ Left("mark") = 4 /\ Left("mail") = 3 /\ Left("flush") = 2 /\ Left("commit") = 1
  /\ Left("200") = 0 /\ Left("422") = 0 /\ Left("500") = 0
BY DEF Left

\* No request turns back: every statement of its handler brings it nearer to its
\* answer, and nothing else does the contrary.  It takes at most twelve, so that,
\* with SomebodyMoves, requests end as long as the one that need not wait is run
\* (donations.py:38-165).
THEOREM OnlyForward ==
  Spec => [][\A r \in Requests : /\ Left(pc'[r]) <= Left(pc[r])
                                 /\ Step(r) => Left(pc'[r]) < Left(pc[r])]_vars
<1> DEFINE Forward == \A r \in Requests : /\ Left(pc'[r]) <= Left(pc[r])
                                          /\ Step(r) => Left(pc'[r]) < Left(pc[r])
<1>1. ASSUME IInv, [Next]_vars PROVE [Forward]_vars
  <2>t. pc \in [Requests -> Answered \union InFlight]
    BY <1>1 DEF IInv, TypeOK
  <2>n. \A label \in Answered \union InFlight : Left(label) \in 0..12
    BY LeftFacts DEF Answered, InFlight
  <2>1. ASSUME NEW q \in Requests, Step(q) \/ CommitUnheard(q) \/ Fault(q)
        PROVE  /\ Left(pc'[q]) < Left(pc[q])
               /\ \A r \in Requests \ {q} : pc'[r] = pc[r]
    <3>1. CASE Admit(q) \/ Refuse(q) \/ SelectDonor(q)
      BY <2>t, <3>1, LeftFacts DEF Admit, Refuse, SelectDonor, Goto
    <3>2. CASE InsertDonor(q) \/ DonorConflict(q) \/ ProviderRaises(q)
      BY <2>t, <3>2, LeftFacts DEF InsertDonor, DonorConflict, ProviderRaises, Abort, Goto
    <3>3. CASE ProviderCreates(q) \/ InsertSubscription(q) \/ ActivateSubscription(q)
      BY <2>t, <3>3, LeftFacts DEF ProviderCreates, InsertSubscription, ActivateSubscription, Goto
    <3>4. CASE RecordEvent(q) \/ RecordDonation(q) \/ MarkProcessed(q) \/ SendReceipt(q)
               \/ FlushConsent(q)
      BY <2>t, <3>4, LeftFacts
      DEF RecordEvent, RecordDonation, MarkProcessed, SendReceipt, FlushConsent, Goto
    <3>5. CASE Commit(q) \/ CommitUnheard(q)
      BY <2>t, <3>5, LeftFacts DEF Commit, CommitUnheard, TakesEffect, Goto
    <3>6. CASE Fault(q)
      BY <2>t, <3>6, LeftFacts DEF Fault, Abort, InFlight
    <3> QED
      BY <2>1, <3>1, <3>2, <3>3, <3>4, <3>5, <3>6 DEF Step
  <2>2. CASE \E q \in Requests : Step(q) \/ CommitUnheard(q) \/ Fault(q)
    <3>1. PICK q \in Requests : Step(q) \/ CommitUnheard(q) \/ Fault(q)
      BY <2>2
    <3>2. \A r \in Requests : Step(r) => Left(pc'[r]) < Left(pc[r])
      BY <2>1
    <3>3. ASSUME NEW r \in Requests PROVE Left(pc'[r]) <= Left(pc[r])
      <4>1. Left(pc[r]) \in 0..12 /\ pc[r] \in Answered \union InFlight
        BY <2>n, <2>t
      <4>2. CASE r = q
        <5>1. Left(pc'[q]) < Left(pc[q])
          BY <2>1, <3>1
        <5>2. pc'[q] \in Answered \union InFlight
          BY <3>1, <2>t, NextInv, <1>1 DEF IInv, TypeOK
        <5> QED
          BY <2>n, <4>1, <4>2, <5>1, <5>2
      <4>3. CASE r # q
        BY <2>1, <3>1, <4>1, <4>3
      <4> QED
        BY <4>2, <4>3
    <3> QED
      BY <3>2, <3>3
  <2>3. CASE Crash
    <3>1. ASSUME NEW r \in Requests PROVE Left(pc'[r]) <= Left(pc[r])
      <4>1. pc[r] \in Answered \union InFlight /\ Left(pc[r]) \in 0..12
        BY <2>n, <2>t
      <4>2. pc'[r] = pc[r] \/ pc'[r] = "500"
        BY <2>3 DEF Crash
      <4> QED
        BY <4>1, <4>2, LeftFacts
    <3>2. \A r \in Requests : Step(r) => Left(pc'[r]) < Left(pc[r])
      BY <2>1
    <3> QED
      BY <3>1, <3>2
  <2> QED
    BY <1>1, <2>2, <2>3 DEF Next
<1> HIDE DEF Forward
<1>2. Spec => [][Forward]_vars
  BY <1>1, Invariance, PTL DEF Spec
<1> QED
  BY <1>2 DEF Forward

-----------------------------------------------------------------------------
(***************************************************************************)
(* The receipts.                                                           *)
(***************************************************************************)

\* Rows are committed only by the last statement, a receipt is sent only for a
\* test gift, just before it, and then never missing unless something failed.
Receipted ==
  /\ \A r \in Requests : ledger[r] # NoRows => pc[r] \in Answered
  /\ \A r \in mailed : IsTest(r) /\ pc[r] \in Answered \union {"commit"}
  /\ faults = 0 => \A r \in Requests : pc[r] = "commit" /\ IsTest(r) => r \in mailed
  /\ ReceiptsMatch

\* A handler moves on, other than to its commit, or answers with an error it met
\* before its receipt: the receipts and the rows stay.
LEMMA NoReceipt ==
  ASSUME TypeOK, Receipted, NEW r \in Requests,
         NEW label \in (Answered \union InFlight) \ {"200"},
         pc[r] \in InFlight \ {"commit"}, Goto(r, label),
         label = "commit" => ~IsTest(r),
         UNCHANGED <<req, ledger, mailed, faults>>
  PROVE  Receipted'
<1> USE DEF Goto
<1>1. r \notin mailed /\ ledger[r] = NoRows
  BY DEF Receipted, Answered, InFlight
<1>2. NoRows.donation # "succeeded"
  BY DEF NoRows
<1>3. \A q \in Requests : pc'[q] = IF q = r THEN label ELSE pc[q]
  BY DEF TypeOK
<1>4. \A q \in Requests : IsTest(q)' <=> IsTest(q)
  BY DEF IsTest
<1> QED
  BY <1>1, <1>2, <1>3, <1>4 DEF TypeOK, Receipted, ReceiptsMatch

LEMMA ReceiptedNext == IInv /\ Receipted /\ [Next]_vars => Receipted'
<1> SUFFICES ASSUME IInv, Receipted, [Next]_vars PROVE Receipted'
  OBVIOUS
<1>t. TypeOK /\ \A q \in Requests : Written(q)
  BY DEF IInv
<1> USE DEF Goto
<1>1. ASSUME NEW r \in Requests,
             \/ Admit(r) \/ Refuse(r) \/ SelectDonor(r) \/ InsertDonor(r) \/ DonorConflict(r)
             \/ ProviderCreates(r) \/ ProviderRaises(r) \/ InsertSubscription(r)
             \/ ActivateSubscription(r) \/ RecordEvent(r) \/ RecordDonation(r)
             \/ MarkProcessed(r) \/ FlushConsent(r)
      PROVE  Receipted'
  <2>1. /\ pc[r] \in InFlight \ {"commit"}
        /\ UNCHANGED <<req, ledger, mailed, faults>>
    BY <1>1 DEF Admit, Refuse, SelectDonor, InsertDonor, DonorConflict, ProviderCreates,
                ProviderRaises, InsertSubscription, ActivateSubscription, RecordEvent,
                RecordDonation, MarkProcessed, FlushConsent, InFlight
  <2>2. \E label \in (Answered \union InFlight) \ {"200"} :
          Goto(r, label) /\ (label = "commit" => ~IsTest(r))
    <3>1. CASE InsertSubscription(r)
      <4>1. Goto(r, IF IsTest(r) THEN "activate" ELSE "commit")
        BY <3>1 DEF InsertSubscription
      <4>2. (IF IsTest(r) THEN "activate" ELSE "commit")
              \in (Answered \union InFlight) \ {"200"}
        BY DEF InFlight, Answered
      <4> QED
        BY <4>1, <4>2
    <3>2. CASE FlushConsent(r)
      BY <1>t, <3>2 DEF FlushConsent, Written, InFlight
    <3>3. CASE \/ Admit(r) \/ Refuse(r) \/ SelectDonor(r) \/ InsertDonor(r) \/ DonorConflict(r)
               \/ ProviderCreates(r) \/ ProviderRaises(r) \/ ActivateSubscription(r)
               \/ RecordEvent(r) \/ RecordDonation(r) \/ MarkProcessed(r)
      <4>1. \E label \in (Answered \union InFlight) \ {"200", "commit"} : Goto(r, label)
        BY <3>3
          DEF Admit, Refuse, SelectDonor, InsertDonor, DonorConflict, Abort, ProviderCreates,
              ProviderRaises, ActivateSubscription, RecordEvent, RecordDonation, MarkProcessed,
              InFlight, Answered
      <4> QED
        BY <4>1
    <3> QED
      BY <1>1, <3>1, <3>2, <3>3
  <2> QED
    BY <1>t, <2>1, <2>2, NoReceipt
<1>2. ASSUME NEW r \in Requests, SendReceipt(r) PROVE Receipted'
  <2>1. IsTest(r) /\ ledger[r] = NoRows
    BY <1>t, <1>2 DEF SendReceipt, Written, Receipted, Answered
  <2> QED
    BY <1>t, <1>2, <2>1 DEF SendReceipt, TypeOK, Receipted, ReceiptsMatch, IsTest, Answered
<1>3. ASSUME NEW r \in Requests, Commit(r) PROVE Receipted'
  <2>1. ledger' = [ledger EXCEPT ![r] = Booked(req[r])]
    BY <1>t, <1>3 DEF Commit, TakesEffect, Written
  <2>2. Booked(req[r]).donation = "succeeded" <=> IsTest(r)
    BY DEF Booked, IsTest
  <2>3. faults = 0 => (r \in mailed <=> IsTest(r))
    BY <1>3 DEF Commit, TakesEffect, Receipted
  <2> QED
    BY <1>t, <1>3, <2>1, <2>2, <2>3
      DEF Commit, TakesEffect, TypeOK, Receipted, ReceiptsMatch, IsTest, Answered
<1>4. ASSUME NEW r \in Requests, CommitUnheard(r) \/ Fault(r) PROVE Receipted'
  <2>1. faults' # 0 /\ pc'[r] = "500" /\ pc[r] \in InFlight
    BY <1>t, <1>4, MaxFaultsAssumption
      DEF CommitUnheard, TakesEffect, Fault, Abort, TypeOK, InFlight
  <2>2. mailed' \in {mailed, mailed \union {r}} /\ (r \in mailed' => IsTest(r))
    BY <1>t, <1>4 DEF CommitUnheard, Fault, Receipted, Written
  <2>3. \A q \in Requests \ {r} : pc'[q] = pc[q] /\ ledger'[q] = ledger[q]
    BY <1>t, <1>4 DEF CommitUnheard, TakesEffect, Fault, Abort, TypeOK
  <2>4. \A q \in Requests : IsTest(q)' <=> IsTest(q)
    BY <1>4 DEF CommitUnheard, Fault, IsTest
  <2> QED
    BY <1>t, <2>1, <2>2, <2>3, <2>4 DEF TypeOK, Receipted, ReceiptsMatch, Answered
<1>5. CASE Crash
  <2>1. faults' # 0
    BY <1>t, <1>5, MaxFaultsAssumption DEF Crash, TypeOK
  <2> QED
    BY <1>t, <1>5, <2>1
      DEF Crash, TypeOK, Receipted, ReceiptsMatch, IsTest, Answered, InFlight
<1>6. CASE UNCHANGED vars
  BY <1>6 DEF vars, Receipted, ReceiptsMatch, IsTest
<1> QED
  BY <1>1, <1>2, <1>3, <1>4, <1>5, <1>6 DEF Next, Step

\* Unless something failed, the donors who got a receipt are those whose payment
\* is booked, although the mail goes out before the commit.  What the run
\* donations_receipt finds takes a fault.
THEOREM ReceiptsAgree == Spec => []ReceiptsMatch
<1>1. Init => Receipted
  BY DEF Init, Receipted, ReceiptsMatch, Answered
<1>2. Receipted => ReceiptsMatch
  BY DEF Receipted
<1> QED
  BY <1>1, <1>2, ReceiptedNext, Invariance, PTL DEF Spec

-----------------------------------------------------------------------------
(***************************************************************************)
(* What every gift in the database is, by way of GiftBook.                 *)
(***************************************************************************)

\* A gift is in the database with all its rows or with none: no pending
\* subscription that was to be active, no event without its donation.
THEOREM WholeOrNothing ==
  Spec => [](\A r \in Requests : ledger[r] \in {NoRows, Booked(req[r])})
<1> DEFINE Whole == \A r \in Requests : ledger[r] \in {NoRows, Booked(req[r])}
<1>1. Book!Init => Whole
  BY DEF Book!Init, Book!NoRows, NoRows
<1>2. Whole /\ TypeOK /\ [Book!Next]_(Book!vars) => Whole'
  <2> SUFFICES ASSUME Whole, TypeOK, [Book!Next]_(Book!vars)
               PROVE  Whole'
    OBVIOUS
  <2>1. ASSUME NEW r \in Requests, Book!Enter(r)
        PROVE  Whole'
    BY <2>1 DEF Book!Enter, Book!Booked, Booked, TypeOK
  <2>2. ASSUME NEW R \in SUBSET Requests, Book!Fail(R)
        PROVE  Whole'
    BY <2>2 DEF Book!Fail
  <2>3. CASE UNCHANGED Book!vars
    BY <2>3 DEF Book!vars
  <2> QED
    BY <2>1, <2>2, <2>3 DEF Book!Next
<1> QED
  BY <1>1, <1>2, ImplementsBook, TypeCorrect, PTL DEF BookSpec, Book!Spec

\* An answered request is over: nothing it does later changes its answer or its
\* rows.
THEOREM AnswersAreFinal ==
  Spec => [][\A r \in Requests :
               pc[r] \in Answered => pc'[r] = pc[r] /\ ledger'[r] = ledger[r]]_vars
<1> DEFINE Final ==
      \A r \in Requests : pc[r] \in Answered => pc'[r] = pc[r] /\ ledger'[r] = ledger[r]
<1>1. IInv /\ [Next]_vars => [Final]_vars
  <2> SUFFICES ASSUME IInv, Next, NEW r \in Requests, pc[r] \in Answered
               PROVE  pc'[r] = pc[r] /\ ledger'[r] = ledger[r]
    OBVIOUS
  <2>1. pc[r] \notin InFlight
    BY DEF Answered, InFlight
  <2>2. ASSUME NEW q \in Requests, Step(q) \/ CommitUnheard(q) \/ Fault(q)
        PROVE  \E label : Goto(q, label) /\ pc[q] \in InFlight
                          /\ ledger' \in {ledger, [ledger EXCEPT ![q] = work[q]]}
    BY <2>2 DEF Step, Admit, Refuse, SelectDonor, InsertDonor, DonorConflict, ProviderCreates,
                ProviderRaises, InsertSubscription, ActivateSubscription, RecordEvent,
                RecordDonation, MarkProcessed, SendReceipt, FlushConsent, Commit, TakesEffect,
                CommitUnheard, Fault, Abort, Goto, InFlight
  <2>3. CASE Crash
    BY <2>1, <2>3 DEF Crash
  <2>4. CASE \E q \in Requests : Step(q) \/ CommitUnheard(q) \/ Fault(q)
    BY <2>1, <2>2, <2>4 DEF IInv, TypeOK, Goto
  <2> QED
    BY <2>3, <2>4 DEF Next
<1> QED
  BY <1>1, Invariance, PTL DEF Spec

\* A donor never vanishes, and no gift takes back a consent that was given.
THEOREM ConsentIsKept ==
  Spec => [][\A m \in Emails : /\ donors[m] # "absent" => donors'[m] # "absent"
                               /\ donors[m] = "consented" => donors'[m] = "consented"]_vars
<1> DEFINE Kept ==
      \A m \in Emails : /\ donors[m] # "absent" => donors'[m] # "absent"
                        /\ donors[m] = "consented" => donors'[m] = "consented"
<1>1. IInv /\ [Next]_vars => Kept
  <2> SUFFICES ASSUME IInv, [Next]_vars, donors' # donors PROVE Kept
    OBVIOUS
  <2>1. PICK r \in Requests : donors' = [donors EXCEPT ![req[r].email] = DonorAfter(req[r], @)]
    BY DEF Next, Step, Admit, Refuse, SelectDonor, InsertDonor, DonorConflict, ProviderCreates,
           ProviderRaises, InsertSubscription, ActivateSubscription, RecordEvent,
           RecordDonation, MarkProcessed, SendReceipt, FlushConsent, Commit, TakesEffect,
           CommitUnheard, Fault, Crash, vars
  <2> QED
    BY <2>1, EntryFacts DEF IInv, TypeOK
<1> QED
  BY <1>1, Invariance, PTL DEF Spec

\* The newsletter goes to nobody who did not ask for it: a consent on file was
\* given with a gift of that donor that was entered.
THEOREM ConsentWasGiven ==
  Spec => [](\A m \in Emails :
               donors[m] = "consented" =>
                 \E r \in Requests :
                   req[r].email = m /\ req[r].consent /\ ledger[r] = Booked(req[r]))
<1> DEFINE Given ==
      \A m \in Emails :
        donors[m] = "consented" =>
          \E r \in Requests : req[r].email = m /\ req[r].consent /\ ledger[r] = Booked(req[r])
<1>1. Book!Init => Given
  BY DEF Book!Init
<1>2. Given /\ TypeOK /\ [Book!Next]_(Book!vars) => Given'
  <2> SUFFICES ASSUME Given, TypeOK, [Book!Next]_(Book!vars) PROVE Given'
    OBVIOUS
  <2>1. CASE UNCHANGED <<req, donors, ledger>>
    BY <2>1
  <2>2. ASSUME NEW r \in Requests, Book!Enter(r) PROVE Given'
    <3>1. /\ ledger' = [ledger EXCEPT ![r] = Booked(req[r])] /\ req' = req
          /\ donors' = [donors EXCEPT ![req[r].email] = DonorAfter(req[r], @)]
      BY <2>2 DEF Book!Enter, Book!Booked, Booked, Book!DonorAfter, DonorAfter
    <3>2. \A q \in Requests : ledger[q] = Booked(req[q]) => ledger'[q] = Booked(req[q])
      BY <3>1 DEF TypeOK
    <3>3. ledger'[r] = Booked(req[r])
      BY <3>1 DEF TypeOK
    <3>4. \A m \in Emails :
            donors'[m] = "consented" =>
              donors[m] = "consented" \/ (req[r].email = m /\ req[r].consent)
      BY <3>1 DEF TypeOK, DonorAfter
    <3> QED
      BY <3>1, <3>2, <3>3, <3>4
  <2>3. ASSUME NEW R \in SUBSET Requests, Book!Fail(R) PROVE Given'
    BY <2>1, <2>3 DEF Book!Fail
  <2> QED
    BY <2>1, <2>2, <2>3 DEF Book!Next, Book!vars
<1> QED
  BY <1>1, <1>2, ImplementsBook, TypeCorrect, PTL DEF BookSpec, Book!Spec

-----------------------------------------------------------------------------
(***************************************************************************)
(* What the manage page and the webhooks may assume of a gift.             *)
(***************************************************************************)

\* The rail that r asks for is constructed by get_provider.
Constructed(r) == req[r].rail \in Rails /\ GetProvider(Settings, req[r].rail) = "ok"
\* Its create method returns.
Offered(r) == Constructed(r) /\ CanCreate(req[r].kind, req[r].rail)

ThroughARail ==
  \A r \in Requests :
    /\ pc[r] \in InFlight \ {"start"} => Constructed(r)
    /\ pc[r] \in InFlight \ {"start", "select", "insert", "call"} => Offered(r)
    /\ ledger[r] # NoRows => Offered(r)

LEMMA ThroughARailNext == TypeOK /\ ThroughARail /\ [Next]_vars => ThroughARail'
<1> SUFFICES ASSUME TypeOK, ThroughARail, [Next]_vars, NEW r \in Requests
             PROVE  /\ pc'[r] \in InFlight \ {"start"} => Constructed(r)'
                    /\ pc'[r] \in InFlight \ {"start", "select", "insert", "call"} =>
                         Offered(r)'
                    /\ ledger'[r] # NoRows => Offered(r)'
  BY DEF ThroughARail
<1>1. (Constructed(r)' <=> Constructed(r)) /\ (Offered(r)' <=> Offered(r))
  BY DEF Constructed, Offered, Next, Step, Admit, Refuse, SelectDonor, InsertDonor,
         DonorConflict, ProviderCreates, ProviderRaises, InsertSubscription,
         ActivateSubscription, RecordEvent, RecordDonation, MarkProcessed, SendReceipt,
         FlushConsent, Commit, CommitUnheard, Fault, Crash, vars
<1> DEFINE Through == /\ pc'[r] \in InFlight \ {"start"} => Constructed(r)
                      /\ pc'[r] \in InFlight \ {"start", "select", "insert", "call"} => Offered(r)
                      /\ ledger'[r] # NoRows => Offered(r)
<1> SUFFICES Through
  BY <1>1
<1>2. ASSUME pc'[r] = pc[r], ledger'[r] = ledger[r] PROVE Through
  BY <1>2 DEF ThroughARail
<1>3. ASSUME NEW q \in Requests, q # r, Step(q) \/ CommitUnheard(q) \/ Fault(q) PROVE Through
  <2>1. pc'[r] = pc[r] /\ ledger'[r] = ledger[r]
    BY <1>3
      DEF TypeOK, Step, Admit, Refuse, SelectDonor, InsertDonor, DonorConflict, ProviderCreates,
          ProviderRaises, InsertSubscription, ActivateSubscription, RecordEvent,
          RecordDonation, MarkProcessed, SendReceipt, FlushConsent, Commit, TakesEffect,
          CommitUnheard, Fault, Abort, Goto
  <2> QED
    BY <1>2, <2>1
<1>4. CASE Admit(r)
  <2>1. Constructed(r) /\ pc'[r] = "select" /\ ledger' = ledger
    BY <1>4 DEF Admit, Constructed, GetProvider, Goto, TypeOK
  <2> QED
    BY <2>1 DEF ThroughARail
<1>5. CASE Refuse(r) \/ DonorConflict(r) \/ ProviderRaises(r) \/ Fault(r)
  <2>1. pc'[r] \notin InFlight /\ ledger' = ledger
    BY <1>5 DEF Refuse, DonorConflict, ProviderRaises, Fault, Abort, Goto, TypeOK, InFlight
  <2> QED
    BY <2>1 DEF ThroughARail
<1>6. CASE SelectDonor(r) \/ InsertDonor(r)
  <2>1. /\ pc[r] \in InFlight \ {"start"} /\ pc'[r] \in {"insert", "call"}
        /\ ledger' = ledger
    BY <1>6 DEF SelectDonor, InsertDonor, Goto, TypeOK, InFlight
  <2> QED
    BY <2>1 DEF ThroughARail
<1>7. CASE ProviderCreates(r)
  <2>1. Constructed(r) /\ Offered(r) /\ ledger' = ledger
    BY <1>7 DEF ProviderCreates, ThroughARail, InFlight, Offered
  <2> QED
    BY <2>1 DEF ThroughARail
<1>8. CASE \/ InsertSubscription(r) \/ ActivateSubscription(r) \/ RecordEvent(r)
           \/ RecordDonation(r) \/ MarkProcessed(r) \/ SendReceipt(r) \/ FlushConsent(r)
           \/ Commit(r) \/ CommitUnheard(r)
  <2>1. pc[r] \in InFlight \ {"start", "select", "insert", "call"}
    BY <1>8 DEF InsertSubscription, ActivateSubscription, RecordEvent, RecordDonation,
                MarkProcessed, SendReceipt, FlushConsent, Commit, CommitUnheard, TakesEffect,
                InFlight
  <2> QED
    BY <2>1 DEF ThroughARail, Offered
<1>9. CASE Crash
  <2>1. (pc'[r] = pc[r] \/ pc'[r] = "500") /\ ledger' = ledger
    BY <1>9 DEF Crash
  <2> QED
    BY <2>1 DEF ThroughARail, InFlight
<1>10. CASE UNCHANGED vars
  BY <1>2, <1>10 DEF vars
<1> QED
  BY <1>3, <1>4, <1>5, <1>6, <1>7, <1>8, <1>9, <1>10 DEF Next, Step

\* The subscriptions that Manage starts from are those the giving endpoints
\* commit: of a rail that has subscriptions (RailOfAssumption of
\* Subscriptions), pending unless the rail is test (NewRows).
THEOREM OpensAsManageAssumes ==
  Spec => [](\A r \in Requests :
               ledger[r].sub # "none" =>
                 /\ req[r].rail \in {p \in Rails : CanCreate("subscription", p)}
                 /\ ledger[r].sub = IF req[r].rail = "test" THEN "active" ELSE "pending")
<1> DEFINE Whole == \A r \in Requests : ledger[r] \in {NoRows, Booked(req[r])}
<1>1. Init => ThroughARail
  BY DEF Init, ThroughARail
<1>2. TypeOK /\ Whole /\ ThroughARail =>
        \A r \in Requests :
          ledger[r].sub # "none" =>
            /\ req[r].rail \in {p \in Rails : CanCreate("subscription", p)}
            /\ ledger[r].sub = IF req[r].rail = "test" THEN "active" ELSE "pending"
  <2> SUFFICES ASSUME TypeOK, Whole, ThroughARail, NEW r \in Requests, ledger[r].sub # "none"
               PROVE  /\ req[r].rail \in Rails /\ CanCreate("subscription", req[r].rail)
                      /\ ledger[r].sub = IF req[r].rail = "test" THEN "active" ELSE "pending"
    OBVIOUS
  <2>1. ledger[r] # NoRows /\ ledger[r] = Booked(req[r])
    BY DEF NoRows
  <2>2. req[r].kind = "subscription"
    BY <2>1, AskFacts DEF Booked
  <2> QED
    BY <2>1, <2>2 DEF ThroughARail, Offered, Constructed, Booked
<1> QED
  BY <1>1, <1>2, ThroughARailNext, TypeCorrect, WholeOrNothing, PTL DEF Spec

\* A payment is booked by the giving endpoints on the test rail only: that of a
\* real rail waits for a webhook, which no code turns into a donation.
THEOREM OnlyTestIsBooked ==
  Spec => [](\A r \in Requests : ledger[r].donation = "succeeded" => req[r].rail = "test")
<1> DEFINE Whole == \A r \in Requests : ledger[r] \in {NoRows, Booked(req[r])}
<1>1. Whole => \A r \in Requests : ledger[r].donation = "succeeded" => req[r].rail = "test"
  BY DEF Booked, NoRows
<1> QED
  BY <1>1, WholeOrNothing, PTL
=============================================================================
