---------------------------- MODULE ManageProofs ----------------------------
(***************************************************************************)
(* Theorems about Manage, for any subscriptions, donors, links and         *)
(* requests, any deployment and any number of faults.                      *)
(*                                                                         *)
(* The inductive invariant says what a request knows of the row it acts on *)
(* at each point of its handler (Point): that it is a row of its link's    *)
(* donor, whether it has been updated, and that an amount read earlier is  *)
(* still the row's unless another change overtook it.                      *)
(***************************************************************************)
EXTENDS Manage, TLAPS

\* r acts on a subscription that its link names.
HasRow(r) ==
  /\ held[r] \in [sub : Subs, amount : Amounts]
  /\ held[r].sub \in Named(req[r])
  /\ subs[held[r].sub].status # "absent"

Loaded == {"update", "cancel", "row", "mail", "commit"}

Point(r) ==
  /\ pc[r] \in Loaded \/ (pc[r] = "200" /\ req[r].op # "get") => HasRow(r)
  /\ pc[r] = "update" => req[r].op = "patch"
  /\ pc[r] \in {"cancel", "row", "mail"} => req[r].op = "delete"
  /\ pc[r] = "commit" => req[r].op # "get"
  /\ pc[r] = "200" => req[r].link \in Links
  /\ r \in holds => pc[r] \in {"mail", "commit"}
  /\ req[r].op = "delete" /\ pc[r] \in {"mail", "commit"} => r \in holds
  /\ pc[r] \in {"update", "commit"} /\ r \notin holds =>
       subs[held[r].sub].amount = held[r].amount \/ Overtaken(r)
  /\ pc[r] = "commit" /\ r \notin holds => req[r].amount = held[r].amount
  /\ r \in mailed => req[r].op = "delete" /\ pc[r] \in {"commit", "200", "500"}

\* A row that was opened has an amount.
OpenedRows == \A s \in Subs : subs[s].status # "absent" => subs[s].amount \in Amounts

IInv ==
  /\ TypeOK
  /\ OpenedRows
  /\ \A r \in Requests : Point(r)
  /\ CancelIsTrue
  /\ ChangeIsTrue
  /\ FailsOnlyOnFault

-----------------------------------------------------------------------------
LEMMA AskFacts ==
  ASSUME TypeOK, NEW r \in Requests
  PROVE  /\ req[r].op \in {"get", "patch", "delete"}
         /\ req[r].amount \in Amounts
         /\ Named(req[r]) \subseteq Subs
BY AskedAssumption DEF TypeOK, Asks, Named

LEMMA NewRowFacts ==
  ASSUME NEW s \in Subs, NEW row \in NewRows(s)
  PROVE  row \in Rows /\ row.status \in {"active", "pending"} /\ row.amount \in Amounts
BY DEF NewRows, Rows

\* What an UPDATE does to a row.
LEMMA UpdateFacts ==
  ASSUME TypeOK, NEW r \in Requests, NEW row \in Rows
  PROVE  /\ UpdatedRow(r, row) \in Rows
         /\ req[r].op = "patch" =>
              /\ UpdatedRow(r, row).status = row.status
              /\ UpdatedRow(r, row).amount = req[r].amount
         /\ req[r].op # "patch" =>
              /\ UpdatedRow(r, row).status = "cancelled"
              /\ UpdatedRow(r, row).amount = row.amount
BY AskFacts DEF UpdatedRow, ChangedRow, CancelledRow, Rows

LEMMA InitInv == Init => IInv
<1> SUFFICES ASSUME Init PROVE IInv
  OBVIOUS
<1>1. TypeOK
  BY MaxFaultsAssumption DEF Init, Fresh, TypeOK, Rows, NoRow, InFlight
<1>2. OpenedRows /\ CancelIsTrue /\ ChangeIsTrue /\ FailsOnlyOnFault
  BY DEF Init, Fresh, OpenedRows, CancelIsTrue, ChangeIsTrue, FailsOnlyOnFault, NoRow, Answered
<1>3. \A r \in Requests : Point(r)
  BY DEF Init, Fresh, Point, Loaded
<1> QED
  BY <1>1, <1>2, <1>3 DEF IInv

-----------------------------------------------------------------------------
(***************************************************************************)
(* One lemma per way a step can go.                                        *)
(***************************************************************************)

\* An answered change stays one.
LEMMA OvertakenStays ==
  ASSUME TypeOK, NEW r \in Requests, Overtaken(r),
         \A q \in Requests : pc[q] \in Answered => pc'[q] = pc[q] /\ held'[q] = held[q],
         held'[r].sub = held[r].sub,
         faults' \in Nat, faults' >= faults,
         UNCHANGED req
  PROVE  Overtaken(r)'
<1>1. PICK q \in Requests \ {r} :
        /\ req[q].op = "patch" /\ held[q].sub = held[r].sub
        /\ pc[q] = "200" \/ (pc[q] = "500" /\ faults > 0)
  BY DEF Overtaken
<1>2. faults \in Nat
  BY MaxFaultsAssumption DEF TypeOK
<1> QED
  BY <1>1, <1>2 DEF Overtaken, Answered

\* A handler moves on, or answers, without a change to the tables.
LEMMA Moves ==
  ASSUME IInv, NEW r \in Requests, NEW label \in Answered \union InFlight,
         pc[r] \in InFlight, Goto(r, label),
         label = "500" => faults' > 0,
         label # "500" => faults' = faults,
         faults' \in {faults, faults + 1}, faults' \in 0..MaxFaults,
         held' = held \/ (pc[r] = "start"
                          /\ \E h \in [sub : Subs, amount : Amounts] : held' = [held EXCEPT ![r] = h]),
         holds' \subseteq Requests, holds' \ {r} = holds \ {r},
         mailed' \subseteq Requests, mailed' \ {r} = mailed \ {r},
         raised' \subseteq Requests,
         Point(r)',
         label = "200" => req[r].op = "get",
         UNCHANGED <<req, subs, expired, agreement>>
  PROVE  IInv'
<1> USE DEF IInv, Goto
<1>1. TypeOK'
  BY DEF TypeOK
<1>2. OpenedRows'
  BY DEF OpenedRows
<1>3. \A q \in Requests \ {r} : pc'[q] = pc[q] /\ held'[q] = held[q]
  BY DEF TypeOK
<1>4. pc'[r] = label
  BY DEF TypeOK
<1>5. faults \in Nat /\ faults' \in Nat /\ faults' >= faults
  BY MaxFaultsAssumption DEF TypeOK
<1>6. \A q \in Requests : pc[q] \in Answered => pc'[q] = pc[q] /\ held'[q] = held[q]
  BY <1>3 DEF InFlight, Answered
<1>7. \A q \in Requests \ {r} : Overtaken(q) => Overtaken(q)'
  BY <1>3, <1>5, <1>6, OvertakenStays
<1>8. (\A q \in Requests : Point(q))'
  <2> SUFFICES ASSUME NEW q \in Requests \ {r} PROVE Point(q)'
    OBVIOUS
  <2>1. Point(q) /\ (q \in holds' <=> q \in holds) /\ (q \in mailed' <=> q \in mailed)
    OBVIOUS
  <2>2. HasRow(q) => HasRow(q)'
    BY <1>3 DEF HasRow, Named
  <2> QED
    BY <1>3, <1>7, <2>1, <2>2 DEF Point
<1>9. FailsOnlyOnFault'
  BY <1>3, <1>4, <1>5 DEF FailsOnlyOnFault
<1>10. CancelIsTrue'
  <2> SUFFICES ASSUME NEW q \in Requests,
                      \/ req[q].op = "delete" /\ pc'[q] = "200"
                      \/ q \in mailed' /\ pc'[q] \in Answered /\ faults' = 0
               PROVE  subs[held'[q].sub].status = "cancelled"
    BY DEF CancelIsTrue
  <2>1. CASE q = r
    BY <1>4, <2>1 DEF Point, Answered
  <2>2. CASE q # r
    BY <1>3, <1>5, <2>2 DEF CancelIsTrue
  <2> QED
    BY <2>1, <2>2
<1>11. ChangeIsTrue'
  BY <1>3, <1>4, <1>7 DEF ChangeIsTrue
<1> QED
  BY <1>1, <1>2, <1>8, <1>9, <1>10, <1>11

\* COMMIT takes effect, heard of or not.
LEMMA Durable ==
  ASSUME IInv, NEW r \in Requests, TakesEffect(r),
         \/ Goto(r, "200") /\ faults' = faults /\ req[r].link \in Links
         \/ Goto(r, "500") /\ faults' = faults + 1,
         faults' \in 0..MaxFaults,
         UNCHANGED <<req, held, expired, agreement, raised, mailed>>
  PROVE  IInv'
<1> USE DEF IInv, Goto
<1> DEFINE s == held[r].sub
           row == UpdatedRow(r, subs[s])
<1>1. /\ pc[r] = "commit" /\ Point(r) /\ HasRow(r) /\ s \in Subs /\ subs[s] \in Rows
      /\ req[r].op \in {"patch", "delete"} /\ req[r].amount \in Amounts
      /\ row \in Rows /\ subs[s].amount \in Amounts
  BY AskFacts, UpdateFacts DEF OpenedRows, TakesEffect, Point, Loaded, HasRow, TypeOK
<1>2. /\ req[r].op = "patch" => row.status = subs[s].status /\ row.amount = req[r].amount
      /\ req[r].op = "delete" => row.status = "cancelled" /\ row.amount = subs[s].amount
  BY <1>1, UpdateFacts
<1>3. /\ subs' \in [Subs -> Rows]
      /\ r \in holds => subs'[s] = row
      /\ r \notin holds => subs'[s] = subs[s]
      /\ \A t \in Subs \ {s} : subs'[t] = subs[t]
  BY <1>1 DEF TakesEffect, TypeOK
<1>4. TypeOK'
  BY <1>3 DEF TakesEffect, TypeOK, Answered
<1>5. OpenedRows'
  BY <1>1, <1>2, <1>3 DEF OpenedRows
<1>6. /\ \A q \in Requests \ {r} : pc'[q] = pc[q]
      /\ pc'[r] \in {"200", "500"}
      /\ pc'[r] = "500" => faults' > 0
      /\ pc'[r] = "200" => faults' = faults /\ req[r].link \in Links
  BY MaxFaultsAssumption DEF TypeOK
<1>7. faults \in Nat /\ faults' \in Nat /\ faults' >= faults
  BY MaxFaultsAssumption DEF TypeOK
<1>8. \A q \in Requests : Overtaken(q) => Overtaken(q)'
  <2>1. \A q \in Requests : pc[q] \in Answered => pc'[q] = pc[q]
    BY <1>1, <1>6 DEF Answered
  <2> QED
    BY <1>7, <2>1, OvertakenStays
<1>9. req[r].op = "patch" =>
        \A q \in Requests \ {r} : held[q].sub = s => Overtaken(q)'
  BY <1>6 DEF Overtaken
<1>10. \A t \in Subs : /\ subs[t].status # "absent" => subs'[t].status # "absent"
                       /\ subs[t].status = "cancelled" => subs'[t].status = "cancelled"
                       /\ t # s \/ req[r].op = "delete" => subs'[t].amount = subs[t].amount
  BY <1>1, <1>2, <1>3
<1>11. \A q \in Requests : HasRow(q) => HasRow(q)' /\ held[q].sub \in Subs
  BY <1>10, AskFacts DEF HasRow, Named
<1>12. \A q \in Requests \ {r} : Point(q)'
  <2> SUFFICES ASSUME NEW q \in Requests \ {r} PROVE Point(q)'
    OBVIOUS
  <2>1. Point(q) /\ pc'[q] = pc[q] /\ (q \in holds' <=> q \in holds)
    BY <1>6 DEF TakesEffect
  <2>2. ASSUME pc[q] \in {"update", "commit"}, q \notin holds
        PROVE  subs'[held[q].sub].amount = held[q].amount \/ Overtaken(q)'
    BY <1>1, <1>8, <1>9, <1>10, <1>11, <2>1, <2>2 DEF Point, Loaded
  <2> QED
    BY <1>11, <2>1, <2>2 DEF Point
<1>13. Point(r)'
  BY <1>1, <1>6, <1>11 DEF Point, TakesEffect, Loaded
<1>14. FailsOnlyOnFault'
  BY <1>6, <1>7 DEF FailsOnlyOnFault
<1>15. CancelIsTrue'
  <2> SUFFICES ASSUME NEW q \in Requests,
                      \/ req[q].op = "delete" /\ pc'[q] = "200"
                      \/ q \in mailed /\ pc'[q] \in Answered /\ faults' = 0
               PROVE  subs'[held[q].sub].status = "cancelled"
    BY DEF CancelIsTrue
  <2>1. CASE q = r
    BY <1>1, <1>2, <1>3, <1>6, <2>1 DEF Point
  <2>2. CASE q # r
    <3>1. subs[held[q].sub].status = "cancelled"
      BY <1>6, <1>7, <2>2 DEF CancelIsTrue
    <3>2. pc[q] = "200" /\ req[q].op = "delete"
      BY <1>6, <1>7, <2>2 DEF Point, FailsOnlyOnFault, Answered
    <3> QED
      BY <1>10, <1>11, <3>1, <3>2 DEF Point
  <2> QED
    BY <2>1, <2>2
<1>16. ChangeIsTrue'
  <2> SUFFICES ASSUME NEW q \in Requests, req[q].op = "patch", pc'[q] = "200"
               PROVE  subs'[held[q].sub].amount = req[q].amount \/ Overtaken(q)'
    BY DEF ChangeIsTrue
  <2>1. CASE q = r
    BY <1>1, <1>2, <1>3, <1>8, <2>1 DEF Point
  <2>2. CASE q # r
    BY <1>1, <1>6, <1>8, <1>9, <1>10, <1>11, <2>2 DEF ChangeIsTrue, Point
  <2> QED
    BY <2>1, <2>2
<1> QED
  BY <1>4, <1>5, <1>12, <1>13, <1>14, <1>15, <1>16

\* A subscription is opened: nobody acts on it yet.
LEMMA Opens ==
  ASSUME IInv, NEW s \in Subs, Open(s)
  PROVE  IInv'
<1> USE DEF IInv, Open
<1>1. PICK row \in NewRows(s) : subs' = [subs EXCEPT ![s] = row]
  OBVIOUS
<1>2. row \in Rows /\ row.status \in {"active", "pending"} /\ row.amount \in Amounts
  BY NewRowFacts
<1>3. TypeOK'
  BY <1>1, <1>2 DEF TypeOK
<1>4. OpenedRows'
  BY <1>1, <1>2 DEF OpenedRows, TypeOK
<1>5. \A t \in Subs : subs[t].status # "absent" => subs'[t] = subs[t]
  BY <1>1 DEF TypeOK
<1>6. \A q \in Requests : HasRow(q) => HasRow(q)' /\ subs'[held[q].sub] = subs[held[q].sub]
  BY <1>5 DEF HasRow, Named
<1>7. \A q \in Requests : Overtaken(q)' <=> Overtaken(q)
  BY DEF Overtaken
<1>8. (\A q \in Requests : Point(q))'
  BY <1>6, <1>7 DEF Point, Loaded
<1>9. CancelIsTrue'
  <2> SUFFICES ASSUME NEW q \in Requests,
                      \/ req[q].op = "delete" /\ pc[q] = "200"
                      \/ q \in mailed /\ pc[q] \in Answered /\ faults = 0
               PROVE  subs'[held[q].sub].status = "cancelled"
    BY DEF CancelIsTrue
  <2>1. pc[q] = "200" /\ req[q].op = "delete"
    BY DEF Point, FailsOnlyOnFault, Answered
  <2> QED
    BY <1>6, <2>1 DEF CancelIsTrue, Point
<1>10. (ChangeIsTrue /\ FailsOnlyOnFault)'
  BY <1>6, <1>7 DEF ChangeIsTrue, FailsOnlyOnFault, Point
<1> QED
  BY <1>3, <1>4, <1>8, <1>9, <1>10

\* The process dies.
LEMMA Dies ==
  ASSUME IInv, Crash
  PROVE  IInv'
<1> USE DEF IInv, Crash
<1>1. TypeOK'
  BY MaxFaultsAssumption DEF TypeOK, Answered
<1>2. faults \in Nat /\ faults' \in Nat /\ faults' > 0 /\ faults' >= faults
  BY MaxFaultsAssumption DEF TypeOK
<1>3. \A q \in Requests : pc'[q] = pc[q] \/ (pc[q] \in Loaded /\ pc'[q] = "500")
  BY DEF InFlight, Loaded
<1>4. \A q \in Requests : pc'[q] \notin Loaded
  BY <1>1, <1>3 DEF TypeOK, Answered, InFlight, Loaded
<1>5. \A q \in Requests : Overtaken(q) => Overtaken(q)'
  BY <1>2, <1>3, OvertakenStays DEF Answered, Loaded
<1>6. \A q \in Requests : HasRow(q) => HasRow(q)'
  BY DEF HasRow, Named
<1>7. (\A q \in Requests : Point(q))'
  <2> SUFFICES ASSUME NEW q \in Requests PROVE Point(q)'
    OBVIOUS
  <2>1. q \in mailed => req[q].op = "delete" /\ pc'[q] \in {"200", "500"}
    BY <1>3, <1>4 DEF Point, Loaded
  <2> QED
    BY <1>3, <1>4, <1>6, <2>1 DEF Point, Loaded
<1>8. (OpenedRows /\ FailsOnlyOnFault /\ CancelIsTrue)'
  BY <1>2, <1>3 DEF OpenedRows, FailsOnlyOnFault, CancelIsTrue
<1>9. ChangeIsTrue'
  BY <1>3, <1>5 DEF ChangeIsTrue
<1> QED
  BY <1>1, <1>7, <1>8, <1>9

\* A link expires, or a provider starts or ceases to charge: no request notices.
LEMMA Outside ==
  ASSUME IInv, UNCHANGED <<req, pc, subs, held, holds, raised, mailed, faults>>,
         expired' \subseteq Links,
         agreement' \in [Subs -> {"none", "charging", "ended"}]
  PROVE  IInv'
<1>1. TypeOK'
  BY DEF IInv, TypeOK
<1>2. \A q \in Requests : (HasRow(q)' <=> HasRow(q)) /\ (Overtaken(q)' <=> Overtaken(q))
  BY DEF HasRow, Named, Overtaken
<1>3. (\A q \in Requests : Point(q))'
  BY <1>2 DEF IInv, Point
<1>4. (OpenedRows /\ CancelIsTrue /\ ChangeIsTrue /\ FailsOnlyOnFault)'
  BY <1>2 DEF IInv, OpenedRows, CancelIsTrue, ChangeIsTrue, FailsOnlyOnFault
<1> QED
  BY <1>1, <1>3, <1>4 DEF IInv

LEMMA NextInv == IInv /\ [Next]_vars => IInv'
<1> SUFFICES ASSUME IInv, [Next]_vars PROVE IInv'
  OBVIOUS
<1>t. TypeOK /\ faults \in Nat
  BY MaxFaultsAssumption DEF IInv, TypeOK
<1>a. \A r \in Requests : Point(r)
  BY DEF IInv
<1>1. ASSUME NEW r \in Requests, NotFound(r) PROVE IInv'
  <2>1. Point(r)'
    BY <1>t, <1>a, <1>1 DEF NotFound, Goto, Point, TypeOK, Loaded
  <2> QED
    BY <1>t, <1>1, <2>1, Moves DEF NotFound, InFlight, Answered, TypeOK
<1>2. ASSUME NEW r \in Requests, Show(r) PROVE IInv'
  <2>1. Point(r)'
    BY <1>t, <1>a, <1>2 DEF Show, Goto, Point, TypeOK, Loaded, Verified
  <2> QED
    BY <1>t, <1>2, <2>1, Moves DEF Show, InFlight, Answered, TypeOK
<1>3. ASSUME NEW r \in Requests, Load(r) PROVE IInv'
  <2>1. PICK s \in Found(r) :
          held' = [held EXCEPT ![r] = [sub |-> s, amount |-> subs[s].amount]]
    BY <1>3 DEF Load
  <2>2. s \in Named(req[r]) /\ s \in Subs /\ subs[s].status # "absent"
        /\ subs[s].amount \in Amounts
    BY <1>t, AskFacts DEF Found, IInv, OpenedRows
  <2>3. held'[r] = [sub |-> s, amount |-> subs[s].amount]
    BY <1>t, <2>1 DEF TypeOK
  <2>4. HasRow(r)'
    BY <1>3, <2>2, <2>3 DEF Load, HasRow, Named
  <2>5. pc'[r] = IF req[r].op = "patch" THEN "update" ELSE "cancel"
    BY <1>t, <1>3 DEF Load, Goto, TypeOK
  <2>6. Point(r)'
    BY <1>t, <1>a, <1>3, <2>3, <2>4, <2>5, AskFacts DEF Load, Point, Loaded
  <2>7. PICK label \in {"update", "cancel"} : Goto(r, label)
    BY <1>3 DEF Load
  <2>8. \E h \in [sub : Subs, amount : Amounts] : held' = [held EXCEPT ![r] = h]
    BY <2>1, <2>2
  <2> QED
    BY <1>t, <1>3, <2>6, <2>7, <2>8, Moves DEF Load, InFlight, Answered, TypeOK
<1>4. ASSUME NEW r \in Requests, UpdateAmount(r) PROVE IInv'
  <2>1. HasRow(r)' /\ pc'[r] = "commit" /\ (Overtaken(r) => Overtaken(r)')
    <3>1. HasRow(r)' /\ pc'[r] = "commit"
      BY <1>t, <1>a, <1>4 DEF UpdateAmount, HasRow, Named, Point, Loaded, Goto, TypeOK
    <3>2. \A q \in Requests : pc[q] \in Answered => pc'[q] = pc[q]
      BY <1>4 DEF UpdateAmount, Goto, TypeOK, Answered
    <3> QED
      BY <1>t, <1>4, <3>1, <3>2, OvertakenStays DEF UpdateAmount
  <2>2. Point(r)'
    BY <1>a, <1>4, <2>1 DEF UpdateAmount, Point
  <2> QED
    BY <1>t, <1>4, <2>2, Moves DEF UpdateAmount, InFlight, Answered, TypeOK
<1>5. ASSUME NEW r \in Requests, CancelAtProvider(r) PROVE IInv'
  <2>1. Point(r)'
    BY <1>t, <1>a, <1>5 DEF CancelAtProvider, Goto, Point, TypeOK, Loaded, HasRow, Named
  <2>2. raised' \subseteq Requests
    BY <1>t, <1>5 DEF CancelAtProvider, AtProvider, TypeOK
  <2> QED
    BY <1>t, <1>5, <2>1, <2>2, Moves DEF CancelAtProvider, InFlight, Answered, TypeOK
<1>6. ASSUME NEW r \in Requests, CancelRow(r) PROVE IInv'
  <2>1. Point(r)'
    BY <1>t, <1>a, <1>6 DEF CancelRow, Goto, Point, TypeOK, Loaded, HasRow, Named
  <2> QED
    BY <1>t, <1>6, <2>1, Moves DEF CancelRow, InFlight, Answered, TypeOK
<1>7. ASSUME NEW r \in Requests, SendConfirmation(r) PROVE IInv'
  <2>1. Point(r)'
    BY <1>t, <1>a, <1>7 DEF SendConfirmation, Goto, Point, TypeOK, Loaded, HasRow, Named
  <2> QED
    BY <1>t, <1>7, <2>1, Moves DEF SendConfirmation, InFlight, Answered, TypeOK
<1>8. ASSUME NEW r \in Requests, Commit(r) PROVE IInv'
  <2>1. req[r].link \in Links
    BY <1>a, <1>8 DEF Commit, TakesEffect, Point, Loaded, HasRow, Named
  <2> QED
    BY <1>t, <1>8, <2>1, Durable DEF Commit, TypeOK
<1>9. ASSUME NEW r \in Requests, CommitUnheard(r) PROVE IInv'
  BY <1>t, <1>9, MaxFaultsAssumption, Durable DEF CommitUnheard, TypeOK
<1>10. ASSUME NEW r \in Requests, Fault(r) PROVE IInv'
  <2>1. /\ mailed' \subseteq Requests /\ mailed' \ {r} = mailed \ {r}
        /\ r \in mailed' => req[r].op = "delete"
    BY <1>t, <1>a, <1>10 DEF Fault, TypeOK, Point
  <2>2. Point(r)'
    BY <1>t, <1>a, <1>10, <2>1 DEF Fault, Goto, Point, TypeOK, Loaded
  <2>3. faults' = faults + 1 /\ faults' \in 0..MaxFaults
    BY <1>t, <1>10, MaxFaultsAssumption DEF Fault, TypeOK
  <2> QED
    BY <1>t, <1>10, <2>1, <2>2, <2>3, Moves DEF Fault, InFlight, Answered, TypeOK
<1>11. ASSUME NEW s \in Subs, Open(s) PROVE IInv'
  BY <1>11, Opens
<1>12. ASSUME UNCHANGED <<req, pc, subs, held, holds, raised, mailed, faults>>,
              expired' \subseteq Links,
              agreement' \in [Subs -> {"none", "charging", "ended"}]
       PROVE  IInv'
  BY <1>12, Outside
<1>13. ASSUME NEW s \in Subs, Agree(s) \/ End(s) PROVE IInv'
  BY <1>t, <1>12, <1>13 DEF Agree, End, TypeOK
<1>14. ASSUME NEW l \in Links, Expire(l) PROVE IInv'
  BY <1>t, <1>12, <1>14 DEF Expire, TypeOK
<1>15. CASE Crash
  BY <1>15, Dies
<1>16. CASE UNCHANGED vars
  BY <1>t, <1>12, <1>16 DEF vars, TypeOK
<1> QED
  BY <1>1, <1>2, <1>3, <1>4, <1>5, <1>6, <1>7, <1>8, <1>9, <1>10, <1>11, <1>13,
     <1>14, <1>15, <1>16 DEF Next, Step

-----------------------------------------------------------------------------
\* The strengthened invariant holds in every reachable state.
THEOREM Invariance == Spec => []IInv
<1> QED
  BY InitInv, NextInv, PTL DEF Spec

\* Every variable keeps its type.
THEOREM TypeCorrect == Spec => []TypeOK
<1>1. IInv => TypeOK
  BY DEF IInv
<1> QED
  BY <1>1, Invariance, PTL

\* A donor told that the gift is cancelled has it cancelled, for good.
THEOREM CancelsAreTrue == Spec => []CancelIsTrue
<1>1. IInv => CancelIsTrue
  BY DEF IInv
<1> QED
  BY <1>1, Invariance, PTL

\* A donor told that the amount is changed finds it, unless another change of
\* the same gift overtook this one.
THEOREM ChangesAreTrue == Spec => []ChangeIsTrue
<1>1. IInv => ChangeIsTrue
  BY DEF IInv
<1> QED
  BY <1>1, Invariance, PTL

\* Neither the provider nor another request makes the page fail.
THEOREM NoOtherFailure == Spec => []FailsOnlyOnFault
<1>1. IInv => FailsOnlyOnFault
  BY DEF IInv
<1> QED
  BY <1>1, Invariance, PTL

-----------------------------------------------------------------------------
(***************************************************************************)
(* The requests implement Pledges.                                         *)
(***************************************************************************)
Told == [r \in Requests |-> IF pc[r] \in InFlight THEN "none"
                            ELSE IF pc[r] = "200" THEN "done" ELSE "failed"]

LEMMA ViewInit == Init => View!Init
BY AskedAssumption DEF Init, Fresh, View!Init, InFlight, NoRow, View!NoRow, Asks, View!Asks

\* A handler that moves on inside its transaction shows nothing.
LEMMA Invisible ==
  ASSUME TypeOK, NEW r \in Requests, NEW label \in InFlight,
         pc[r] \in InFlight, Goto(r, label), UNCHANGED <<req, subs>>
  PROVE  UNCHANGED View!vars
<1>1. Told' = Told
  BY DEF TypeOK, Told, Goto
<1> QED
  BY <1>1 DEF View!vars, Told

\* An answer: the donor is told that it is done, or that it failed.
LEMMA Telling ==
  ASSUME TypeOK, NEW r \in Requests, NEW label \in Answered,
         pc[r] \in InFlight, Goto(r, label)
  PROVE  /\ Told[r] = "none"
         /\ Told' = [Told EXCEPT ![r] = IF label = "200" THEN "done" ELSE "failed"]
BY DEF TypeOK, Told, Goto, InFlight, Answered

\* An error that leaves nothing behind.
LEMMA Failing ==
  ASSUME TypeOK, NEW r \in Requests, NEW label \in {"404", "500"},
         pc[r] \in InFlight, Goto(r, label), UNCHANGED <<req, subs>>
  PROVE  View!Next
<1>1. Told[r] = "none" /\ Told' = [Told EXCEPT ![r] = "failed"]
  BY Telling DEF Answered
<1>2. Told' = [q \in Requests |-> IF q \in {r} THEN "failed" ELSE Told[q]]
  BY <1>1 DEF Told
<1>3. View!Fail({r})
  BY <1>1, <1>2 DEF View!Fail, Told
<1> QED
  BY <1>3 DEF View!Next

\* A 200 with nothing to write.
LEMMA Agreeing ==
  ASSUME TypeOK, NEW r \in Requests, pc[r] \in InFlight, Goto(r, "200"),
         req[r].op # "delete", req[r].link \in Links, UNCHANGED <<req, subs>>
  PROVE  View!Next
<1>1. Told[r] = "none" /\ Told' = [Told EXCEPT ![r] = "done"]
  BY Telling DEF Answered
<1>2. View!Agree(r)
  BY <1>1 DEF View!Agree, View!Tell, Told
<1> QED
  BY <1>2 DEF View!Next

\* A commit cancels or changes the gift, whatever the donor is told.
LEMMA Committing ==
  ASSUME IInv, NEW r \in Requests, TakesEffect(r), NEW label \in {"200", "500"},
         Goto(r, label), UNCHANGED req
  PROVE  View!Next
<1> DEFINE s == held[r].sub
<1>1. /\ TypeOK /\ pc[r] = "commit" /\ pc[r] \in InFlight
      /\ req[r].op \in {"patch", "delete"}
      /\ s \in Named(req[r]) /\ s \in Subs /\ subs[s].status # "absent"
      /\ req[r].link \in Links
      /\ r \notin holds => req[r].op = "patch"
  BY AskFacts DEF IInv, TakesEffect, Point, Loaded, HasRow, InFlight, Named
<1>2. CASE r \in holds
  <2>1. Told[r] = "none"
        /\ Told' = [Told EXCEPT ![r] = IF label = "200" THEN "done" ELSE "failed"]
    BY <1>1, Telling DEF Answered
  <2>2. \E told \in {"done", "failed"} : View!Tell(r, told)
    BY <2>1 DEF View!Tell, Told
  <2>3. subs' = [subs EXCEPT ![s] = UpdatedRow(r, subs[s])]
    BY <1>2 DEF TakesEffect
  <2>4. s \in View!Named(req[r])
    BY <1>1 DEF Named, View!Named
  <2>5. CASE req[r].op = "delete"
    <3>1. UpdatedRow(r, subs[s]) = View!CancelledRow(subs[s])
      BY <2>5 DEF UpdatedRow, CancelledRow, View!CancelledRow
    <3>2. View!Cancel(r, s)
      BY <1>1, <2>2, <2>3, <2>4, <2>5, <3>1 DEF View!Cancel
    <3> QED
      BY <1>1, <3>2 DEF View!Next
  <2>6. CASE req[r].op = "patch"
    <3>1. UpdatedRow(r, subs[s]) = View!ChangedRow(subs[s], req[r].amount)
      BY <2>6 DEF UpdatedRow, ChangedRow, View!ChangedRow
    <3>2. View!Change(r, s)
      BY <1>1, <2>2, <2>3, <2>4, <2>6, <3>1 DEF View!Change
    <3> QED
      BY <1>1, <3>2 DEF View!Next
  <2> QED
    BY <1>1, <2>5, <2>6
<1>3. CASE r \notin holds
  <2>1. UNCHANGED <<req, subs>>
    BY <1>3 DEF TakesEffect
  <2>2. CASE label = "200"
    BY <1>1, <1>3, <2>1, <2>2, Agreeing
  <2>3. CASE label = "500"
    BY <1>1, <2>1, <2>3, Failing
  <2> QED
    BY <2>2, <2>3
<1> QED
  BY <1>2, <1>3

LEMMA ViewNext == IInv /\ [Next]_vars => [View!Next]_(View!vars)
<1> SUFFICES ASSUME IInv, [Next]_vars PROVE [View!Next]_(View!vars)
  OBVIOUS
<1>t. TypeOK
  BY DEF IInv
<1>1. ASSUME NEW r \in Requests,
             \/ Load(r) \/ UpdateAmount(r) \/ CancelAtProvider(r) \/ CancelRow(r)
             \/ SendConfirmation(r)
      PROVE  UNCHANGED View!vars
  <2>1. \E label \in InFlight : Goto(r, label)
    BY <1>1 DEF Load, UpdateAmount, CancelAtProvider, CancelRow, SendConfirmation, InFlight
  <2>2. pc[r] \in InFlight /\ UNCHANGED <<req, subs>>
    BY <1>1 DEF Load, UpdateAmount, CancelAtProvider, CancelRow, SendConfirmation, InFlight
  <2> QED
    BY <1>t, <2>1, <2>2, Invisible
<1>2. ASSUME NEW r \in Requests, NotFound(r) \/ Fault(r) PROVE View!Next
  <2>1. pc[r] \in InFlight /\ UNCHANGED <<req, subs>> /\ (Goto(r, "404") \/ Goto(r, "500"))
    BY <1>2 DEF NotFound, Fault, InFlight
  <2> QED
    BY <1>t, <2>1, Failing
<1>3. ASSUME NEW r \in Requests, Show(r) PROVE View!Next
  BY <1>t, <1>3, Agreeing DEF Show, Verified, InFlight
<1>4. ASSUME NEW r \in Requests, Commit(r) \/ CommitUnheard(r) PROVE View!Next
  BY <1>4, Committing DEF Commit, CommitUnheard
<1>5. ASSUME NEW s \in Subs, Open(s) PROVE View!Next
  <2>1. NewRows(s) = View!NewRows(s)
    BY DEF NewRows, View!NewRows
  <2>2. View!Open(s)
    BY <1>5, <2>1 DEF Open, View!Open
  <2> QED
    BY <2>2 DEF View!Next
<1>6. ASSUME UNCHANGED <<req, subs, pc>> PROVE UNCHANGED View!vars
  BY <1>6 DEF View!vars
<1>7. ASSUME NEW s \in Subs, Agree(s) \/ End(s) PROVE UNCHANGED View!vars
  BY <1>6, <1>7 DEF Agree, End
<1>8. ASSUME NEW l \in Links, Expire(l) PROVE UNCHANGED View!vars
  BY <1>6, <1>8 DEF Expire
<1>9. CASE Crash
  <2>1. PICK R \in SUBSET Requests :
          \A r \in Requests : r \in R <=> pc[r] \in InFlight \ {"start"}
    <3>1. {r \in Requests : pc[r] \in InFlight \ {"start"}} \in SUBSET Requests
      OBVIOUS
    <3> QED
      BY <3>1
  <2>2. \A r \in R : Told[r] = "none"
    BY <2>1 DEF Told
  <2>3. Told' = [r \in Requests |-> IF r \in R THEN "failed" ELSE Told[r]]
    BY <1>9, <1>t, <2>1 DEF Crash, TypeOK, Told, InFlight
  <2>4. View!Fail(R)
    BY <1>9, <2>2, <2>3 DEF Crash, View!Fail, Told
  <2> QED
    BY <2>4 DEF View!Next
<1>10. CASE UNCHANGED vars
  BY <1>6, <1>10 DEF vars
<1> QED
  BY <1>1, <1>2, <1>3, <1>4, <1>5, <1>7, <1>8, <1>9, <1>10 DEF Next, Step

\* Every behaviour of the manage page is one Pledges allows: a gift changes by
\* one step of a request that holds its donor's link, and a cancelled gift
\* stays cancelled.
THEOREM ImplementsPledges == Spec => PledgeSpec
<1> QED
  BY ViewInit, ViewNext, Invariance, PTL DEF Spec, PledgeSpec, View!Spec

-----------------------------------------------------------------------------
(***************************************************************************)
(* What may happen to a row.                                               *)
(***************************************************************************)

\* A step that changes the table opens a subscription or commits a request.
LEMMA TableStep ==
  ASSUME [Next]_vars, subs' # subs
  PROVE  \/ \E s \in Subs : Open(s)
         \/ \E r \in Requests :
              /\ TakesEffect(r) /\ r \in holds
              /\ \E label \in {"200", "500"} : Goto(r, label)
BY DEF Next, Step, NotFound, Show, Load, UpdateAmount, CancelAtProvider, CancelRow,
       SendConfirmation, Commit, TakesEffect, CommitUnheard, Fault, Agree, End, Expire, Crash, vars

\* The row after a step, if it was there before.
LEMMA RowStep ==
  ASSUME IInv, [Next]_vars, NEW s \in Subs, subs[s].status # "absent", subs'[s] # subs[s]
  PROVE  \E r \in Requests :
           /\ pc[r] = "commit" /\ pc'[r] \in {"200", "500"}
           /\ s \in Named(req[r])
           /\ subs'[s] = UpdatedRow(r, subs[s])
<1>1. ~\E t \in Subs : Open(t)
  <2> SUFFICES ASSUME NEW t \in Subs, Open(t) PROVE FALSE
    OBVIOUS
  <2>1. PICK row \in NewRows(t) : subs' = [subs EXCEPT ![t] = row]
    BY DEF Open
  <2>2. t = s
    BY <2>1 DEF IInv, TypeOK
  <2> QED
    BY <2>2 DEF Open
<1>2. PICK r \in Requests : /\ TakesEffect(r) /\ r \in holds
                            /\ \E label \in {"200", "500"} : Goto(r, label)
  BY <1>1, TableStep
<1>3. subs' = [subs EXCEPT ![held[r].sub] = UpdatedRow(r, @)] /\ pc[r] = "commit"
  BY <1>2 DEF TakesEffect
<1>4. held[r].sub \in Named(req[r])
  BY <1>3 DEF IInv, Point, Loaded, HasRow
<1>5. held[r].sub = s /\ subs'[s] = UpdatedRow(r, subs[s])
  BY <1>3 DEF IInv, TypeOK
<1>6. pc'[r] \in {"200", "500"}
  BY <1>2 DEF IInv, TypeOK, Goto
<1> QED
  BY <1>3, <1>4, <1>5, <1>6

\* A row, once there, changes only by the commit of a request whose link is of
\* its donor and neither forged nor made up; and then it is cancelled, or has
\* the amount that was asked for, and nothing else about it changes.
THEOREM OnlyByItsDonor ==
  Spec => [][\A s \in Subs :
               subs[s].status # "absent" /\ subs'[s] # subs[s] =>
                 \E r \in Requests :
                   /\ pc[r] = "commit" /\ pc'[r] \in {"200", "500"}
                   /\ req[r].link \in Links /\ LinkDonor[req[r].link] = DonorOf[s]
                   /\ \/ req[r].op = "delete" /\ subs'[s] = CancelledRow(subs[s])
                      \/ req[r].op = "patch" /\ subs'[s] = ChangedRow(subs[s], req[r].amount)]_vars
<1> DEFINE ByItsDonor ==
      \A s \in Subs :
        subs[s].status # "absent" /\ subs'[s] # subs[s] =>
          \E r \in Requests :
            /\ pc[r] = "commit" /\ pc'[r] \in {"200", "500"}
            /\ req[r].link \in Links /\ LinkDonor[req[r].link] = DonorOf[s]
            /\ \/ req[r].op = "delete" /\ subs'[s] = CancelledRow(subs[s])
               \/ req[r].op = "patch" /\ subs'[s] = ChangedRow(subs[s], req[r].amount)
<1>1. IInv /\ [Next]_vars => ByItsDonor
  <2> SUFFICES ASSUME IInv, [Next]_vars, NEW s \in Subs,
                      subs[s].status # "absent", subs'[s] # subs[s]
               PROVE  \E r \in Requests :
                        /\ pc[r] = "commit" /\ pc'[r] \in {"200", "500"}
                        /\ req[r].link \in Links /\ LinkDonor[req[r].link] = DonorOf[s]
                        /\ \/ req[r].op = "delete" /\ subs'[s] = CancelledRow(subs[s])
                           \/ /\ req[r].op = "patch"
                              /\ subs'[s] = ChangedRow(subs[s], req[r].amount)
    OBVIOUS
  <2>1. PICK r \in Requests :
          /\ pc[r] = "commit" /\ pc'[r] \in {"200", "500"}
          /\ s \in Named(req[r])
          /\ subs'[s] = UpdatedRow(r, subs[s])
    BY RowStep
  <2>2. req[r].link \in Links /\ LinkDonor[req[r].link] = DonorOf[s]
    BY <2>1 DEF Named
  <2>3. req[r].op \in {"patch", "delete"}
    BY <2>1, AskFacts DEF IInv, Point
  <2> QED
    BY <2>1, <2>2, <2>3 DEF UpdatedRow
<1> QED
  BY <1>1, Invariance, PTL DEF Spec

\* A cancelled row stays cancelled: no change of the amount that read it before
\* brings it back.
LEMMA CancelledStays ==
  ASSUME IInv, [Next]_vars, NEW s \in Subs, subs[s].status = "cancelled"
  PROVE  subs'[s].status = "cancelled"
<1> SUFFICES ASSUME subs'[s] # subs[s] PROVE subs'[s].status = "cancelled"
  OBVIOUS
<1>1. PICK r \in Requests : subs'[s] = UpdatedRow(r, subs[s])
  BY RowStep
<1> QED
  BY <1>1, UpdateFacts DEF IInv, TypeOK

\* A donor who cancelled is rid of the gift for good: no sequence of changes, late
\* commits or faults brings the row back (subscriptions.py:52, ledger.py:101-104).
THEOREM CancelledForGood ==
  Spec => \A s \in Subs : [](subs[s].status = "cancelled" => [](subs[s].status = "cancelled"))
<1> SUFFICES ASSUME NEW s \in Subs
             PROVE  Spec => [](subs[s].status = "cancelled" => [](subs[s].status = "cancelled"))
  OBVIOUS
<1> DEFINE Gone == subs[s].status = "cancelled"
<1>1. IInv /\ Gone /\ [Next]_vars => Gone'
  BY CancelledStays
<1> HIDE DEF Gone
<1>2. Spec => [](Gone => []Gone)
  BY <1>1, Invariance, PTL DEF Spec
<1> QED
  BY <1>2 DEF Gone

-----------------------------------------------------------------------------
(***************************************************************************)
(* One click, and the locks.                                               *)
(***************************************************************************)

\* A request that is not loaded, or found nothing, holds no row.
EmptyHanded == \A r \in Requests : pc[r] \in {"start", "404"} => held[r] = Nothing

LEMMA EmptyHandedNext == TypeOK /\ EmptyHanded /\ [Next]_vars => EmptyHanded'
<1> SUFFICES ASSUME TypeOK, EmptyHanded, [Next]_vars, NEW r \in Requests,
                    pc'[r] \in {"start", "404"}
             PROVE  held'[r] = Nothing
  BY DEF EmptyHanded
<1>1. ASSUME NEW q \in Requests,
             \/ NotFound(q) \/ Show(q) \/ UpdateAmount(q) \/ CancelAtProvider(q) \/ CancelRow(q)
             \/ SendConfirmation(q) \/ Commit(q) \/ CommitUnheard(q) \/ Fault(q)
      PROVE  held'[r] = held[r] /\ pc[r] \in {"start", "404"}
  BY <1>1 DEF TypeOK, NotFound, Show, UpdateAmount, CancelAtProvider, CancelRow,
              SendConfirmation, Commit, CommitUnheard, TakesEffect, Fault, Goto
<1>2. ASSUME NEW q \in Requests, Load(q)
      PROVE  held'[r] = held[r] /\ pc[r] \in {"start", "404"}
  BY <1>2 DEF TypeOK, Load, Goto
<1>3. ASSUME (\E s \in Subs : Open(s) \/ Agree(s) \/ End(s)) \/ (\E l \in Links : Expire(l))
      PROVE  held' = held /\ pc' = pc
  BY <1>3 DEF Open, Agree, End, Expire
<1>4. CASE Crash
  BY <1>4 DEF Crash, EmptyHanded
<1>5. CASE UNCHANGED vars
  BY <1>5 DEF vars, EmptyHanded
<1> QED
  BY <1>1, <1>2, <1>3, <1>4, <1>5 DEF Next, Step, EmptyHanded

\* "Cancellation must work in one click", the part that needs no fairness: an
\* answered DELETE has cancelled the gift it found, whatever the provider did and
\* whoever else changed the gift, unless something failed.
THEOREM OneClickUnlessFault ==
  Spec => [](faults = 0 =>
               \A r \in Requests :
                 req[r].op = "delete" /\ pc[r] \in Answered /\ held[r] # Nothing =>
                   subs[held[r].sub].status = "cancelled")
<1> DEFINE OneClick ==
      faults = 0 =>
        \A r \in Requests :
          req[r].op = "delete" /\ pc[r] \in Answered /\ held[r] # Nothing =>
            subs[held[r].sub].status = "cancelled"
<1>1. Init => EmptyHanded
  BY DEF Init, Fresh, EmptyHanded
<1>2. IInv /\ EmptyHanded => OneClick
  BY DEF IInv, EmptyHanded, CancelIsTrue, FailsOnlyOnFault, Answered
<1> QED
  BY <1>1, <1>2, EmptyHandedNext, Invariance, TypeCorrect, PTL DEF Spec

\* No two open transactions have updated the same row.
OneWriterPerRow == \A q, r \in holds : held[q].sub = held[r].sub => q = r

LEMMA OneWriterNext == IInv /\ OneWriterPerRow /\ [Next]_vars => OneWriterPerRow'
<1> SUFFICES ASSUME IInv, OneWriterPerRow, [Next]_vars PROVE OneWriterPerRow'
  OBVIOUS
<1>1. ASSUME NEW r \in Requests, Load(r) PROVE OneWriterPerRow'
  <2>1. r \notin holds
    BY <1>1 DEF Load, IInv, Point
  <2> QED
    BY <1>1, <2>1 DEF Load, OneWriterPerRow, IInv, TypeOK
<1>2. ASSUME NEW r \in Requests, UpdateAmount(r) \/ CancelRow(r) PROVE OneWriterPerRow'
  BY <1>2 DEF UpdateAmount, CancelRow, Locked, OneWriterPerRow
<1>3. ASSUME held' = held, holds' \subseteq holds PROVE OneWriterPerRow'
  BY <1>3 DEF OneWriterPerRow
<1>4. ASSUME NEW r \in Requests,
             \/ NotFound(r) \/ Show(r) \/ CancelAtProvider(r) \/ SendConfirmation(r)
             \/ Commit(r) \/ CommitUnheard(r) \/ Fault(r)
      PROVE  held' = held /\ holds' \subseteq holds
  BY <1>4 DEF NotFound, Show, CancelAtProvider, SendConfirmation, Commit, CommitUnheard,
              TakesEffect, Fault
<1>5. ASSUME \/ \E s \in Subs : Open(s) \/ Agree(s) \/ End(s)
             \/ \E l \in Links : Expire(l)
             \/ Crash
             \/ UNCHANGED vars
      PROVE  held' = held /\ holds' \subseteq holds
  BY <1>5 DEF Open, Agree, End, Expire, Crash, vars
<1> QED
  BY <1>1, <1>2, <1>3, <1>4, <1>5 DEF Next, Step

\* The row lock keeps writers apart, and whoever has it waits for nobody: it has
\* only the confirmation to send and the commit before it, so that nobody waits
\* for a provider.
THEOREM WritersExclude ==
  Spec => [](/\ OneWriterPerRow
             /\ \A q \in holds : pc[q] \in {"mail", "commit"})
<1>1. Init => OneWriterPerRow
  BY DEF Init, Fresh, OneWriterPerRow
<1>2. IInv => \A q \in holds : pc[q] \in {"mail", "commit"}
  BY DEF IInv, TypeOK, Point
<1> QED
  BY <1>1, <1>2, OneWriterNext, Invariance, PTL DEF Spec

\* r's next statement waits for another transaction to end.
Waits(r) ==
  /\ Locked(r)
  /\ pc[r] = "row" \/ (pc[r] = "update" /\ req[r].amount # held[r].amount)

\* Requests are never all stuck: while one is unanswered, one is that waits for no
\* row.
THEOREM SomebodyMoves ==
  Spec => []((\E r \in Requests : pc[r] \in InFlight) =>
               \E r \in Requests : pc[r] \in InFlight /\ ~Waits(r))
<1>1. IInv /\ (\A q \in holds : pc[q] \in {"mail", "commit"}) =>
        ((\E r \in Requests : pc[r] \in InFlight) =>
           \E r \in Requests : pc[r] \in InFlight /\ ~Waits(r))
  <2> SUFFICES ASSUME IInv, \A q \in holds : pc[q] \in {"mail", "commit"},
                      NEW r \in Requests, pc[r] \in InFlight, Waits(r)
               PROVE  \E q \in Requests : pc[q] \in InFlight /\ ~Waits(q)
    OBVIOUS
  <2>1. PICK q \in holds : pc[q] \in {"mail", "commit"}
    BY DEF Waits, Locked
  <2> QED
    BY <2>1 DEF Waits, InFlight, IInv, TypeOK
<1> QED
  BY <1>1, WritersExclude, Invariance, PTL

\* How many statements a request at this point has before it, at most.
Left(label) ==
  CASE label = "start" -> 5 [] label = "cancel" -> 4 [] label = "row" -> 3
    [] label \in {"update", "mail"} -> 2 [] label = "commit" -> 1
    [] OTHER -> 0

LEMMA LeftFacts ==
  /\ Left("start") = 5 /\ Left("cancel") = 4 /\ Left("row") = 3 /\ Left("update") = 2
  /\ Left("mail") = 2 /\ Left("commit") = 1
  /\ Left("200") = 0 /\ Left("404") = 0 /\ Left("500") = 0
BY DEF Left

\* No request turns back: each of its statements brings it nearer to its answer,
\* and nothing else does the contrary, so that it takes at most five
\* (subscriptions.py:32-80).
THEOREM OnlyForward ==
  Spec => [][\A r \in Requests : /\ Left(pc'[r]) <= Left(pc[r])
                                 /\ Step(r) => Left(pc'[r]) < Left(pc[r])]_vars
<1> DEFINE Forward == \A r \in Requests : /\ Left(pc'[r]) <= Left(pc[r])
                                          /\ Step(r) => Left(pc'[r]) < Left(pc[r])
<1>1. ASSUME IInv, [Next]_vars PROVE [Forward]_vars
  <2>t. /\ pc \in [Requests -> Answered \union InFlight]
        /\ pc' \in [Requests -> Answered \union InFlight]
    BY <1>1, NextInv DEF IInv, TypeOK
  <2>n. \A label \in Answered \union InFlight : Left(label) \in 0..5
    BY LeftFacts DEF Answered, InFlight
  <2>1. ASSUME NEW q \in Requests, Step(q) \/ CommitUnheard(q) \/ Fault(q)
        PROVE  /\ Left(pc'[q]) < Left(pc[q])
               /\ \A r \in Requests \ {q} : pc'[r] = pc[r]
    <3>1. CASE NotFound(q) \/ Show(q) \/ Load(q)
      BY <2>t, <3>1, LeftFacts DEF NotFound, Show, Load, Goto
    <3>2. CASE UpdateAmount(q) \/ CancelAtProvider(q) \/ CancelRow(q) \/ SendConfirmation(q)
      BY <2>t, <3>2, LeftFacts
      DEF UpdateAmount, CancelAtProvider, CancelRow, SendConfirmation, Goto
    <3>3. CASE Commit(q) \/ CommitUnheard(q)
      BY <2>t, <3>3, LeftFacts DEF Commit, CommitUnheard, TakesEffect, Goto
    <3>4. CASE Fault(q)
      BY <2>t, <3>4, LeftFacts DEF Fault, Goto, InFlight
    <3> QED
      BY <2>1, <3>1, <3>2, <3>3, <3>4 DEF Step
  <2>2. \A r \in Requests : Step(r) => Left(pc'[r]) < Left(pc[r])
    BY <2>1
  <2>3. ASSUME NEW r \in Requests, Next PROVE Left(pc'[r]) <= Left(pc[r])
    <3>1. /\ Left(pc[r]) \in 0..5 /\ Left(pc'[r]) \in 0..5
          /\ pc[r] \in Answered \union InFlight
      BY <2>n, <2>t
    <3>2. CASE \E q \in Requests : Step(q) \/ CommitUnheard(q) \/ Fault(q)
      BY <2>1, <3>1, <3>2
    <3>3. CASE \/ \E s \in Subs : Open(s) \/ Agree(s) \/ End(s)
               \/ \E l \in Links : Expire(l)
      BY <3>1, <3>3 DEF Open, Agree, End, Expire
    <3>4. CASE Crash
      <4>1. pc'[r] = pc[r] \/ pc'[r] = "500"
        BY <3>4 DEF Crash
      <4> QED
        BY <3>1, <4>1, LeftFacts
    <3> QED
      BY <2>3, <3>2, <3>3, <3>4 DEF Next
  <2> QED
    BY <1>1, <2>2, <2>3
<1> HIDE DEF Forward
<1>2. Spec => [][Forward]_vars
  BY <1>1, Invariance, PTL DEF Spec
<1> QED
  BY <1>2 DEF Forward
=============================================================================
