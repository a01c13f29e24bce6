--------------------------- MODULE ConsentProofs ---------------------------
(***************************************************************************)
(* Theorems about Consent, for any number of requests and donors, any mix  *)
(* of requests, any earlier rows and any number of faults.                 *)
(*                                                                         *)
(* The inductive invariant says what a request knows of its donor's row at *)
(* each point of its handler (Point), where a row's record comes from      *)
(* (Recorded), and why an INSERT can find the donor there (RivalWon).      *)
(***************************************************************************)
EXTENDS Consent, TLAPS

Email(r) == req[r].email

\* A consent that went through.
Gave(p, m) == Consenting(req[p]) /\ req[p].email = m /\ pc[p] \in {"200", "500"}

\* What a request knows of its donor's row.
Point(r) ==
  /\ r \in holds => pc[r] \in {"call", "update", "commit"}
  /\ seen[r].at # r
  /\ pc[r] = "insert" => ~seen[r].there /\ req[r].op \in Gives \union {"subscribe"}
  /\ pc[r] = "call" => req[r].op \in Gives
  /\ pc[r] = "ask" => seen[r].there
  /\ (pc[r] \in {"call", "update", "commit"} /\ ~seen[r].there) =>
       /\ r \in holds
       /\ req[r].op \in Gives \union {"subscribe"}
       /\ ~donors[Email(r)].there
  /\ (pc[r] \in InFlight \ {"select"} /\ seen[r].there) =>
       /\ donors[Email(r)].there
       /\ seen[r].source # Unset => donors[Email(r)].source # Unset
       /\ \/ donors[Email(r)].source = seen[r].source
          \/ \E p \in Requests : Gave(p, Email(r)) /\ donors[Email(r)].source = SourceOf(req[p])

\* Where the record in a row comes from.
Recorded(m) ==
  /\ donors[m].at \in Requests => Gave(donors[m].at, m)
  /\ donors[m].on => donors[m].at # Unset /\ donors[m].source # Unset

OneWriter == \A q, r \in holds : req[q].email = req[r].email => q = r

\* As long as nothing failed, an INSERT that finds its donor there lost to a
\* request that went through.
RivalWon ==
  faults = 0 =>
    \A r \in Requests :
      (pc[r] = "insert" /\ donors[Email(r)].there) =>
        \E q \in Requests :
          /\ req[q].email = Email(r) /\ req[q].op \in Gives \union {"subscribe"}
          /\ pc[q] = "200"

IInv ==
  /\ TypeOK
  /\ \A r \in Requests : Point(r)
  /\ \A m \in Emails : Recorded(m)
  /\ OneWriter
  /\ TornOnlyByOvertaking
  /\ RivalWon
  /\ RefusedOnlyToARival

-----------------------------------------------------------------------------
LEMMA AskFacts ==
  ASSUME TypeOK, NEW r \in Requests
  PROVE  /\ req[r] \in Asks
         /\ req[r].email \in Emails
         /\ donors[req[r].email] \in Rows
         /\ seen[r] \in Rows
BY AskedAssumption DEF TypeOK, Asks

LEMMA SourceFacts == \A a : SourceOf(a) \in Sources
BY DEF SourceOf, Sources

LEMMA RowFacts ==
  /\ NoRow \in Rows /\ NewRow \in Rows
  /\ \A row \in EarlierRows :
       /\ row \in Rows
       /\ row.at \notin Requests
       /\ row.on => row.at # Unset /\ row.source # Unset
<1>1. NoRow \in Rows /\ NewRow \in Rows
  BY DEF NoRow, NewRow, Rows
<1>2. ASSUME NEW row \in [there : {TRUE}, on : BOOLEAN, at : {Earlier}, source : Sources]
      PROVE  /\ row \in Rows /\ row.at \notin Requests
             /\ row.at # Unset /\ row.source # Unset
  <2>1. row.at = Earlier /\ row.source \in Sources
    OBVIOUS
  <2>2. row.at # Unset /\ row.source # Unset /\ row.at \notin Requests
    BY <2>1, UnsetAssumption, EarlierAssumption
  <2>3. row \in Rows
    BY <1>2 DEF Rows
  <2> QED
    BY <2>2, <2>3
<1>3. \A row \in {NoRow, NewRow} : ~row.on /\ row.at \notin Requests
  BY UnsetAssumption DEF NoRow, NewRow
<1> QED
  BY <1>1, <1>2, <1>3 DEF EarlierRows

\* The columns a flush writes.
LEMMA FlushFields ==
  ASSUME NEW r, NEW row \in Rows, NEW instance \in Rows
  PROVE  /\ Flush(r, row, instance) \in Rows
         /\ \A c \in {"there", "on", "at", "source"} :
              Flush(r, row, instance)[c] =
                IF ~seen[r].there \/ Loaded(r)[c] # instance[c] THEN instance[c] ELSE row[c]
<1> DEFINE new == Flush(r, row, instance)
<1>1. DOMAIN row = {"there", "on", "at", "source"}
  BY DEF Rows
<1>2. \A c \in {"there", "on", "at", "source"} :
        new[c] = IF ~seen[r].there \/ Loaded(r)[c] # instance[c] THEN instance[c] ELSE row[c]
  BY <1>1 DEF Flush
<1>3. new = [there |-> new.there, on |-> new.on, at |-> new.at, source |-> new.source]
  BY <1>1 DEF Flush
<1>4. /\ new.there \in BOOLEAN
      /\ new.on \in BOOLEAN
      /\ new.at \in Requests \union {Unset, Earlier}
      /\ new.source \in Sources \union {Unset}
  BY <1>2 DEF Rows
<1> QED
  BY <1>2, <1>3, <1>4 DEF Rows

\* What r's commit makes of its donor's row.
Old(r) == donors[Email(r)]
New(r) == Written(r, Old(r))

LEMMA WrittenRow ==
  ASSUME TypeOK, NEW r \in Requests, Point(r), pc[r] = "commit"
  PROVE  /\ Old(r) \in Rows /\ New(r) \in Rows
         /\ Loaded(r) \in Rows /\ Wanted(r) \in Rows
         /\ Loaded(r).there
         /\ seen[r].there => Old(r).there
         /\ New(r).there = IF ~seen[r].there \/ Loaded(r).there # Wanted(r).there
                           THEN Wanted(r).there ELSE Old(r).there
         /\ New(r).on = IF ~seen[r].there \/ Loaded(r).on # Wanted(r).on
                        THEN Wanted(r).on ELSE Old(r).on
         /\ New(r).at = IF ~seen[r].there \/ Loaded(r).at # Wanted(r).at
                        THEN Wanted(r).at ELSE Old(r).at
         /\ New(r).source = IF ~seen[r].there \/ Loaded(r).source # Wanted(r).source
                            THEN Wanted(r).source ELSE Old(r).source
<1>1. Old(r) \in Rows /\ Loaded(r) \in Rows
  BY AskFacts, RowFacts DEF Email, Loaded, Old
<1>2. Wanted(r) \in Rows
  BY <1>1, SourceFacts DEF Wanted, Assigned, Rows
<1>3. seen[r].there => Old(r).there
  BY DEF Point, InFlight, Old
<1>4. Loaded(r).there
  BY AskFacts DEF Loaded, NewRow, Rows
<1> QED
  BY <1>1, <1>2, <1>3, <1>4, FlushFields DEF New, Written

\* The commit of a consent.
LEMMA ConsentWritten ==
  ASSUME TypeOK, NEW r \in Requests, Point(r), pc[r] = "commit", Consenting(req[r])
  PROVE  /\ New(r).there
         /\ New(r).at = r
         /\ New(r).source = IF seen[r].there /\ seen[r].source = SourceOf(req[r])
                            THEN Old(r).source ELSE SourceOf(req[r])
         /\ New(r).on <=> (seen[r].there /\ seen[r].on => Old(r).on)
<1>1. Wanted(r) = [there |-> TRUE, on |-> TRUE, at |-> r, source |-> SourceOf(req[r])]
  BY DEF Wanted, Assigned
<1>2. Loaded(r).at # r
  BY UnsetAssumption DEF Loaded, NewRow, Point
<1>3. ~seen[r].there => Loaded(r).source # SourceOf(req[r]) /\ ~Loaded(r).on
  BY UnsetAssumption, SourceFacts DEF Loaded, NewRow
<1>4. seen[r].there => Loaded(r) = seen[r]
  BY DEF Loaded
<1>5. New(r).there /\ New(r).at = r
  BY <1>1, <1>2, WrittenRow
<1>6. New(r).source = IF seen[r].there /\ seen[r].source = SourceOf(req[r])
                     THEN Old(r).source ELSE SourceOf(req[r])
  BY <1>1, <1>3, <1>4, WrittenRow
<1>7. New(r).on <=> (seen[r].there /\ seen[r].on => Old(r).on)
  <2>1. Loaded(r).on \in BOOLEAN /\ Old(r).on \in BOOLEAN /\ Wanted(r).on = TRUE
    BY <1>1, WrittenRow DEF Rows
  <2>2. New(r).on = IF ~seen[r].there \/ Loaded(r).on # TRUE THEN TRUE ELSE Old(r).on
    BY <2>1, WrittenRow
  <2>3. CASE seen[r].there /\ seen[r].on
    <3>1. Loaded(r).on
      BY <1>4, <2>3
    <3>2. New(r).on = Old(r).on
      BY <2>1, <2>2, <2>3, <3>1
    <3> QED
      BY <2>3, <3>2
  <2>4. CASE ~(seen[r].there /\ seen[r].on)
    <3>1. ~Loaded(r).on
      BY <1>3, <1>4, <2>4
    <3> QED
      BY <2>2, <2>4, <3>1
  <2> QED
    BY <2>3, <2>4
<1> QED
  BY <1>5, <1>6, <1>7

\* Any other commit.
LEMMA OtherWritten ==
  ASSUME TypeOK, NEW r \in Requests, Point(r), pc[r] = "commit", ~Consenting(req[r])
  PROVE  /\ New(r).there
         /\ seen[r].there => New(r).at = Old(r).at /\ New(r).source = Old(r).source
         /\ ~seen[r].there => New(r).at = Unset /\ New(r).source = Unset /\ ~New(r).on
         /\ (req[r].op = "unsubscribe" /\ seen[r].there /\ seen[r].on) => ~New(r).on
         /\ (seen[r].there /\ ~(req[r].op = "unsubscribe" /\ seen[r].on)) =>
              New(r).on = Old(r).on
<1>1. Wanted(r) = IF req[r].op = "unsubscribe" THEN [Loaded(r) EXCEPT !.on = FALSE] ELSE Loaded(r)
  BY DEF Wanted, Assigned
<1>2. /\ Wanted(r).there = Loaded(r).there /\ Wanted(r).at = Loaded(r).at
      /\ Wanted(r).source = Loaded(r).source
      /\ req[r].op = "unsubscribe" => Wanted(r).on = FALSE
      /\ req[r].op # "unsubscribe" => Wanted(r).on = Loaded(r).on
  BY <1>1, WrittenRow DEF Rows
<1>3. /\ seen[r].there => Loaded(r) = seen[r]
      /\ ~seen[r].there => Loaded(r).at = Unset /\ Loaded(r).source = Unset /\ ~Loaded(r).on
  BY DEF Loaded, NewRow
<1>4. New(r).there
  BY <1>2, WrittenRow
<1>5. /\ seen[r].there => New(r).at = Old(r).at /\ New(r).source = Old(r).source
      /\ ~seen[r].there => New(r).at = Unset /\ New(r).source = Unset
  BY <1>2, <1>3, WrittenRow
<1>6. ~seen[r].there => ~New(r).on
  BY <1>2, <1>3, WrittenRow
<1>7. Loaded(r).on \in BOOLEAN
  BY WrittenRow DEF Rows
<1>8. (req[r].op = "unsubscribe" /\ seen[r].there /\ seen[r].on) => ~New(r).on
  BY <1>2, <1>3, <1>7, WrittenRow
<1>9. (seen[r].there /\ ~(req[r].op = "unsubscribe" /\ seen[r].on)) => New(r).on = Old(r).on
  BY <1>2, <1>3, <1>7, WrittenRow
<1> QED
  BY <1>4, <1>5, <1>6, <1>8, <1>9

-----------------------------------------------------------------------------
LEMMA InitInv == Init => IInv
<1> SUFFICES ASSUME Init PROVE IInv
  OBVIOUS
<1>1. \A m \in Emails : donors[m] \in EarlierRows
  BY BeforeAssumption DEF Init
<1>2. TypeOK
  <2>1. donors \in [Emails -> Rows]
    BY <1>1, RowFacts DEF Init
  <2> QED
    BY <2>1, RowFacts, MaxFaultsAssumption DEF Init, TypeOK, InFlight
<1>3. \A r \in Requests : Point(r)
  BY UnsetAssumption DEF Init, Point, NoRow
<1>4. \A m \in Emails : Recorded(m)
  BY <1>1, RowFacts DEF Recorded
<1>5. TornOnlyByOvertaking
  BY <1>1, RowFacts DEF TornOnlyByOvertaking
<1>6. OneWriter /\ RivalWon /\ RefusedOnlyToARival
  BY DEF Init, OneWriter, RivalWon, RefusedOnlyToARival
<1> QED
  BY <1>2, <1>3, <1>4, <1>5, <1>6 DEF IInv

\* Nobody's time is in a row, or in what a request read, before it is answered.
LEMMA NotYet ==
  ASSUME IInv, NEW r \in Requests, pc[r] \in InFlight
  PROVE  \A m \in Emails : donors[m].at # r
BY DEF IInv, Recorded, Gave, InFlight

\* What a request has seen changes with its SELECT only.
Sees(r) ==
  \/ seen' = seen
  \/ pc[r] = "select" /\ seen' = [seen EXCEPT ![r] = donors[Email(r)]]

\* Steps of requests R that commit nothing.
LEMMA NothingCommitted ==
  ASSUME IInv, NEW R \in SUBSET Requests,
         \A r \in R : pc[r] \in InFlight,
         \A q \in Requests \ R : pc'[q] = pc[q] /\ seen'[q] = seen[q],
         faults' = 0 => faults = 0,
         UNCHANGED <<req, donors>>
  PROVE  /\ \A q \in Requests \ R : ((q \in holds' <=> q \in holds) /\ Point(q)) => Point(q)'
         /\ (\A m \in Emails : Recorded(m))'
         /\ TornOnlyByOvertaking'
         /\ (\A r \in R : pc'[r] = "insert" => ~donors[Email(r)].there) => RivalWon'
         /\ (\A r \in R : (pc'[r] = "500" /\ faults' = 0 /\ req[r].op \in {"subscribe", "unsubscribe"})
                => req[r].op = "subscribe" /\ pc[r] = "insert" /\ donors[Email(r)].there)
              => RefusedOnlyToARival'
<1>t. TypeOK /\ \A r \in R, m \in Emails : donors[m].at # r
  BY NotYet DEF IInv
<1>1. \A q \in Requests : pc[q] \in Answered => pc'[q] = pc[q]
  BY DEF InFlight, Answered
<1>2. \A p \in Requests, m \in Emails : Gave(p, m) => Gave(p, m)'
  BY <1>1 DEF Gave, Answered
<1>3. ASSUME NEW q \in Requests \ R, q \in holds' <=> q \in holds, Point(q) PROVE Point(q)'
  <2>1. Email(q) \in Emails /\ pc'[q] = pc[q] /\ seen'[q] = seen[q]
    BY <1>t, AskFacts DEF Email
  <2> QED
    BY <1>2, <1>3, <2>1 DEF Point, Email
<1>4. (\A m \in Emails : Recorded(m))'
  BY <1>2 DEF IInv, Recorded
<1>5. TornOnlyByOvertaking'
  <2> SUFFICES ASSUME NEW m \in Emails, NEW q \in Requests,
                      donors[m].at = q, donors[m].source # SourceOf(req[q])
               PROVE  /\ seen'[q].source = SourceOf(req[q])
                      /\ \E p \in Requests \ {q} :
                           /\ Consenting(req[p]) /\ req[p].email = m
                           /\ donors[m].source = SourceOf(req[p])
                           /\ pc'[p] \in {"200", "500"}
    BY DEF TornOnlyByOvertaking
  <2>1. seen'[q] = seen[q]
    BY <1>t
  <2>2. PICK p \in Requests \ {q} :
           /\ Consenting(req[p]) /\ req[p].email = m
           /\ donors[m].source = SourceOf(req[p])
           /\ pc[p] \in {"200", "500"}
    BY DEF IInv, TornOnlyByOvertaking
  <2> QED
    BY <1>1, <2>1, <2>2 DEF IInv, TornOnlyByOvertaking, Answered
<1>6. ASSUME \A r \in R : pc'[r] = "insert" => ~donors[Email(r)].there PROVE RivalWon'
  <2> SUFFICES ASSUME faults' = 0, NEW q \in Requests, pc'[q] = "insert", donors[Email(q)].there
               PROVE  \E p \in Requests :
                        /\ req[p].email = Email(q) /\ req[p].op \in Gives \union {"subscribe"}
                        /\ pc'[p] = "200"
    BY DEF RivalWon, Email
  <2>1. pc[q] = "insert"
    BY <1>6
  <2>2. PICK p \in Requests :
          /\ req[p].email = Email(q) /\ req[p].op \in Gives \union {"subscribe"}
          /\ pc[p] = "200"
    BY <2>1 DEF IInv, RivalWon
  <2> QED
    BY <1>1, <2>2 DEF Answered
<1>7. ASSUME \A r \in R : (pc'[r] = "500" /\ faults' = 0 /\ req[r].op \in {"subscribe", "unsubscribe"})
                => req[r].op = "subscribe" /\ pc[r] = "insert" /\ donors[Email(r)].there
      PROVE  RefusedOnlyToARival'
  <2> SUFFICES ASSUME NEW q \in Requests, pc'[q] = "500", faults' = 0,
                      req[q].op \in {"subscribe", "unsubscribe"}
               PROVE  /\ req[q].op = "subscribe"
                      /\ \E p \in Requests \ {q} :
                           /\ req[p].email = req[q].email
                           /\ req[p].op \in Gives \union {"subscribe"}
                           /\ pc'[p] = "200"
    BY DEF RefusedOnlyToARival
  <2>1. CASE q \in R
    <3>1. req[q].op = "subscribe" /\ pc[q] = "insert" /\ donors[Email(q)].there
      BY <1>7, <2>1
    <3>2. PICK p \in Requests :
            /\ req[p].email = Email(q) /\ req[p].op \in Gives \union {"subscribe"}
            /\ pc[p] = "200"
      BY <3>1 DEF IInv, RivalWon
    <3>3. p # q /\ pc'[p] = "200"
      BY <1>1, <3>1, <3>2 DEF Answered
    <3> QED
      BY <3>1, <3>2, <3>3 DEF Email
  <2>2. CASE q \notin R
    <3>1. PICK p \in Requests \ {q} :
            /\ req[p].email = req[q].email
            /\ req[p].op \in Gives \union {"subscribe"}
            /\ pc[p] = "200"
      BY <2>2 DEF IInv, RefusedOnlyToARival
    <3> QED
      BY <1>1, <2>2, <3>1 DEF IInv, RefusedOnlyToARival, Answered
  <2> QED
    BY <2>1, <2>2
<1> QED
  BY <1>3, <1>4, <1>5, <1>6, <1>7

\* The same of one request.
LEMMA NothingCommittedBy ==
  ASSUME IInv, NEW r \in Requests, pc[r] \in InFlight,
         \A q \in Requests \ {r} :
           pc'[q] = pc[q] /\ seen'[q] = seen[q] /\ (q \in holds' <=> q \in holds),
         faults' = 0 => faults = 0,
         UNCHANGED <<req, donors>>,
         pc'[r] = "insert" => ~donors[Email(r)].there,
         (pc'[r] = "500" /\ faults' = 0 /\ req[r].op \in {"subscribe", "unsubscribe"})
           => req[r].op = "subscribe" /\ pc[r] = "insert" /\ donors[Email(r)].there
  PROVE  /\ \A q \in Requests \ {r} : Point(q)'
         /\ (\A m \in Emails : Recorded(m))' /\ TornOnlyByOvertaking'
         /\ RivalWon' /\ RefusedOnlyToARival'
<1> DEFINE R == {r}
<1>1. /\ R \in SUBSET Requests
      /\ \A p \in R : pc[p] \in InFlight
      /\ \A q \in Requests \ R : pc'[q] = pc[q] /\ seen'[q] = seen[q]
      /\ \A p \in R : pc'[p] = "insert" => ~donors[Email(p)].there
      /\ \A p \in R : (pc'[p] = "500" /\ faults' = 0 /\ req[p].op \in {"subscribe", "unsubscribe"})
                => req[p].op = "subscribe" /\ pc[p] = "insert" /\ donors[Email(p)].there
  OBVIOUS
<1>2. \A q \in Requests \ R : (q \in holds' <=> q \in holds) /\ Point(q)
  BY DEF IInv
<1>3. \A q \in Requests \ {r} : q \in Requests \ R
  OBVIOUS
<1> HIDE DEF R
<1>4. /\ \A q \in Requests \ R : ((q \in holds' <=> q \in holds) /\ Point(q)) => Point(q)'
      /\ (\A m \in Emails : Recorded(m))'
      /\ TornOnlyByOvertaking'
      /\ RivalWon'
      /\ RefusedOnlyToARival'
  BY <1>1, NothingCommitted
<1> QED
  BY <1>2, <1>3, <1>4

\* A handler moves on inside its transaction.
LEMMA Moves ==
  ASSUME IInv, NEW r \in Requests, NEW label \in InFlight \ {"select"},
         pc[r] \in InFlight, Goto(r, label), Sees(r),
         \/ holds' = holds
         \/ holds' = holds \union {r} /\ ~Locked(r),
         label = "insert" => ~donors[Email(r)].there,
         Point(r)',
         UNCHANGED <<req, donors, recorded, faults>>
  PROVE  IInv'
<1> USE DEF Goto, Sees
<1>t. TypeOK
  BY DEF IInv
<1>1. TypeOK'
  BY <1>t, AskFacts DEF TypeOK, Email
<1>2. OneWriter'
  BY DEF IInv, OneWriter, Locked
<1>3. /\ \A q \in Requests \ {r} :
           pc'[q] = pc[q] /\ seen'[q] = seen[q] /\ (q \in holds' <=> q \in holds)
      /\ pc'[r] = label
  BY <1>t DEF TypeOK
<1>4. label # "500"
  BY DEF InFlight
<1>5. /\ \A q \in Requests \ {r} : Point(q)'
      /\ (\A m \in Emails : Recorded(m))' /\ TornOnlyByOvertaking'
      /\ RivalWon' /\ RefusedOnlyToARival'
  BY <1>3, <1>4, NothingCommittedBy
<1> QED
  BY <1>1, <1>2, <1>5 DEF IInv

\* A handler answers without a commit.
LEMMA Stops ==
  ASSUME IInv, NEW r \in Requests, NEW label \in Answered,
         pc[r] \in InFlight, Goto(r, label), Sees(r), holds' = holds \ {r},
         faults' \in {faults, faults + 1}, faults' \in 0..MaxFaults,
         (label = "500" /\ faults' = 0 /\ req[r].op \in {"subscribe", "unsubscribe"}) =>
            req[r].op = "subscribe" /\ pc[r] = "insert" /\ donors[Email(r)].there,
         UNCHANGED <<req, donors, recorded>>
  PROVE  IInv'
<1> USE DEF Goto, Sees
<1>t. TypeOK /\ \A m \in Emails : donors[m].at # r
  BY NotYet DEF IInv
<1>1. TypeOK'
  BY <1>t, AskFacts DEF TypeOK, Email
<1>2. OneWriter'
  BY DEF IInv, OneWriter
<1>3. /\ \A q \in Requests \ {r} :
           pc'[q] = pc[q] /\ seen'[q] = seen[q] /\ (q \in holds' <=> q \in holds)
      /\ pc'[r] = label /\ r \notin holds'
  BY <1>t DEF TypeOK
<1>4. label # "insert" /\ (faults' = 0 => faults = 0)
  BY <1>t, MaxFaultsAssumption DEF Answered, TypeOK
<1>5. /\ \A q \in Requests \ {r} : Point(q)'
      /\ (\A m \in Emails : Recorded(m))' /\ TornOnlyByOvertaking'
      /\ RivalWon' /\ RefusedOnlyToARival'
  BY <1>3, <1>4, NothingCommittedBy
<1>6. seen'[r].at # r
  BY <1>t, AskFacts DEF IInv, Point, TypeOK, Email
<1>7. Point(r)'
  BY <1>3, <1>6 DEF Point, Answered, InFlight
<1> QED
  BY <1>1, <1>2, <1>5, <1>7 DEF IInv

\* A commit takes effect, heard or not.
LEMMA Durable ==
  ASSUME IInv, NEW r \in Requests, NEW label \in {"200", "500"},
         TakesEffect(r), Goto(r, label),
         faults' \in 0..MaxFaults, faults' = 0 => faults = 0 /\ label = "200"
  PROVE  IInv'
<1> USE DEF Goto
<1>t. /\ TypeOK /\ pc[r] = "commit" /\ Point(r) /\ Email(r) \in Emails
      /\ UNCHANGED <<req, seen>> /\ holds' = holds \ {r}
      /\ pc'[r] = label
      /\ \A q \in Requests \ {r} : pc'[q] = pc[q]
  BY AskFacts DEF IInv, TakesEffect, TypeOK, Email
<1>d. /\ donors' = [donors EXCEPT ![Email(r)] = New(r)]
      /\ donors'[Email(r)] = New(r)
      /\ \A m \in Emails \ {Email(r)} : donors'[m] = donors[m]
  BY <1>t DEF TakesEffect, TypeOK, Email, New, Old
<1>1. TypeOK'
  <2>1. donors' \in [Emails -> Rows]
    BY <1>t, <1>d, WrittenRow DEF TypeOK
  <2> QED
    BY <1>t, <2>1 DEF TypeOK, TakesEffect, Answered
<1>2. OneWriter'
  BY <1>t DEF IInv, OneWriter
<1>3. \A p \in Requests, m \in Emails : Gave(p, m) => Gave(p, m)' /\ p # r
  BY <1>t DEF Gave
<1>4. \A m \in Emails : Consenting(req[r]) /\ m = Email(r) => Gave(r, m)'
  BY <1>t DEF Gave, Email
<1>5. New(r).there
  BY <1>t, ConsentWritten, OtherWritten
\* Where the source that is there now comes from.
<1>6. seen[r].there =>
        \/ New(r).source = Old(r).source
        \/ Consenting(req[r]) /\ New(r).source = SourceOf(req[r])
  BY <1>t, ConsentWritten, OtherWritten
<1>7. ~seen[r].there =>
        /\ r \in holds /\ ~Old(r).there
        /\ req[r].op \in Gives \union {"subscribe"}
  BY <1>t DEF Point, Old
<1>8. ASSUME NEW q \in Requests PROVE Point(q)'
  <2>t. Point(q) /\ Email(q) \in Emails /\ Email(q)' = Email(q)
    BY <1>t, AskFacts DEF IInv, Email
  <2>1. CASE q = r
    BY <1>t, <2>1, <2>t DEF Point, InFlight
  <2>2. CASE q # r
    <3>1. pc'[q] = pc[q] /\ seen'[q] = seen[q] /\ (q \in holds' <=> q \in holds)
      BY <1>t, <2>2
    <3>2. ASSUME pc[q] \in {"call", "update", "commit"}, ~seen[q].there
          PROVE  ~donors'[Email(q)].there
      <4>1. q \in holds /\ ~donors[Email(q)].there
        BY <2>t, <3>2 DEF Point
      <4>2. Email(q) # Email(r)
        <5>1. SUFFICES ASSUME Email(q) = Email(r) PROVE FALSE
          OBVIOUS
        <5>2. ~seen[r].there
          BY <1>t, <4>1, <5>1, WrittenRow DEF Old
        <5> QED
          BY <1>7, <2>2, <4>1, <5>1, <5>2 DEF IInv, OneWriter, Email
      <4> QED
        BY <1>d, <2>t, <4>1, <4>2
    <3>3. ASSUME pc[q] \in InFlight \ {"select"}, seen[q].there
          PROVE  /\ donors'[Email(q)].there
                 /\ seen[q].source # Unset => donors'[Email(q)].source # Unset
                 /\ \/ donors'[Email(q)].source = seen[q].source
                    \/ \E p \in Requests, m \in Emails :
                         /\ m = Email(q) /\ Gave(p, m)'
                         /\ donors'[Email(q)].source = SourceOf(req[p])
      <4>1. /\ donors[Email(q)].there
            /\ seen[q].source # Unset => donors[Email(q)].source # Unset
            /\ \/ donors[Email(q)].source = seen[q].source
               \/ \E p \in Requests :
                    Gave(p, Email(q)) /\ donors[Email(q)].source = SourceOf(req[p])
        BY <2>t, <3>3 DEF Point
      <4>2. CASE Email(q) # Email(r)
        BY <1>3, <1>d, <2>t, <4>1, <4>2
      <4>3. CASE Email(q) = Email(r)
        <5>1. seen[r].there
          BY <1>7, <4>1, <4>3 DEF Old
        <5>2. CASE New(r).source = Old(r).source
          BY <1>3, <1>5, <1>d, <2>t, <4>1, <4>3, <5>2 DEF Old
        <5>3. CASE Consenting(req[r]) /\ New(r).source = SourceOf(req[r])
          BY <1>4, <1>5, <1>d, <2>t, <4>3, <5>3, SourceFacts, UnsetAssumption
        <5> QED
          BY <1>6, <5>1, <5>2, <5>3
      <4> QED
        BY <4>2, <4>3
    <3>4. /\ r \in Requests
          /\ q \in holds' => pc'[q] \in {"call", "update", "commit"}
          /\ seen'[q].at # q
          /\ pc'[q] = "insert" => ~seen'[q].there /\ req'[q].op \in Gives \union {"subscribe"}
          /\ pc'[q] = "call" => req'[q].op \in Gives
          /\ pc'[q] = "ask" => seen'[q].there
          /\ (pc'[q] \in {"call", "update", "commit"} /\ ~seen'[q].there) =>
               q \in holds' /\ req'[q].op \in Gives \union {"subscribe"}
      BY <1>t, <2>t, <3>1 DEF Point
    <3> QED
      BY <1>t, <2>t, <3>1, <3>2, <3>3, <3>4 DEF Point
  <2> QED
    BY <2>1, <2>2
<1>9. ASSUME NEW m \in Emails PROVE Recorded(m)'
  <2>1. CASE m # Email(r)
    BY <1>3, <1>d, <2>1 DEF IInv, Recorded
  <2>2. CASE m = Email(r) /\ Consenting(req[r])
    <3>1. New(r).at = r /\ New(r).at # Unset
      BY <1>t, <2>2, ConsentWritten, UnsetAssumption
    <3>2. New(r).source # Unset
      BY <1>t, <2>2, ConsentWritten, SourceFacts, UnsetAssumption DEF Point, InFlight, Old
    <3> QED
      BY <1>4, <1>d, <2>2, <3>1, <3>2 DEF Recorded
  <2>3. CASE m = Email(r) /\ ~Consenting(req[r])
    <3>1. Recorded(m)
      BY DEF IInv
    <3>2. New(r).at \in Requests => New(r).at = Old(r).at
      BY <1>t, <2>3, OtherWritten, UnsetAssumption
    <3>3. New(r).on => Old(r).on /\ New(r).at = Old(r).at /\ New(r).source = Old(r).source
      BY <1>t, <2>3, OtherWritten
    <3> QED
      BY <1>3, <1>d, <2>3, <3>1, <3>2, <3>3 DEF Recorded, Old
  <2> QED
    BY <2>1, <2>2, <2>3
<1>10. TornOnlyByOvertaking'
  <2> SUFFICES ASSUME NEW m \in Emails, NEW q \in Requests,
                      donors'[m].at = q, donors'[m].source # SourceOf(req[q])
               PROVE  /\ seen[q].source = SourceOf(req[q])
                      /\ \E p \in Requests \ {q} :
                           /\ Consenting(req[p]) /\ req[p].email = m
                           /\ donors'[m].source = SourceOf(req[p])
                           /\ pc'[p] \in {"200", "500"}
    BY <1>t DEF TornOnlyByOvertaking
  <2>1. CASE m = Email(r) /\ Consenting(req[r])
    <3>1. q = r /\ seen[r].there /\ seen[r].source = SourceOf(req[r]) /\ New(r).source = Old(r).source
      BY <1>d, <1>t, <2>1, ConsentWritten
    <3>2. PICK p \in Requests : Gave(p, m) /\ Old(r).source = SourceOf(req[p])
      BY <1>d, <1>t, <2>1, <3>1 DEF Point, InFlight, Old
    <3> QED
      BY <1>3, <1>d, <1>t, <2>1, <3>1, <3>2 DEF Gave
  <2>2. CASE ~(m = Email(r) /\ Consenting(req[r]))
    <3>1. donors[m].at = q /\ donors[m].source = donors'[m].source
      BY <1>d, <1>t, <2>2, OtherWritten, UnsetAssumption DEF Old
    <3>2. /\ seen[q].source = SourceOf(req[q])
          /\ \E p \in Requests \ {q} :
               /\ Consenting(req[p]) /\ req[p].email = m
               /\ donors[m].source = SourceOf(req[p])
               /\ pc[p] \in {"200", "500"}
      BY <3>1 DEF IInv, TornOnlyByOvertaking
    <3> QED
      BY <1>t, <3>1, <3>2
  <2> QED
    BY <2>1, <2>2
<1>11. RivalWon'
  <2> SUFFICES ASSUME faults' = 0, NEW q \in Requests, pc'[q] = "insert", donors'[Email(q)].there
               PROVE  \E p \in Requests :
                        /\ req[p].email = Email(q) /\ req[p].op \in Gives \union {"subscribe"}
                        /\ pc'[p] = "200"
    BY <1>t DEF RivalWon, Email
  <2>1. faults = 0 /\ label = "200" /\ q # r /\ pc[q] = "insert" /\ Email(q) \in Emails
    BY <1>t, AskFacts DEF Email
  <2>2. CASE donors[Email(q)].there
    <3>1. PICK p \in Requests :
            /\ req[p].email = Email(q) /\ req[p].op \in Gives \union {"subscribe"}
            /\ pc[p] = "200"
      BY <2>1, <2>2 DEF IInv, RivalWon
    <3> QED
      BY <1>t, <3>1
  <2>3. CASE ~donors[Email(q)].there
    <3>1. Email(q) = Email(r) /\ ~Old(r).there
      BY <1>d, <2>1, <2>3 DEF Old
    <3>2. req[r].op \in Gives \union {"subscribe"}
      BY <1>7, <1>t, <3>1, WrittenRow
    <3> QED
      BY <1>t, <2>1, <3>1, <3>2 DEF Email
  <2> QED
    BY <2>2, <2>3
<1>12. RefusedOnlyToARival'
  <2> SUFFICES ASSUME NEW q \in Requests, pc'[q] = "500", faults' = 0,
                      req[q].op \in {"subscribe", "unsubscribe"}
               PROVE  /\ req[q].op = "subscribe"
                      /\ \E p \in Requests \ {q} :
                           /\ req[p].email = req[q].email
                           /\ req[p].op \in Gives \union {"subscribe"}
                           /\ pc'[p] = "200"
    BY <1>t DEF RefusedOnlyToARival
  <2>1. faults = 0 /\ pc[q] = "500"
    BY <1>t
  <2>2. req[q].op = "subscribe"
    BY <2>1 DEF IInv, RefusedOnlyToARival
  <2>3. PICK p \in Requests \ {q} :
          /\ req[p].email = req[q].email
          /\ req[p].op \in Gives \union {"subscribe"}
          /\ pc[p] = "200"
    BY <2>1 DEF IInv, RefusedOnlyToARival
  <2> QED
    BY <1>t, <2>2, <2>3
<1> QED
  BY <1>1, <1>2, <1>8, <1>9, <1>10, <1>11, <1>12 DEF IInv

\* What a request knows right after its SELECT.
LEMMA Loads ==
  ASSUME IInv, NEW r \in Requests, NEW ops, NEW label, Load(r, ops, label),
         \/ label = "insert" /\ ~Old(r).there /\ req[r].op \in Gives \union {"subscribe"}
         \/ label = "call" /\ Old(r).there /\ req[r].op \in Gives
         \/ label \in {"update", "ask", "commit"} /\ Old(r).there
         \/ label \in {"200", "404"}
         \/ label = "500" /\ req[r].op = "ask_unknown"
  PROVE  IInv'
<1>t. TypeOK /\ Point(r) /\ pc[r] = "select" /\ Email(r) \in Emails
  BY AskFacts DEF IInv, Load, Email
<1>1. /\ pc[r] \in InFlight /\ Goto(r, label) /\ Sees(r) /\ r \notin holds
      /\ pc'[r] = label /\ seen'[r] = Old(r)
      /\ UNCHANGED <<req, donors, holds, recorded, faults>>
  BY <1>t DEF Load, Goto, Sees, Email, InFlight, Point, Old, TypeOK
<1>2. CASE label \in Answered
  <2>1. holds' = holds \ {r} /\ faults' \in {faults, faults + 1} /\ faults' \in 0..MaxFaults
    BY <1>1, <1>t DEF TypeOK
  <2>2. ~(label = "500" /\ faults' = 0 /\ req[r].op \in {"subscribe", "unsubscribe"})
    OBVIOUS
  <2> QED
    BY <1>1, <1>2, <2>1, <2>2, Stops
<1>3. CASE label \notin Answered
  <2>1. label \in InFlight \ {"select"}
    BY <1>3 DEF InFlight, Answered
  <2>2. Old(r).at # r
    BY <1>1, <1>t, NotYet DEF Old
  <2>3. label = "insert" => ~Old(r).there
    OBVIOUS
  <2>4. label # "insert" => Old(r).there
    BY <1>3 DEF Answered
  <2>5. Point(r)'
    BY <1>1, <2>1, <2>2, <2>3, <2>4 DEF Point, Email, Old
  <2> QED
    BY <1>1, <2>1, <2>3, <2>5, Moves DEF Old
<1> QED
  BY <1>2, <1>3

LEMMA CrashInv ==
  ASSUME IInv, Crash
  PROVE  IInv'
<1> DEFINE R == {r \in Requests : pc[r] \in InFlight \ {"select"}}
<1>t. TypeOK
  BY DEF IInv
<1>1. /\ R \in SUBSET Requests
      /\ \A r \in R : pc[r] \in InFlight /\ pc'[r] = "500"
      /\ \A q \in Requests \ R : pc'[q] = pc[q] /\ seen'[q] = seen[q]
      /\ holds' = {} /\ faults' # 0
      /\ UNCHANGED <<req, donors, seen, recorded>>
  BY <1>t, MaxFaultsAssumption DEF Crash, TypeOK
<1>2. TypeOK'
  BY <1>t, MaxFaultsAssumption DEF TypeOK, Crash, Answered
<1>3. \A q \in Requests \ R : q \notin holds
  BY DEF IInv, Point, InFlight
<1>4. /\ \A q \in Requests \ R : Point(q)'
      /\ (\A m \in Emails : Recorded(m))' /\ TornOnlyByOvertaking'
      /\ RivalWon' /\ RefusedOnlyToARival'
  BY <1>1, <1>3, NothingCommitted DEF IInv
<1>5. \A q \in R : Point(q)'
  BY <1>1 DEF IInv, Point, InFlight
<1> QED
  BY <1>1, <1>2, <1>4, <1>5 DEF IInv, OneWriter

LEMMA NextInv == IInv /\ [Next]_vars => IInv'
<1> SUFFICES ASSUME IInv, [Next]_vars PROVE IInv'
  OBVIOUS
<1>t. TypeOK /\ \A r \in Requests : Point(r)
  BY DEF IInv
<1>s. ASSUME NEW r \in Requests, pc[r] \in InFlight, Abort(r), faults' \in {faults, faults + 1},
             faults' \in 0..MaxFaults,
             (faults' = 0 /\ req[r].op \in {"subscribe", "unsubscribe"}) =>
               req[r].op = "subscribe" /\ pc[r] = "insert" /\ donors[Email(r)].there
      PROVE  IInv'
  BY <1>s, Stops DEF Abort, Sees, Answered
\* A step of a request that is not answered leaves the consents given.
<1>g. ASSUME NEW r \in Requests, NEW label, pc[r] \in InFlight, Goto(r, label), req' = req
      PROVE  \A p \in Requests, m \in Emails : Gave(p, m) => Gave(p, m)'
  BY <1>g, <1>t DEF Gave, Goto, TypeOK, InFlight
<1>e. \A r \in Requests : Email(r) \in Emails
  BY <1>t, AskFacts DEF Email
<1>1. ASSUME NEW r \in Requests, LoadSubscribe(r) PROVE IInv'
  BY <1>1, Loads DEF LoadSubscribe, Load, Old, Email
<1>2. ASSUME NEW r \in Requests, LoadGive(r) PROVE IInv'
  BY <1>2, Loads DEF LoadGive, Load, Old, Email
<1>3. ASSUME NEW r \in Requests, LoadUnsubscribe(r) PROVE IInv'
  BY <1>3, Loads DEF LoadUnsubscribe, Load, Old, Email
<1>4. ASSUME NEW r \in Requests, LoadAsk(r) PROVE IInv'
  BY <1>4, Loads DEF LoadAsk, Load, Old, Email
<1>5. ASSUME NEW r \in Requests, InsertDonor(r) PROVE IInv'
  <2> DEFINE label == IF req[r].op \in Gives THEN "call" ELSE "commit"
  <2>1. /\ pc[r] = "insert" /\ pc'[r] = label /\ holds' = holds \union {r} /\ ~Locked(r)
        /\ Goto(r, label) /\ UNCHANGED <<req, donors, seen, recorded, faults>>
        /\ ~donors[Email(r)].there
    BY <1>5, <1>t DEF InsertDonor, Goto, Email, TypeOK
  <2>2. Point(r)'
    BY <1>e, <1>g, <1>t, <2>1 DEF Point, Email, InFlight
  <2>3. label \in InFlight \ {"select"} /\ pc[r] \in InFlight
    BY <2>1 DEF InFlight
  <2> HIDE DEF label
  <2> QED
    BY <2>1, <2>2, <2>3, Moves DEF Sees
<1>6. ASSUME NEW r \in Requests, DonorConflict(r) PROVE IInv'
  <2>1. pc[r] \in InFlight /\ Abort(r) /\ faults' = faults /\ faults' \in 0..MaxFaults
    BY <1>6, <1>t DEF DonorConflict, InFlight, TypeOK
  <2>2. req[r].op \in Gives \union {"subscribe"} /\ pc[r] = "insert" /\ donors[Email(r)].there
    BY <1>6, <1>t DEF DonorConflict, Point, Email
  <2> QED
    BY <1>s, <2>1, <2>2 DEF Gives
<1>7. ASSUME NEW r \in Requests, ProviderReturns(r) PROVE IInv'
  <2> DEFINE label == IF Consenting(req[r]) THEN "update" ELSE "commit"
  <2>1. /\ pc[r] = "call" /\ pc'[r] = label /\ Goto(r, label)
        /\ UNCHANGED <<req, donors, seen, holds, recorded, faults>>
    BY <1>7, <1>t DEF ProviderReturns, Goto, TypeOK
  <2>2. Point(r)'
    BY <1>e, <1>g, <1>t, <2>1 DEF Point, Email, InFlight
  <2>3. label \in InFlight \ {"select"} /\ pc[r] \in InFlight /\ label # "insert"
    BY <2>1 DEF InFlight
  <2> HIDE DEF label
  <2> QED
    BY <2>1, <2>2, <2>3, Moves DEF Sees
<1>8. ASSUME NEW r \in Requests, ProviderRaises(r) PROVE IInv'
  <2>1. pc[r] \in InFlight /\ Abort(r) /\ faults' = faults /\ faults' \in 0..MaxFaults
    BY <1>8, <1>t DEF ProviderRaises, InFlight, TypeOK
  <2>2. req[r].op \in Gives
    BY <1>8, <1>t DEF ProviderRaises, Point
  <2> QED
    BY <1>s, <2>1, <2>2 DEF Gives
<1>9. ASSUME NEW r \in Requests, UpdateDonor(r) PROVE IInv'
  <2>1. /\ pc[r] = "update" /\ pc'[r] = "commit" /\ Goto(r, "commit")
        /\ holds' = holds \union {r} /\ ~Locked(r)
        /\ UNCHANGED <<req, donors, seen, recorded, faults>>
    BY <1>9, <1>t DEF UpdateDonor, Goto, TypeOK
  <2>2. Point(r)'
    BY <1>e, <1>g, <1>t, <2>1 DEF Point, Email, InFlight
  <2> QED
    BY <2>1, <2>2, Moves DEF Sees, InFlight
<1>10. ASSUME NEW r \in Requests, InsertDataRequest(r) PROVE IInv'
  <2>1. /\ pc[r] = "ask" /\ pc'[r] = "commit" /\ Goto(r, "commit")
        /\ UNCHANGED <<req, donors, seen, holds, recorded, faults>>
    BY <1>10, <1>t DEF InsertDataRequest, Goto, TypeOK
  <2>2. Point(r)'
    BY <1>e, <1>g, <1>t, <2>1 DEF Point, Email, InFlight
  <2> QED
    BY <2>1, <2>2, Moves DEF Sees, InFlight
<1>11. ASSUME NEW r \in Requests, Commit(r) PROVE IInv'
  BY <1>11, <1>t, Durable DEF Commit, TypeOK
<1>12. ASSUME NEW r \in Requests, CommitUnheard(r) PROVE IInv'
  BY <1>12, <1>t, Durable, MaxFaultsAssumption DEF CommitUnheard, TypeOK
<1>13. ASSUME NEW r \in Requests, Fault(r) PROVE IInv'
  <2>1. /\ pc[r] \in InFlight /\ Abort(r) /\ faults' = faults + 1
        /\ faults' \in 0..MaxFaults /\ faults' # 0
    BY <1>13, <1>t, MaxFaultsAssumption DEF Fault, TypeOK
  <2> QED
    BY <1>s, <2>1
<1>14. ASSUME Crash PROVE IInv'
  BY <1>14, CrashInv
<1>15. ASSUME UNCHANGED vars PROVE IInv'
  BY <1>15 DEF IInv, TypeOK, Point, Email, Recorded, Gave, OneWriter, TornOnlyByOvertaking,
               RivalWon, RefusedOnlyToARival, vars
<1> QED
  BY <1>1, <1>2, <1>3, <1>4, <1>5, <1>6, <1>7, <1>8, <1>9, <1>10, <1>11, <1>12, <1>13, <1>14,
     <1>15 DEF Next, Step

-----------------------------------------------------------------------------
\* Consent keeps the inductive invariant.
THEOREM Invariance == Spec => []IInv
<1>1. Init => IInv
  BY InitInv
<1>2. IInv /\ [Next]_vars => IInv'
  BY NextInv
<1> QED
  BY <1>1, <1>2, PTL DEF Spec

\* Every variable keeps its type (content.py, donations.py).
THEOREM TypeCorrect == Spec => []TypeOK
<1>1. IInv => TypeOK
  BY DEF IInv
<1> QED
  BY <1>1, Invariance, PTL

\* A donor marked as consenting has on record when and where she consented, and
\* the time on record is that of a request of hers that gave the consent,
\* however the column-wise writes of her requests interleave (content.py:44-46,
\* donations.py:50-53).
THEOREM ConsentsAreGiven == Spec => []ConsentIsGiven
<1>1. IInv => ConsentIsGiven
  <2> SUFFICES ASSUME IInv, NEW m \in Emails, donors[m].on
               PROVE  /\ donors[m].at # Unset /\ donors[m].source # Unset
                      /\ donors[m].at # Earlier => Gave(donors[m].at, m)
    BY DEF ConsentIsGiven, Gave
  <2>1. donors[m].at \in Requests \union {Unset, Earlier}
    BY DEF IInv, TypeOK, Rows
  <2> QED
    BY <2>1 DEF IInv, Recorded
<1> QED
  BY <1>1, Invariance, PTL

\* A record that mixes two consents was torn by a request that overtook the
\* other between its SELECT and its COMMIT.
THEOREM TornRecords == Spec => []TornOnlyByOvertaking
<1>1. IInv => TornOnlyByOvertaking
  BY DEF IInv
<1> QED
  BY <1>1, Invariance, PTL

\* With nothing failing, only a subscribe that lost the INSERT of its donor is
\* answered 500 (content.py:40-43).
THEOREM Refused == Spec => []RefusedOnlyToARival
<1>1. IInv => RefusedOnlyToARival
  BY DEF IInv
<1> QED
  BY <1>1, Invariance, PTL

\* A donor who is off the list comes back by a commit that records a consent
\* given since, in no other step.
THEOREM ComesBack == Spec => ComesBackByConsent
<1>1. IInv /\ [Next]_vars =>
        [\A m \in Emails : (donors'[m].on /\ ~donors[m].on) =>
            donors'[m].at \notin {donors[m].at, Unset, Earlier}]_vars
  <2> SUFFICES ASSUME IInv, [Next]_vars, NEW m \in Emails, donors'[m].on, ~donors[m].on
               PROVE  donors'[m].at \notin {donors[m].at, Unset, Earlier}
    OBVIOUS
  <2>1. donors' # donors
    OBVIOUS
  <2>2. PICK r \in Requests : TakesEffect(r)
    BY <2>1 DEF Next, Step, LoadSubscribe, LoadGive, LoadUnsubscribe, LoadAsk, Load, InsertDonor,
                DonorConflict, ProviderReturns, ProviderRaises, UpdateDonor, InsertDataRequest,
                Commit, CommitUnheard, Fault, Abort, Crash, vars
  <2>3. /\ TypeOK /\ Point(r) /\ pc[r] = "commit" /\ pc[r] \in InFlight
        /\ m = Email(r) /\ donors'[m] = New(r) /\ donors[m] = Old(r)
    BY <2>2 DEF IInv, TakesEffect, TypeOK, Email, New, Old, InFlight
  <2>4. Consenting(req[r])
    BY <2>3, OtherWritten
  <2>5. donors'[m].at = r /\ donors[m].at # r
    BY <2>3, <2>4, ConsentWritten, NotYet
  <2> QED
    BY <2>5, UnsetAssumption, EarlierAssumption
<1> QED
  BY <1>1, Invariance, PTL DEF Spec, ComesBackByConsent

\* Only a commit changes what is on record of a donor.
LEMMA DonorStep ==
  ASSUME IInv, [Next]_vars, NEW m \in Emails, donors'[m] # donors[m]
  PROVE  \E r \in Requests :
           /\ Point(r) /\ pc[r] = "commit" /\ m = Email(r)
           /\ donors'[m] = New(r) /\ donors[m] = Old(r)
<1>1. PICK r \in Requests : TakesEffect(r)
  BY DEF Next, Step, LoadSubscribe, LoadGive, LoadUnsubscribe, LoadAsk, Load, InsertDonor,
         DonorConflict, ProviderReturns, ProviderRaises, UpdateDonor, InsertDataRequest,
         Commit, CommitUnheard, Fault, Abort, Crash, vars
<1> QED
  BY <1>1 DEF IInv, TakesEffect, TypeOK, Email, New, Old

\* A donor once known stays known, and one who is on the list leaves it by an
\* unsubscribe of hers that found her on it: no gift or subscribe of hers, however
\* stale what it had read, takes her off (content.py:39-58, donations.py:49-89).
THEOREM LeavesByUnsubscribe ==
  Spec => [][\A m \in Emails :
               donors[m].there =>
                 /\ donors'[m].there
                 /\ (donors[m].on /\ ~donors'[m].on) =>
                      \E r \in Requests :
                        /\ req[r].op = "unsubscribe" /\ req[r].email = m
                        /\ pc[r] = "commit" /\ seen[r].on]_vars
<1> DEFINE Leaves(m) == \E r \in Requests :
                          /\ req[r].op = "unsubscribe" /\ req[r].email = m
                          /\ pc[r] = "commit" /\ seen[r].on
           A == \A m \in Emails :
                  donors[m].there =>
                    /\ donors'[m].there
                    /\ (donors[m].on /\ ~donors'[m].on) => Leaves(m)
<1>1. ASSUME IInv, [Next]_vars PROVE A
  <2> SUFFICES ASSUME NEW m \in Emails, donors[m].there, donors'[m] # donors[m]
               PROVE  /\ donors'[m].there
                      /\ (donors[m].on /\ ~donors'[m].on) => Leaves(m)
    OBVIOUS
  <2>1. PICK r \in Requests :
          /\ Point(r) /\ pc[r] = "commit" /\ m = Email(r)
          /\ donors'[m] = New(r) /\ donors[m] = Old(r)
    BY <1>1, DonorStep
  <2>2. TypeOK /\ seen[r].there
    BY <1>1, <2>1 DEF IInv, Point, Email
  <2>3. CASE Consenting(req[r])
    BY <2>1, <2>2, <2>3, ConsentWritten
  <2>4. CASE ~Consenting(req[r])
    <3>1. /\ New(r).there
          /\ ~(req[r].op = "unsubscribe" /\ seen[r].on) => New(r).on = Old(r).on
      BY <2>1, <2>2, <2>4, OtherWritten
    <3> QED
      BY <2>1, <3>1 DEF Email
  <2> QED
    BY <2>3, <2>4
<1> HIDE DEF A
<1>2. ASSUME IInv, [Next]_vars PROVE [A]_vars
  BY <1>1, <1>2
<1>3. Spec => [][A]_vars
  BY <1>2, Invariance, PTL DEF Spec
<1> QED
  BY <1>3 DEF A

\* At most one transaction holds a donor's row, and who waits for it waits for a
\* request that itself waits for no other: requests never wait for each other in a
\* circle.  The provider is called with the row of a new donor held
\* (donations.py:34-59), so the one waited for may be at that call.
THEOREM HoldersAreFree ==
  Spec => [](\A r \in Requests :
               Locked(r) =>
                 \E q \in holds \ {r} :
                   /\ req[q].email = req[r].email /\ ~Locked(q)
                   /\ pc[q] \in {"call", "update", "commit"})
<1>1. IInv => \A r \in Requests :
                Locked(r) =>
                  \E q \in holds \ {r} :
                    /\ req[q].email = req[r].email /\ ~Locked(q)
                    /\ pc[q] \in {"call", "update", "commit"}
  <2> SUFFICES ASSUME IInv, NEW r \in Requests, NEW q \in holds \ {r}, req[q].email = req[r].email
               PROVE  ~Locked(q) /\ pc[q] \in {"call", "update", "commit"}
    BY DEF Locked
  <2>1. q \in Requests /\ OneWriter /\ Point(q)
    BY DEF IInv, TypeOK
  <2>2. ~Locked(q)
    BY <2>1 DEF OneWriter, Locked
  <2> QED
    BY <2>1, <2>2 DEF Point
<1> QED
  BY <1>1, Invariance, PTL

\* r's next statement waits for another transaction to end.
Waits(r) == pc[r] \in {"insert", "update"} /\ Locked(r)

\* Requests are never all stuck: while one is unanswered, one is that waits for no
\* row.
THEOREM SomebodyMoves ==
  Spec => []((\E r \in Requests : pc[r] \in InFlight) =>
               \E r \in Requests : pc[r] \in InFlight /\ ~Waits(r))
<1>1. IInv => ((\E r \in Requests : pc[r] \in InFlight) =>
                 \E r \in Requests : pc[r] \in InFlight /\ ~Waits(r))
  <2> SUFFICES ASSUME IInv, NEW r \in Requests, pc[r] \in InFlight, Waits(r)
               PROVE  \E q \in Requests : pc[q] \in InFlight /\ ~Waits(q)
    OBVIOUS
  <2>1. PICK q \in holds \ {r} : req[q].email = req[r].email
    BY DEF Waits, Locked
  <2>2. q \in Requests /\ pc[q] \in InFlight
    BY <2>1 DEF IInv, TypeOK, Point, InFlight
  <2>3. ~Locked(q)
    BY <2>1 DEF IInv, OneWriter, Locked
  <2> QED
    BY <2>2, <2>3 DEF Waits
<1> QED
  BY <1>1, Invariance, PTL

\* How many statements a request at this point has before it, at most.
Left(label) ==
  CASE label = "select" -> 5 [] label = "insert" -> 4 [] label = "call" -> 3
    [] label \in {"update", "ask"} -> 2 [] label = "commit" -> 1
    [] OTHER -> 0

LEMMA LeftFacts ==
  /\ Left("select") = 5 /\ Left("insert") = 4 /\ Left("call") = 3 /\ Left("update") = 2
  /\ Left("ask") = 2 /\ Left("commit") = 1
  /\ Left("200") = 0 /\ Left("404") = 0 /\ Left("500") = 0
BY DEF Left

\* No request turns back: each of its statements brings it nearer to its answer,
\* and nothing else does the contrary, so that it takes at most five
\* (content.py:39-70).
THEOREM OnlyForward ==
  Spec => [][\A r \in Requests : /\ Left(pc'[r]) <= Left(pc[r])
                                 /\ Step(r) => Left(pc'[r]) < Left(pc[r])]_vars
<1> DEFINE Forward == \A r \in Requests : /\ Left(pc'[r]) <= Left(pc[r])
                                          /\ Step(r) => Left(pc'[r]) < Left(pc[r])
<1>1. ASSUME IInv, [Next]_vars PROVE [Forward]_vars
  <2>t. /\ pc \in [Requests -> Answered \union InFlight]
        /\ pc' \in [Requests -> Answered \union InFlight]
    BY <1>1, NextInv DEF IInv, TypeOK
  <2>n. \A label \in Answered \union InFlight : Left(label) \in 0..5
    BY LeftFacts DEF Answered, InFlight
  <2>1. ASSUME NEW q \in Requests, Step(q) \/ CommitUnheard(q) \/ Fault(q)
        PROVE  /\ Left(pc'[q]) < Left(pc[q])
               /\ \A r \in Requests \ {q} : pc'[r] = pc[r]
    <3>1. CASE LoadSubscribe(q) \/ LoadGive(q) \/ LoadUnsubscribe(q) \/ LoadAsk(q)
      BY <2>t, <3>1, LeftFacts
      DEF LoadSubscribe, LoadGive, LoadUnsubscribe, LoadAsk, Load, Goto
    <3>2. CASE InsertDonor(q) \/ ProviderReturns(q) \/ UpdateDonor(q) \/ InsertDataRequest(q)
      BY <2>t, <3>2, LeftFacts
      DEF InsertDonor, ProviderReturns, UpdateDonor, InsertDataRequest, Goto
    <3>3. CASE DonorConflict(q) \/ ProviderRaises(q)
      BY <2>t, <3>3, LeftFacts DEF DonorConflict, ProviderRaises, Abort, Goto
    <3>4. CASE Commit(q) \/ CommitUnheard(q)
      BY <2>t, <3>4, LeftFacts DEF Commit, CommitUnheard, TakesEffect, Goto
    <3>5. CASE Fault(q)
      BY <2>t, <3>5, LeftFacts DEF Fault, Abort, Goto, InFlight
    <3> QED
      BY <2>1, <3>1, <3>2, <3>3, <3>4, <3>5 DEF Step
  <2>2. \A r \in Requests : Step(r) => Left(pc'[r]) < Left(pc[r])
    BY <2>1
  <2>3. ASSUME NEW r \in Requests, Next PROVE Left(pc'[r]) <= Left(pc[r])
    <3>1. /\ Left(pc[r]) \in 0..5 /\ Left(pc'[r]) \in 0..5
          /\ pc[r] \in Answered \union InFlight
      BY <2>n, <2>t
    <3>2. CASE \E q \in Requests : Step(q) \/ CommitUnheard(q) \/ Fault(q)
      BY <2>1, <3>1, <3>2
    <3>3. CASE Crash
      <4>1. pc'[r] = pc[r] \/ pc'[r] = "500"
        BY <3>3 DEF Crash
      <4> QED
        BY <3>1, <4>1, LeftFacts
    <3> QED
      BY <2>3, <3>2, <3>3 DEF Next
  <2> QED
    BY <1>1, <2>2, <2>3
<1> HIDE DEF Forward
<1>2. Spec => [][Forward]_vars
  BY <1>1, Invariance, PTL DEF Spec
<1> QED
  BY <1>2 DEF Forward

\* What a client was told of its data request.
Receipt(r) ==
  /\ (req[r].op = "ask_data" /\ pc[r] = "200") => r \in recorded
  /\ r \in recorded => req[r].op = "ask_data" /\ pc[r] \in {"200", "500"}
  /\ (r \in recorded /\ pc[r] = "500") => faults > 0

LEMMA ReceiptNext ==
  ASSUME IInv, [Next]_vars, \A r \in Requests : Receipt(r), NEW r \in Requests
  PROVE  Receipt(r)'
<1>t. /\ pc \in [Requests -> Answered \union InFlight] /\ faults \in 0..MaxFaults
      /\ Receipt(r) /\ Point(r)
  BY DEF IInv, TypeOK
<1>0. pc[r] \in InFlight => r \notin recorded
  BY <1>t DEF Receipt, InFlight
<1>1. ASSUME NEW q \in Requests, TakesEffect(q), NEW label \in {"200", "500"}, Goto(q, label),
             faults > 0 => faults' > 0, label = "500" => faults' > 0
      PROVE  Receipt(r)'
  <2>1. /\ req' = req /\ pc[q] = "commit"
        /\ recorded' = IF req[q].op = "ask_data" THEN recorded \union {q} ELSE recorded
        /\ pc'[q] = label /\ \A p \in Requests \ {q} : pc'[p] = pc[p]
    BY <1>1, <1>t DEF TakesEffect, Goto
  <2>2. CASE r = q
    BY <1>0, <1>1, <2>1, <2>2 DEF Receipt, InFlight
  <2>3. CASE r # q
    BY <1>1, <1>t, <2>1, <2>3 DEF Receipt
  <2> QED
    BY <2>2, <2>3
<1>2. ASSUME NEW q \in Requests, NEW label, Goto(q, label), pc[q] \in InFlight,
             UNCHANGED <<req, recorded>>, faults > 0 => faults' > 0,
             (req[q].op = "ask_data") => label # "200"
      PROVE  Receipt(r)'
  <2>1. pc'[q] = label /\ \A p \in Requests \ {q} : pc'[p] = pc[p]
    BY <1>2, <1>t DEF Goto
  <2>2. CASE r = q
    BY <1>0, <1>2, <2>1, <2>2 DEF Receipt
  <2>3. CASE r # q
    BY <1>2, <1>t, <2>1, <2>3 DEF Receipt
  <2> QED
    BY <2>2, <2>3
<1>3. ASSUME NEW q \in Requests, Step(q) PROVE Receipt(r)'
  <2>1. CASE Commit(q)
    BY <1>1, <1>t, <2>1 DEF Commit
  <2>2. CASE LoadSubscribe(q) \/ LoadGive(q) \/ LoadUnsubscribe(q) \/ LoadAsk(q)
    <3>1. PICK label :
            /\ Goto(q, label) /\ pc[q] = "select" /\ UNCHANGED <<req, recorded, faults>>
            /\ req[q].op = "ask_data" => label \in {"404", "500", "ask"}
      BY <2>2 DEF LoadSubscribe, LoadGive, LoadUnsubscribe, LoadAsk, Load, Gives
    <3> QED
      BY <1>2, <1>t, <3>1 DEF InFlight
  <2>3. CASE InsertDonor(q) \/ ProviderReturns(q) \/ UpdateDonor(q) \/ InsertDataRequest(q)
    <3>1. PICK label \in {"call", "update", "commit"} : Goto(q, label)
      BY <2>3 DEF InsertDonor, ProviderReturns, UpdateDonor, InsertDataRequest
    <3>2. pc[q] \in InFlight /\ UNCHANGED <<req, recorded, faults>>
      BY <2>3 DEF InsertDonor, ProviderReturns, UpdateDonor, InsertDataRequest, InFlight
    <3> QED
      BY <1>2, <1>t, <3>1, <3>2
  <2>4. CASE DonorConflict(q) \/ ProviderRaises(q)
    <3>1. Goto(q, "500") /\ pc[q] \in InFlight /\ UNCHANGED <<req, recorded, faults>>
      BY <2>4 DEF DonorConflict, ProviderRaises, Abort, InFlight
    <3> QED
      BY <1>2, <1>t, <3>1
  <2> QED
    BY <1>3, <2>1, <2>2, <2>3, <2>4 DEF Step
<1>4. ASSUME NEW q \in Requests, CommitUnheard(q) PROVE Receipt(r)'
  BY <1>1, <1>4, <1>t, MaxFaultsAssumption DEF CommitUnheard
<1>5. ASSUME NEW q \in Requests, Fault(q) PROVE Receipt(r)'
  <2>1. Goto(q, "500") /\ pc[q] \in InFlight /\ UNCHANGED <<req, recorded>> /\ faults' > 0
    BY <1>5, <1>t, MaxFaultsAssumption DEF Fault, Abort
  <2> QED
    BY <1>2, <2>1
<1>6. CASE Crash
  <2>1. /\ pc'[r] = IF pc[r] \in InFlight \ {"select"} THEN "500" ELSE pc[r]
        /\ UNCHANGED <<req, recorded>> /\ faults' > 0
    BY <1>6, <1>t DEF Crash
  <2> QED
    BY <1>0, <1>t, <2>1 DEF Receipt
<1>7. CASE UNCHANGED vars
  BY <1>7, <1>t DEF vars, Receipt
<1> QED
  BY <1>3, <1>4, <1>5, <1>6, <1>7 DEF Next

\* A data request answered 200 is on record; one on record was answered 500 only
\* by a fault between its commit and its answer (content.py:61-70).
THEOREM DataRequestsKept == Spec => [](\A r \in Requests : Receipt(r))
<1> DEFINE R == \A r \in Requests : Receipt(r)
<1>1. Init => R
  BY DEF Init, Receipt
<1>2. IInv /\ R /\ [Next]_vars => R'
  BY ReceiptNext
<1> HIDE DEF R
<1>3. Spec => []R
  BY <1>1, <1>2, Invariance, PTL DEF Spec
<1> QED
  BY <1>3 DEF R

-----------------------------------------------------------------------------
(***************************************************************************)
(* The requests implement Register.                                        *)
(***************************************************************************)
Value == [m \in Emails |-> Standing(donors[m])]

Phase == [r \in Requests |->
            IF pc[r] \in {"200", "404"} THEN "answered"
            ELSE IF pc[r] = "500" THEN "failed"
            ELSE IF Effective(r) THEN "effective" ELSE "made"]

LEMMA ChoiceInit == Init => Choice!Init
BY DEF Init, Choice!Init, Effective

\* A handler that moves on inside its transaction shows nothing.
LEMMA Invisible ==
  ASSUME TypeOK, NEW r \in Requests, NEW label \in InFlight,
         pc[r] \in InFlight, Goto(r, label),
         Effective(r)' <=> Effective(r),
         UNCHANGED <<req, donors, seen>>
  PROVE  UNCHANGED Choice!vars
<1>1. \A q \in Requests \ {r} : pc'[q] = pc[q] /\ (Effective(q)' <=> Effective(q))
  BY DEF TypeOK, Goto, Effective
<1>2. Phase' = Phase
  BY <1>1 DEF Phase, Goto, TypeOK, InFlight
<1> QED
  BY <1>2 DEF Choice!vars, Phase, Value

\* A handler that raises fails for the register.
LEMMA Failing ==
  ASSUME TypeOK, NEW r \in Requests, pc[r] \in InFlight, Goto(r, "500"), Sees(r),
         UNCHANGED <<req, donors>>
  PROVE  Choice!Next
<1>1. \A q \in Requests \ {r} : pc'[q] = pc[q] /\ (Effective(q)' <=> Effective(q))
  BY DEF TypeOK, Goto, Effective, Sees
<1>2. /\ \A q \in {r} : Phase[q] \in {"made", "effective"}
      /\ Phase' = [q \in Requests |-> IF q \in {r} THEN "failed" ELSE Phase[q]]
  BY <1>1 DEF Phase, Goto, TypeOK, InFlight
<1>3. Value' = Value
  BY DEF Value
<1>4. Choice!Fail({r})
  BY <1>2, <1>3 DEF Choice!Fail, Phase, Value
<1> QED
  BY <1>4, {r} \in SUBSET Requests DEF Choice!Next

\* A request takes effect where its key's value becomes one it asked for.
LEMMA TakingEffect ==
  ASSUME TypeOK, NEW r \in Requests, Phase[r] = "made",
         \A q \in Requests \ {r} : pc'[q] = pc[q] /\ (Effective(q)' <=> Effective(q)),
         Phase'[r] \in {"effective", "answered", "failed"},
         Value' = [Value EXCEPT ![Email(r)] = Value'[Email(r)]],
         Value'[Email(r)] \in Effect(req[r], Value[Email(r)]),
         req' = req
  PROVE  Choice!Next
<1>1. Phase' = [Phase EXCEPT ![r] = Phase'[r]]
  BY DEF Phase
<1>2. Choice!TakeEffect(r)
  BY <1>1 DEF Choice!TakeEffect, Phase, Value, Email, AskEmail
<1> QED
  BY <1>2 DEF Choice!Next

LEMMA ChoiceNext == IInv /\ [Next]_vars => [Choice!Next]_(Choice!vars)
<1> SUFFICES ASSUME IInv, [Next]_vars PROVE [Choice!Next]_(Choice!vars)
  OBVIOUS
<1>t. TypeOK /\ \A r \in Requests : Point(r) /\ Email(r) \in Emails
  BY AskFacts DEF IInv, Email
<1>1. ASSUME NEW r \in Requests, NEW ops, NEW label, Load(r, ops, label),
             \/ label \in {"insert", "500"}
             \/ label \in {"call", "update", "ask", "commit"} /\ Old(r).there
             \/ label \in {"200", "404"} /\ ~Old(r).there /\ req[r].op \notin Gives \union {"subscribe"}
      PROVE  [Choice!Next]_(Choice!vars)
  <2>1. /\ pc[r] = "select" /\ pc'[r] = label /\ seen'[r] = Old(r)
        /\ UNCHANGED <<req, donors>> /\ Goto(r, label) /\ Sees(r)
        /\ \A q \in Requests \ {r} : pc'[q] = pc[q] /\ (Effective(q)' <=> Effective(q))
    BY <1>1, <1>t DEF Load, Goto, Sees, Effective, TypeOK, Email, Old
  <2>2. Phase[r] = "made" /\ Value' = Value /\ Value[Email(r)] = Standing(Old(r))
    BY <1>t, <2>1 DEF Phase, Effective, Value, Old
  <2>3. CASE label = "500"
    BY <1>t, <2>1, <2>3, Failing DEF InFlight
  <2>4. CASE label # "500" /\ Phase'[r] = "made"
    <3>1. Phase' = Phase
      BY <2>1, <2>2, <2>4 DEF Phase
    <3> QED
      BY <2>1, <2>2, <3>1 DEF Choice!vars, Phase, Value
  <2>5. CASE label # "500" /\ Phase'[r] # "made"
    <3>1. Standing(Old(r)) \in Effect(req[r], Standing(Old(r)))
      <4>1. CASE label \in {"200", "404"}
        BY <1>1, <4>1 DEF Standing, Effect, Consenting
      <4>2. CASE label \notin {"200", "404"}
        <5>1. Effective(r)'
          BY <2>1, <2>5, <4>2 DEF Phase
        <5>2. Old(r).there /\ Standing(Assigned(req[r], r, Old(r))) = Standing(Old(r))
          BY <2>1, <5>1 DEF Effective
        <5>3. CASE Consenting(req[r])
          BY <5>2, <5>3 DEF Assigned, Standing, Effect
        <5>4. CASE ~Consenting(req[r]) /\ req[r].op = "unsubscribe"
          <6>1. Old(r) \in Rows
            BY <1>t, AskFacts DEF Old, Email
          <6>2. ~Assigned(req[r], r, Old(r)).on /\ Assigned(req[r], r, Old(r)).there
            BY <5>2, <5>4, <6>1 DEF Assigned, Rows
          <6>3. Standing(Old(r)) = "off"
            BY <5>2, <6>2 DEF Standing
          <6> QED
            BY <5>4, <6>3 DEF Effect
        <5>5. CASE ~Consenting(req[r]) /\ req[r].op # "unsubscribe"
          BY <5>2, <5>5 DEF Effect, Standing
        <5> QED
          BY <5>3, <5>4, <5>5
      <4> QED
        BY <4>1, <4>2
    <3>2. Phase'[r] \in {"effective", "answered", "failed"}
      BY <2>5 DEF Phase
    <3>3. Value' = [Value EXCEPT ![Email(r)] = Value'[Email(r)]]
      BY <2>2 DEF Value
    <3> QED
      BY <1>t, <2>1, <2>2, <3>1, <3>2, <3>3, TakingEffect
  <2> QED
    BY <2>3, <2>4, <2>5
<1>2. ASSUME NEW r \in Requests,
             LoadSubscribe(r) \/ LoadGive(r) \/ LoadUnsubscribe(r) \/ LoadAsk(r)
      PROVE  [Choice!Next]_(Choice!vars)
  BY <1>1, <1>2 DEF LoadSubscribe, LoadGive, LoadUnsubscribe, LoadAsk, Load, Old, Email, Gives
<1>3. ASSUME NEW r \in Requests,
             InsertDonor(r) \/ ProviderReturns(r) \/ UpdateDonor(r) \/ InsertDataRequest(r)
      PROVE  UNCHANGED Choice!vars
  <2>1. PICK label \in {"call", "update", "commit"} :
          Goto(r, label) /\ pc[r] \in {"insert", "call", "update", "ask"}
    BY <1>3 DEF InsertDonor, ProviderReturns, UpdateDonor, InsertDataRequest, Goto
  <2>2. UNCHANGED <<req, donors, seen>> /\ (pc[r] = "insert" => ~seen[r].there)
    BY <1>3, <1>t DEF InsertDonor, ProviderReturns, UpdateDonor, InsertDataRequest, Point
  <2>3. Effective(r)' <=> Effective(r)
    BY <1>t, <2>1, <2>2 DEF Effective, Goto, TypeOK
  <2> QED
    BY <1>t, <2>1, <2>2, <2>3, Invisible DEF InFlight
<1>4. ASSUME NEW r \in Requests, DonorConflict(r) \/ ProviderRaises(r) \/ Fault(r)
      PROVE  Choice!Next
  BY <1>4, <1>t, Failing DEF DonorConflict, ProviderRaises, Fault, Abort, Sees, InFlight
<1>5. ASSUME NEW r \in Requests, NEW label \in {"200", "500"}, TakesEffect(r), Goto(r, label)
      PROVE  Choice!Next
  <2>1. /\ pc[r] = "commit" /\ pc'[r] = label /\ UNCHANGED <<req, seen>>
        /\ Point(r) /\ Email(r) \in Emails
        /\ donors' = [donors EXCEPT ![Email(r)] = New(r)]
        /\ \A q \in Requests \ {r} : pc'[q] = pc[q] /\ (Effective(q)' <=> Effective(q))
    BY <1>5, <1>t DEF TakesEffect, Goto, TypeOK, Email, New, Old, Effective
  <2>2. /\ Value[Email(r)] = Standing(Old(r))
        /\ Value' = [Value EXCEPT ![Email(r)] = Standing(New(r))]
        /\ Value'[Email(r)] = Standing(New(r))
    BY <1>t, <2>1 DEF Value, TypeOK, Old
  <2>3. New(r).there /\ Old(r) \in Rows /\ New(r) \in Rows /\ (seen[r].there => Old(r).there)
    BY <1>t, <2>1, WrittenRow, ConsentWritten, OtherWritten
  <2>4. Phase'[r] = IF label = "200" THEN "answered" ELSE "failed"
    BY <2>1 DEF Phase
  <2>5. seen[r].there => (Effective(r) <=> Standing(Assigned(req[r], r, seen[r])) = Standing(seen[r]))
    BY <2>1 DEF Effective
  <2>6. ~seen[r].there => ~Effective(r)
    BY DEF Effective
  <2>7. CASE Effective(r)
    <3>1. seen[r].there /\ seen[r] \in Rows
      BY <1>t, <2>6, <2>7, AskFacts
    <3>2. New(r).on <=> Old(r).on
      <4>1. CASE Consenting(req[r])
        <5>1. seen[r].on
          BY <2>5, <2>7, <3>1, <4>1 DEF Assigned, Standing
        <5> QED
          BY <1>t, <2>1, <3>1, <4>1, <5>1, ConsentWritten
      <4>2. CASE ~Consenting(req[r])
        <5>1. ~(req[r].op = "unsubscribe" /\ seen[r].on)
          <6>1. SUFFICES ASSUME req[r].op = "unsubscribe", seen[r].on PROVE FALSE
            OBVIOUS
          <6>2. ~Assigned(req[r], r, seen[r]).on /\ Assigned(req[r], r, seen[r]).there
            BY <3>1, <4>2, <6>1 DEF Assigned, Rows
          <6> QED
            BY <2>5, <2>7, <3>1, <6>1, <6>2 DEF Standing
        <5> QED
          BY <1>t, <2>1, <3>1, <4>2, <5>1, OtherWritten
      <4> QED
        BY <4>1, <4>2
    <3>3. Value' = Value
      BY <2>2, <2>3, <3>1, <3>2 DEF Value, Standing
    <3>4. Phase[r] = "effective"
      BY <2>1, <2>7 DEF Phase
    <3>5. CASE label = "200"
      <4>1. Phase' = [Phase EXCEPT ![r] = "answered"]
        BY <2>1, <2>4, <3>5 DEF Phase
      <4>2. Choice!Answer(r)
        BY <2>1, <3>3, <3>4, <4>1 DEF Choice!Answer, Phase, Value
      <4> QED
        BY <4>2 DEF Choice!Next
    <3>6. CASE label = "500"
      <4>1. Phase' = [q \in Requests |-> IF q \in {r} THEN "failed" ELSE Phase[q]]
        BY <2>1, <2>4, <3>6 DEF Phase
      <4>2. Choice!Fail({r})
        BY <2>1, <3>3, <3>4, <4>1 DEF Choice!Fail, Phase, Value
      <4> QED
        BY <4>2, {r} \in SUBSET Requests DEF Choice!Next
    <3> QED
      BY <3>5, <3>6
  <2>8. CASE ~Effective(r)
    <3>1. Phase[r] = "made"
      BY <2>1, <2>8 DEF Phase
    <3>2. Standing(New(r)) \in Effect(req[r], Standing(Old(r)))
      <4>1. CASE Consenting(req[r])
        <5>1. ~(seen[r].there /\ seen[r].on)
          BY <2>5, <2>8, <4>1 DEF Assigned, Standing
        <5>2. New(r).on
          BY <1>t, <2>1, <4>1, <5>1, ConsentWritten
        <5> QED
          BY <2>3, <4>1, <5>2 DEF Standing, Effect
      <4>2. CASE ~Consenting(req[r]) /\ ~seen[r].there
        <5>1. req[r].op \in Gives /\ ~Old(r).there
          BY <2>1, <4>2 DEF Point, Old, Consenting
        <5>2. ~New(r).on
          BY <1>t, <2>1, <4>2, OtherWritten
        <5> QED
          BY <2>3, <4>2, <5>1, <5>2 DEF Standing, Effect
      <4>3. CASE ~Consenting(req[r]) /\ seen[r].there
        <5>1. seen[r] \in Rows
          BY <1>t, AskFacts
        <5>2. req[r].op = "unsubscribe"
          BY <2>5, <2>8, <4>3 DEF Assigned
        <5>3. seen[r].on
          <6>1. SUFFICES ASSUME ~seen[r].on PROVE FALSE
            OBVIOUS
          <6>2. ~Assigned(req[r], r, seen[r]).on /\ Assigned(req[r], r, seen[r]).there
            BY <4>3, <5>1, <5>2 DEF Assigned, Rows
          <6> QED
            BY <2>5, <2>8, <4>3, <6>1, <6>2 DEF Standing
        <5>4. ~New(r).on
          BY <1>t, <2>1, <4>3, <5>2, <5>3, OtherWritten
        <5> QED
          BY <2>3, <4>3, <5>2, <5>4 DEF Standing, Effect
      <4> QED
        BY <4>1, <4>2, <4>3
    <3>3. Value'[Email(r)] \in Effect(req[r], Value[Email(r)])
      BY <2>2, <3>2
    <3>4. Value' = [Value EXCEPT ![Email(r)] = Value'[Email(r)]]
      BY <2>2
    <3>5. Phase'[r] \in {"effective", "answered", "failed"}
      BY <2>4
    <3> QED
      BY <1>t, <2>1, <3>1, <3>3, <3>4, <3>5, TakingEffect
  <2> QED
    BY <2>7, <2>8
<1>6. ASSUME NEW r \in Requests, Commit(r) \/ CommitUnheard(r) PROVE Choice!Next
  BY <1>5, <1>6 DEF Commit, CommitUnheard
<1>7. CASE Crash
  <2>1. PICK R \in SUBSET Requests :
          \A r \in Requests : r \in R <=> pc[r] \in InFlight \ {"select"}
    <3>1. {r \in Requests : pc[r] \in InFlight \ {"select"}} \in SUBSET Requests
      OBVIOUS
    <3> QED
      BY <3>1
  <2>2. \A q \in Requests : pc'[q] = IF q \in R THEN "500" ELSE pc[q]
    BY <1>7, <1>t, <2>1 DEF Crash, TypeOK
  <2>3. \A q \in Requests \ R : pc'[q] = pc[q] /\ (Effective(q)' <=> Effective(q))
    BY <1>7, <2>2 DEF Crash, Effective
  <2>4. /\ \A q \in R : Phase[q] \in {"made", "effective"}
        /\ Phase' = [q \in Requests |-> IF q \in R THEN "failed" ELSE Phase[q]]
    BY <2>1, <2>2, <2>3 DEF Phase, InFlight
  <2>5. Choice!Fail(R)
    BY <1>7, <2>4 DEF Crash, Choice!Fail, Phase
  <2> QED
    BY <2>5 DEF Choice!Next
<1>8. CASE UNCHANGED vars
  BY <1>8 DEF vars, Choice!vars, Effective
<1> QED
  BY <1>2, <1>3, <1>4, <1>6, <1>7, <1>8 DEF Next, Step

\* What a donor agreed to is an atomic register: every request takes effect at
\* one moment, as if it were alone, or never (content.py, donations.py).
THEOREM ImplementsRegister == Spec => ChoiceSpec
<1> QED
  BY ChoiceInit, ChoiceNext, Invariance, PTL DEF Spec, ChoiceSpec, Choice!Spec
=============================================================================
