---------------------------- MODULE AdminProofs ----------------------------
(***************************************************************************)
(* Theorems about Admin, for any number of requests, clients, accounts and *)
(* posts, any limit, window and age of a session, any number of faults.    *)
(*                                                                         *)
(* The inductive invariant has a part for the limiter (Limits: what it     *)
(* remembers lies between what it accepted lately and all it accepted),    *)
(* for each request (Point, Earned) and for each post (Made).              *)
(***************************************************************************)
EXTENDS Admin, FiniteSetTheorems, TLAPS

Limits ==
  \A key \in Keys :
    /\ IsFiniteSet(hits[key]) /\ Cardinality(hits[key]) <= MaxAttempts
    /\ Lately(key) \subseteq hits[key]
    /\ hits[key] \subseteq accepted[key]

\* What is true of a request at each point of its handler.
Point(r) ==
  /\ pc[r] \in {"select", "stamp"} => IsLogin(r)
  /\ pc[r] \in {"admit", "get", "write"} => ~IsLogin(r)
  /\ pc[r] = "get" => req[r].op \in {"update", "delete"}
  /\ (IsLogin(r) /\ pc[r] \in {"stamp", "commit"}) => req[r].good /\ checked[r] \in 0..now
  /\ issued[r] # Unset =>
       /\ IsLogin(r) /\ req[r].good /\ pc[r] = "200"
       /\ issued[r] \in 0..now /\ checked[r] \in 0..issued[r]
  /\ (pc[r] \in {"write", "commit"} /\ ~IsLogin(r)) =>
       /\ req[r].op \in Edits
       /\ req[r].op # "create" => seen[r].there
  /\ r \in holds =>
       /\ pc[r] = "commit"
       /\ req[r].op = "update" => Row(r).there
  /\ (pc[r] = "commit" /\ ~IsLogin(r) /\ r \notin holds) =>
       req[r].op = "update" /\ Wanted(r) = seen[r]

Earned(r) ==
  (~IsLogin(r) /\ pc[r] \in {"admit", "get", "write", "commit", "200", "404"}) =>
    /\ req[r].cookie \in Tokens /\ issued[req[r].cookie] \in Times
    /\ checked[r] \in issued[req[r].cookie]..(issued[req[r].cookie] + SessionMaxAge)
    /\ req[r].cookie \in Requests =>
         /\ IsLogin(req[r].cookie) /\ req[req[r].cookie].good /\ pc[req[r].cookie] = "200"
         /\ checked[req[r].cookie] <= issued[req[r].cookie]

\* Where a post comes from.
Made(p) ==
  /\ ~posts[p].there => posts[p].date = Unset
  /\ (p \in Requests /\ posts[p].there) => req[p].op = "create" /\ pc[p] \notin InFlight

OneWriter ==
  \A q, r \in holds : (~IsLogin(q) /\ ~IsLogin(r) /\ PostOf(q) = PostOf(r)) => q = r

\* All but the limiter.
Handling ==
  /\ \A r \in Requests : Point(r) /\ Earned(r)
  /\ \A p \in PostIds : Made(p)
  /\ \A e \in Accounts : issued[e] = 0
  /\ OneWriter

IInv == TypeOK /\ Limits /\ Handling

-----------------------------------------------------------------------------
LEMMA AskFacts ==
  ASSUME TypeOK, NEW r \in Requests
  PROVE  /\ req[r] \in Logins \union Protected
         /\ IsLogin(r) => /\ req[r] \in Logins /\ req[r].email \in Accounts
                          /\ KeyOf(r) \in Keys
         /\ ~IsLogin(r) => req[r] \in Protected
         /\ PostOf(r) \in PostIds /\ Row(r) \in Rows
         /\ ~IsLogin(r) /\ req[r].cookie \in Requests => IsLogin(req[r].cookie)
         /\ ~IsLogin(r) /\ req[r].cookie # NoCookie => req[r].cookie \in Tokens
<1>1. req[r] \in Logins \union Protected
  BY DEF TypeOK, Mixes
<1>2. IsLogin(r) => req[r] \in Logins
  BY <1>1 DEF IsLogin, Protected, Edits
<1>3. ~IsLogin(r) => req[r] \in Protected
  BY <1>1 DEF IsLogin, Logins
<1>4. IsLogin(r) => req[r].email \in Accounts /\ KeyOf(r) \in Keys
  BY <1>2, KeysAssumption DEF Logins, KeyOf
<1>5. PostOf(r) \in PostIds /\ Row(r) \in Rows
  <2>1. req[r].op \in {"update", "delete"} => req[r].post \in PostIds
    BY <1>2, <1>3 DEF Logins, Protected, IsLogin
  <2>2. PostOf(r) \in PostIds
    BY <2>1 DEF PostOf, PostIds
  <2> QED
    BY <2>2 DEF Row, TypeOK
<1>6. ~IsLogin(r) /\ req[r].cookie \in Requests => IsLogin(req[r].cookie)
  BY DEF TypeOK, Mixes, IsLogin
<1>7. ~IsLogin(r) /\ req[r].cookie # NoCookie => req[r].cookie \in Tokens
  BY <1>3 DEF Protected
<1> QED
  BY <1>1, <1>2, <1>3, <1>4, <1>5, <1>6, <1>7

LEMMA RowFacts ==
  /\ NoPost \in Rows
  /\ \A row \in [there : {TRUE}, slug : Slugs, date : {Unset, Earlier}] : row \in Rows
  /\ \A r \in Requests, a \in Protected, row \in Rows :
       Created(a, r) \in Rows /\ Updated(a, r, row) \in Rows
<1>1. NoPost \in Rows
  BY DEF NoPost, Rows
<1>2. ASSUME NEW row \in [there : {TRUE}, slug : Slugs, date : {Unset, Earlier}]
      PROVE  row \in Rows
  BY DEF Rows
<1>3. ASSUME NEW r \in Requests, NEW a \in Protected, NEW row \in Rows
      PROVE  Created(a, r) \in Rows /\ Updated(a, r, row) \in Rows
  <2>1. a.slug \in Slugs /\ row.date \in Requests \union {Unset, Earlier}
    BY DEF Protected, Rows
  <2> QED
    BY <2>1 DEF Created, Updated, Rows
<1> QED
  BY <1>1, <1>2, <1>3

\* What an edit writes, column by column.
LEMMA WrittenRow ==
  ASSUME TypeOK, NEW r \in Requests, ~IsLogin(r), req[r].op \in Edits, NEW row \in Rows
  PROVE  /\ Wanted(r) \in Rows /\ Written(r, row) \in Rows
         /\ req[r].op = "create" => Written(r, row) = Created(req[r], r)
         /\ req[r].op = "delete" => Written(r, row) = NoPost
         /\ req[r].op = "update" =>
              /\ Wanted(r) = Updated(req[r], r, seen[r])
              /\ Written(r, row).there = IF Wanted(r).there # seen[r].there THEN Wanted(r).there ELSE row.there
              /\ Written(r, row).slug = IF Wanted(r).slug # seen[r].slug THEN Wanted(r).slug ELSE row.slug
              /\ Written(r, row).date = IF Wanted(r).date # seen[r].date THEN Wanted(r).date ELSE row.date
<1>1. seen[r] \in Rows /\ req[r] \in Protected
  BY AskFacts DEF TypeOK
<1>2. /\ req[r].op = "create" => Wanted(r) = Created(req[r], r)
      /\ req[r].op = "delete" => Wanted(r) = NoPost
      /\ req[r].op = "update" => Wanted(r) = Updated(req[r], r, seen[r])
  BY DEF Wanted, Edits
<1>3. Wanted(r) \in Rows
  BY <1>1, <1>2, RowFacts DEF Edits
<1>4. DOMAIN row = {"there", "slug", "date"}
  BY DEF Rows
<1>5. ASSUME req[r].op = "update"
      PROVE  /\ Written(r, row) \in Rows
             /\ Written(r, row).there = IF Wanted(r).there # seen[r].there THEN Wanted(r).there ELSE row.there
             /\ Written(r, row).slug = IF Wanted(r).slug # seen[r].slug THEN Wanted(r).slug ELSE row.slug
             /\ Written(r, row).date = IF Wanted(r).date # seen[r].date THEN Wanted(r).date ELSE row.date
  <2> DEFINE new == Written(r, row)
  <2>1. new = [c \in {"there", "slug", "date"} |->
                 IF Wanted(r)[c] # seen[r][c] THEN Wanted(r)[c] ELSE row[c]]
    BY <1>4, <1>5 DEF Written
  <2>2. /\ new.there = IF Wanted(r).there # seen[r].there THEN Wanted(r).there ELSE row.there
        /\ new.slug = IF Wanted(r).slug # seen[r].slug THEN Wanted(r).slug ELSE row.slug
        /\ new.date = IF Wanted(r).date # seen[r].date THEN Wanted(r).date ELSE row.date
    BY <2>1
  <2>3. new = [there |-> new.there, slug |-> new.slug, date |-> new.date]
    BY <2>1
  <2>4. /\ new.there \in BOOLEAN
        /\ new.slug \in Slugs \union {Unset}
        /\ new.date \in Requests \union {Unset, Earlier}
    BY <1>3, <2>2 DEF Rows
  <2>5. new \in Rows
    BY <2>3, <2>4 DEF Rows
  <2> QED
    BY <2>2, <2>5
<1>6. req[r].op # "update" => Written(r, row) = Wanted(r)
  BY DEF Written
<1> QED
  BY <1>2, <1>3, <1>5, <1>6

-----------------------------------------------------------------------------
(***************************************************************************)
(* The limiter.                                                            *)
(***************************************************************************)
LEMMA LimiterInv ==
  ASSUME LimiterTypeOK, Limits,
         \/ \E key \in Keys, caller \in Callers : Allow(key, caller)
         \/ \E key \in Keys : Deny(key)
         \/ Tick \/ Forget \/ UNCHANGED limiterVars
  PROVE  LimiterTypeOK' /\ Limits'
<1>1. ASSUME NEW key \in Keys, NEW caller \in Callers, Allow(key, caller)
      PROVE  LimiterTypeOK' /\ Limits'
  <2> DEFINE new == [by |-> caller, at |-> now]
  <2>1. /\ now' = now /\ new \in Attempts
        /\ hits' = [hits EXCEPT ![key] = Recent(hits[key]) \union {new}]
        /\ accepted' = [accepted EXCEPT ![key] = accepted[key] \union {new}]
        /\ Cardinality(Recent(hits[key])) < MaxAttempts
    BY <1>1 DEF Allow, Remember, LimiterTypeOK, Attempts
  <2>2. Recent(hits[key]) \subseteq hits[key] /\ hits[key] \subseteq Attempts
    BY DEF Recent, LimiterTypeOK
  <2>3. LimiterTypeOK'
    BY <2>1, <2>2 DEF LimiterTypeOK
  <2>4. ASSUME NEW k \in Keys, k # key
        PROVE  hits'[k] = hits[k] /\ accepted'[k] = accepted[k] /\ Lately(k)' = Lately(k)
    BY <2>1, <2>4 DEF LimiterTypeOK, Lately
  <2>5. hits'[key] = Recent(hits[key]) \union {new} /\ accepted'[key] = accepted[key] \union {new}
    BY <2>1 DEF LimiterTypeOK
  <2>6. IsFiniteSet(Recent(hits[key])) /\ Cardinality(Recent(hits[key])) \in Nat
    BY <2>2, FS_Subset, FS_CardinalityType DEF Limits
  <2>7. IsFiniteSet(hits'[key]) /\ Cardinality(hits'[key]) <= MaxAttempts
    <3>1. /\ IsFiniteSet(Recent(hits[key]) \union {new})
          /\ \/ Cardinality(Recent(hits[key]) \union {new}) = Cardinality(Recent(hits[key]))
             \/ Cardinality(Recent(hits[key]) \union {new}) = Cardinality(Recent(hits[key])) + 1
      BY <2>6, FS_AddElement
    <3>2. Cardinality(Recent(hits[key]) \union {new}) <= MaxAttempts
      BY <2>1, <2>6, <3>1, MaxAttemptsAssumption
    <3> QED
      BY <2>5, <3>1, <3>2
  <2>8. Lately(key)' \subseteq hits'[key]
    BY <2>1, <2>5 DEF Limits, Lately, Recent
  <2>9. hits'[key] \subseteq accepted'[key]
    BY <2>2, <2>5 DEF Limits
  <2> QED
    BY <2>3, <2>4, <2>7, <2>8, <2>9 DEF Limits
<1>2. ASSUME NEW key \in Keys, Deny(key) PROVE LimiterTypeOK' /\ Limits'
  <2>1. /\ now' = now /\ accepted' = accepted
        /\ hits' = [hits EXCEPT ![key] = Recent(hits[key])]
    BY <1>2 DEF Deny
  <2>2. Recent(hits[key]) \subseteq hits[key]
    BY DEF Recent
  <2>3. LimiterTypeOK'
    BY <2>1, <2>2 DEF LimiterTypeOK
  <2>4. hits'[key] = Recent(hits[key]) /\ \A k \in Keys \ {key} : hits'[k] = hits[k]
    BY <2>1 DEF LimiterTypeOK
  <2>5. IsFiniteSet(hits'[key]) /\ Cardinality(hits'[key]) <= MaxAttempts
    BY <2>2, <2>4, FS_Subset, FS_CardinalityType, MaxAttemptsAssumption DEF Limits
  <2>6. \A k \in Keys : Lately(k)' = Lately(k)
    BY <2>1 DEF Lately
  <2>7. Lately(key)' \subseteq hits'[key]
    BY <2>4, <2>6 DEF Limits, Lately, Recent
  <2> QED
    BY <2>1, <2>2, <2>3, <2>4, <2>5, <2>6, <2>7 DEF Limits
<1>3. CASE Tick
  <2>1. \A k \in Keys : Lately(k)' \subseteq Lately(k)
    BY <1>3, WindowAssumption DEF Tick, Lately, LimiterTypeOK, Attempts, Times
  <2>2. LimiterTypeOK'
    BY <1>3, MaxTimeAssumption DEF Tick, LimiterTypeOK, Attempts, Times
  <2> QED
    BY <1>3, <2>1, <2>2 DEF Tick, Limits
<1>4. CASE Forget
  BY <1>4, FS_EmptySet, MaxAttemptsAssumption DEF Forget, Limits, Lately, LimiterTypeOK
<1>5. CASE UNCHANGED limiterVars
  BY <1>5 DEF limiterVars, Limits, Lately, LimiterTypeOK, Attempts, Times
<1> QED
  BY <1>1, <1>2, <1>3, <1>4, <1>5

-----------------------------------------------------------------------------
(***************************************************************************)
(* The requests.                                                           *)
(***************************************************************************)
LEMMA InitInv == Init => IInv
<1> SUFFICES ASSUME Init PROVE IInv
  OBVIOUS
<1>1. LimiterTypeOK /\ Limits
  BY FS_EmptySet, MaxAttemptsAssumption, MaxTimeAssumption
  DEF Init, LimiterInit, LimiterTypeOK, Limits, Lately, Times
<1>2. /\ posts \in [PostIds -> {NoPost} \union [there : {TRUE}, slug : Slugs, date : {Unset, Earlier}]]
      /\ \A p \in Requests : posts[p] = NoPost
  BY BeforeAssumption DEF Init, EarlierPosts
<1>3. posts \in [PostIds -> Rows]
  BY <1>2, RowFacts
<1>4. issued \in [Tokens -> Times \union {Unset}]
  BY MaxTimeAssumption DEF Init, Times
<1>5. TypeOK
  BY <1>1, <1>3, <1>4, RowFacts, AskedAssumption, MaxFaultsAssumption
  DEF Init, TypeOK, InFlight
<1>6. \A r \in Requests : Point(r) /\ Earned(r)
  BY NamesAssumption DEF Init, Point, Earned, Tokens
<1>7. ASSUME NEW p \in PostIds PROVE Made(p)
  <2>1. NoPost.there = FALSE /\ NoPost.date = Unset
    BY DEF NoPost
  <2>2. posts[p] = NoPost \/ posts[p].there = TRUE
    BY <1>2
  <2> QED
    BY <1>2, <2>1, <2>2 DEF Made
<1> QED
  BY <1>1, <1>5, <1>6, <1>7 DEF Init, IInv, Handling, OneWriter, Tokens

\* A request in flight moves on or is answered; it commits nothing.
LEMMA Advances ==
  ASSUME TypeOK, Handling, NEW r \in Requests, pc[r] \in InFlight,
         \A q \in Requests \ {r} :
           /\ pc'[q] = pc[q] /\ checked'[q] = checked[q] /\ seen'[q] = seen[q]
           /\ q \in holds' <=> q \in holds,
         holds' \subseteq Requests,
         (r \in holds' /\ r \notin holds) => IsLogin(r) \/ ~Waits(r),
         UNCHANGED <<req, issued, posts, now>>,
         Point(r)', Earned(r)'
  PROVE  Handling'
<1>1. ASSUME NEW q \in Requests PROVE Point(q)'
  <2>1. CASE q = r
    BY <2>1
  <2>2. CASE q # r
    <3>1. Wanted(q)' = Wanted(q) /\ Row(q)' = Row(q) /\ (IsLogin(q)' <=> IsLogin(q))
      BY <2>2 DEF Wanted, Row, PostOf, IsLogin
    <3> QED
      BY <2>2, <3>1 DEF Handling, Point
  <2> QED
    BY <2>1, <2>2
<1>2. ASSUME NEW q \in Requests PROVE Earned(q)'
  <2>1. CASE q = r
    BY <2>1
  <2>2. CASE q # r
    <3>1. ASSUME ~IsLogin(q), pc[q] \in {"admit", "get", "write", "commit", "200", "404"},
                 req[q].cookie \in Requests
          PROVE  req[q].cookie # r
      BY <3>1 DEF Handling, Earned, InFlight
    <3> QED
      BY <2>2, <3>1 DEF Handling, Earned, IsLogin
  <2> QED
    BY <2>1, <2>2
<1>3. \A p \in PostIds : Made(p)'
  BY DEF Handling, Made
<1>4. OneWriter'
  <2> SUFFICES ASSUME NEW p \in holds', NEW q \in holds', ~IsLogin(p), ~IsLogin(q),
                      PostOf(p) = PostOf(q), p # q
               PROVE  FALSE
    BY DEF OneWriter, IsLogin, PostOf
  <2>1. CASE p # r /\ q # r
    BY <2>1 DEF Handling, OneWriter
  <2>2. CASE p = r
    BY <2>2 DEF Handling, OneWriter, Waits
  <2>3. CASE q = r
    BY <2>3 DEF Handling, OneWriter, Waits
  <2> QED
    BY <2>1, <2>2, <2>3
<1> QED
  BY <1>1, <1>2, <1>3, <1>4 DEF Handling

\* An answer that is no success.
LEMMA Refuses ==
  ASSUME TypeOK, Handling, NEW r \in Requests, pc[r] \in InFlight,
         NEW label \in {"401", "429", "500"}, Goto(r, label), holds' = holds \ {r},
         UNCHANGED <<req, issued, checked, seen, posts, now>>
  PROVE  Handling'
<1>1. pc'[r] = label /\ \A q \in Requests \ {r} : pc'[q] = pc[q]
  BY DEF TypeOK, Goto
<1>2. issued[r] = Unset
  BY DEF Handling, Point, InFlight
<1>3. Point(r)' /\ Earned(r)'
  BY <1>1, <1>2 DEF Point, Earned
<1> QED
  BY <1>1, <1>3, Advances DEF TypeOK

\* What the commit of an edit makes of its post.
LEMMA NewRowFacts ==
  ASSUME TypeOK, Handling, NEW r \in Requests, ~IsLogin(r), pc[r] = "commit"
  PROVE  /\ Row(r) \in Rows /\ NewRow(r) \in Rows /\ req[r].op \in Edits
         /\ req[r].op = "create" => /\ NewRow(r) = Created(req[r], r)
                                    /\ PostOf(r) = r /\ ~Row(r).there
         /\ req[r].op = "delete" => NewRow(r) = NoPost
         /\ req[r].op = "update" =>
              /\ seen[r] \in Rows /\ seen[r].there
              /\ NewRow(r).there = Row(r).there
              /\ NewRow(r).date = IF Updated(req[r], r, seen[r]).date # seen[r].date
                                  THEN Updated(req[r], r, seen[r]).date ELSE Row(r).date
              /\ r \in holds => Row(r).there
         /\ r \notin holds =>
              req[r].op = "update" /\ Wanted(r) = seen[r]
              /\ NewRow(r).there = Row(r).there /\ NewRow(r).date = Row(r).date
         /\ ~NewRow(r).there => NewRow(r).date = Unset
<1>t. Point(r) /\ Row(r) \in Rows /\ req[r].op \in Edits /\ PostOf(r) \in PostIds /\ seen[r] \in Rows
  BY AskFacts DEF Handling, Point, TypeOK
<1>1. NewRow(r) \in Rows
  BY <1>t, WrittenRow DEF NewRow
<1>2. req[r].op = "create" => NewRow(r) = Created(req[r], r) /\ PostOf(r) = r /\ ~Row(r).there
  <2>1. req[r].op = "create" => NewRow(r) = Created(req[r], r) /\ PostOf(r) = r
    BY <1>t, WrittenRow DEF NewRow, PostOf
  <2>2. PostOf(r) = r => ~Row(r).there
    BY <1>t DEF Handling, Made, Row, InFlight
  <2> QED
    BY <2>1, <2>2
<1>3. req[r].op = "delete" => NewRow(r) = NoPost
  BY <1>t, WrittenRow DEF NewRow
<1>4. ASSUME req[r].op = "update"
      PROVE  /\ seen[r].there
             /\ Wanted(r) = Updated(req[r], r, seen[r])
             /\ NewRow(r).there = Row(r).there
             /\ NewRow(r).date = IF Wanted(r).date # seen[r].date THEN Wanted(r).date ELSE Row(r).date
             /\ r \in holds => Row(r).there
  <2>1. seen[r].there /\ (r \in holds => Row(r).there)
    BY <1>4, <1>t DEF Point, IsLogin
  <2>2. Wanted(r) = Updated(req[r], r, seen[r])
    BY <1>4, <1>t, WrittenRow
  <2>3. Wanted(r).there = TRUE /\ seen[r].there = TRUE
    BY <1>t, <2>1, <2>2 DEF Updated, Rows
  <2> QED
    BY <1>4, <1>t, <2>1, <2>2, <2>3, WrittenRow DEF NewRow
<1>5. r \notin holds => req[r].op = "update" /\ Wanted(r) = seen[r]
  BY <1>t DEF Point
<1>6. ~NewRow(r).there => NewRow(r).date = Unset
  <2>1. CASE req[r].op = "create"
    BY <1>2, <2>1 DEF Created
  <2>2. CASE req[r].op = "delete"
    BY <1>3, <2>2 DEF NoPost
  <2>3. CASE req[r].op = "update"
    BY <1>4, <1>5, <1>t, <2>3 DEF Handling, Made, Row
  <2> QED
    BY <1>t, <2>1, <2>2, <2>3 DEF Edits
<1> QED
  BY <1>1, <1>2, <1>3, <1>4, <1>5, <1>6, <1>t

\* The commit of an edit, heard or not.
LEMMA EditCommitted ==
  ASSUME TypeOK, Handling, NEW r \in Requests, NEW label \in {"200", "500"},
         EditTakesEffect(r), Answer(r, label), UNCHANGED issued
  PROVE  posts' \in [PostIds -> Rows] /\ Handling'
<1>t. /\ ~IsLogin(r) /\ pc[r] = "commit" /\ Point(r) /\ Earned(r)
      /\ PostOf(r) \in PostIds
      /\ pc'[r] = label /\ \A q \in Requests \ {r} : pc'[q] = pc[q]
      /\ holds' = holds \ {r} /\ UNCHANGED <<req, issued, checked, seen, now>>
      /\ posts' = [posts EXCEPT ![PostOf(r)] = NewRow(r)]
      /\ posts'[PostOf(r)] = NewRow(r)
      /\ \A p \in PostIds \ {PostOf(r)} : posts'[p] = posts[p]
  BY AskFacts DEF EditTakesEffect, Answer, Goto, TypeOK, Handling, NewRow, Row, limiterVars
<1>1. posts' \in [PostIds -> Rows]
  BY <1>t, NewRowFacts DEF TypeOK
<1>2. ASSUME NEW q \in Requests PROVE Point(q)'
  <2>1. CASE q = r
    BY <1>t, <2>1 DEF Point, IsLogin
  <2>2. CASE q # r
    <3>1. Wanted(q)' = Wanted(q) /\ (IsLogin(q)' <=> IsLogin(q)) /\ PostOf(q)' = PostOf(q)
      BY <1>t, <2>2 DEF Wanted, PostOf, IsLogin
    <3>2. ASSUME q \in holds, req[q].op = "update" PROVE Row(q)'.there
      <4>1. ~IsLogin(q) /\ Row(q).there /\ PostOf(q) \in PostIds
        BY <3>2, AskFacts DEF Handling, Point, IsLogin
      <4>2. CASE PostOf(q) # PostOf(r)
        BY <1>t, <3>1, <4>1, <4>2 DEF Row
      <4>3. CASE PostOf(q) = PostOf(r)
        <5>1. r \notin holds
          BY <1>t, <2>2, <3>2, <4>1, <4>3 DEF Handling, OneWriter
        <5>2. NewRow(r).there = Row(r).there
          BY <1>t, <5>1, NewRowFacts
        <5> QED
          BY <1>t, <3>1, <4>1, <4>3, <5>2 DEF Row
      <4> QED
        BY <4>2, <4>3
    <3> QED
      BY <1>t, <2>2, <3>1, <3>2 DEF Handling, Point
  <2> QED
    BY <2>1, <2>2
<1>3. ASSUME NEW q \in Requests PROVE Earned(q)'
  <2>1. ASSUME ~IsLogin(q), pc[q] \in {"admit", "get", "write", "commit", "200", "404"},
               req[q].cookie \in Requests
        PROVE  req[q].cookie # r
    BY <1>t, <2>1 DEF Handling, Earned
  <2>2. Earned(q)
    BY DEF Handling
  <2> QED
    BY <1>t, <2>1, <2>2 DEF Earned, IsLogin
<1>4. ASSUME NEW p \in PostIds PROVE Made(p)'
  <2>1. CASE p # PostOf(r)
    BY <1>t, <2>1 DEF Handling, Made, InFlight
  <2>2. CASE p = PostOf(r)
    <3>1. ~NewRow(r).there => NewRow(r).date = Unset
      BY <1>t, NewRowFacts
    <3>2. ASSUME p \in Requests, NewRow(r).there
          PROVE  req[p].op = "create" /\ pc'[p] \notin InFlight
      <4>1. CASE req[r].op = "create"
        BY <1>t, <2>2, <4>1, NewRowFacts DEF InFlight
      <4>2. CASE req[r].op = "update"
        <5>1. Row(r).there
          BY <1>t, <3>2, <4>2, NewRowFacts
        <5>2. req[p].op = "create" /\ pc[p] \notin InFlight
          BY <2>2, <3>2, <5>1 DEF Handling, Made, Row
        <5> QED
          BY <1>t, <3>2, <5>2 DEF InFlight
      <4>3. CASE req[r].op = "delete"
        BY <1>t, <3>2, <4>3, NewRowFacts DEF NoPost
      <4> QED
        BY <1>t, <4>1, <4>2, <4>3, NewRowFacts DEF Edits
    <3> QED
      BY <1>t, <2>2, <3>1, <3>2 DEF Made
  <2> QED
    BY <2>1, <2>2
<1>5. OneWriter'
  BY <1>t DEF Handling, OneWriter, IsLogin, PostOf
<1> QED
  BY <1>1, <1>2, <1>3, <1>4, <1>5, <1>t DEF Handling

LEMMA LoginCommitted ==
  ASSUME TypeOK, Handling, NEW r \in Requests, NEW label \in {"200", "500"},
         LoginTakesEffect(r), Answer(r, label),
         issued' = IF label = "200" THEN [issued EXCEPT ![r] = now] ELSE issued
  PROVE  /\ admins' \in [Accounts -> [active : BOOLEAN, last : Times \union {Unset}]]
         /\ issued' \in [Tokens -> Times \union {Unset}]
         /\ Handling'
<1>t. /\ IsLogin(r) /\ pc[r] = "commit" /\ Point(r) /\ req[r].email \in Accounts
      /\ pc'[r] = label /\ \A q \in Requests \ {r} : pc'[q] = pc[q]
      /\ holds' = holds \ {r} /\ UNCHANGED <<req, checked, seen, posts, now>>
      /\ req[r].good /\ checked[r] \in 0..now /\ now \in Times /\ checked[r] \in Times
  BY AskFacts, MaxTimeAssumption
  DEF LoginTakesEffect, Answer, Goto, TypeOK, LimiterTypeOK, Handling, Point, limiterVars, Times
<1>i. /\ \A t \in Tokens \ {r} : issued'[t] = issued[t]
      /\ issued'[r] = IF label = "200" THEN now ELSE issued[r]
      /\ r \in Tokens
  BY DEF TypeOK, Tokens
<1>1. issued' \in [Tokens -> Times \union {Unset}]
  BY <1>t DEF TypeOK
<1>2. admins' \in [Accounts -> [active : BOOLEAN, last : Times \union {Unset}]]
  <2>1. StampedAccount(r, admins[req[r].email]) \in [active : BOOLEAN, last : Times \union {Unset}]
    BY <1>t DEF StampedAccount, TypeOK
  <2> QED
    BY <1>t, <2>1 DEF LoginTakesEffect, TypeOK
<1>3. ASSUME NEW q \in Requests PROVE Point(q)'
  <2>1. CASE q = r
    BY <1>i, <1>t, <2>1 DEF Point, IsLogin, Times
  <2>2. CASE q # r
    <3>1. Wanted(q)' = Wanted(q) /\ (IsLogin(q)' <=> IsLogin(q)) /\ Row(q)' = Row(q)
      BY <1>t, <2>2 DEF Wanted, PostOf, IsLogin, Row
    <3>2. issued'[q] = issued[q]
      BY <1>i, <2>2 DEF Tokens
    <3> QED
      BY <1>t, <2>2, <3>1, <3>2 DEF Handling, Point
  <2> QED
    BY <2>1, <2>2
<1>4. ASSUME NEW q \in Requests PROVE Earned(q)'
  <2>1. CASE q = r
    BY <1>t, <2>1 DEF Earned, IsLogin
  <2>2. CASE q # r
    <3>1. ASSUME ~IsLogin(q), pc[q] \in {"admit", "get", "write", "commit", "200", "404"}
          PROVE  req[q].cookie \in Tokens \ {r}
      BY <1>t, <3>1, NamesAssumption DEF Handling, Earned
    <3>2. Earned(q)
      BY DEF Handling
    <3> QED
      BY <1>i, <1>t, <2>2, <3>1, <3>2 DEF Earned, IsLogin
  <2> QED
    BY <2>1, <2>2
<1>5. \A p \in PostIds : Made(p)'
  BY <1>t DEF Handling, Made, InFlight
<1>6. OneWriter'
  BY <1>t DEF Handling, OneWriter, IsLogin, PostOf
<1>7. \A e \in Accounts : issued'[e] = 0
  BY <1>i, NamesAssumption DEF Handling, Tokens
<1> QED
  BY <1>1, <1>2, <1>3, <1>4, <1>5, <1>6, <1>7 DEF Handling

LEMMA CrashInv ==
  ASSUME TypeOK, Handling, Crash
  PROVE  Handling'
<1>t. /\ \A q \in Requests : pc'[q] = IF pc[q] \in InFlight \ {"start"} THEN "500" ELSE pc[q]
      /\ holds' = {} /\ UNCHANGED <<req, issued, checked, posts, seen, now>>
  BY DEF Crash, Forget
<1>1. ASSUME NEW q \in Requests PROVE Point(q)' /\ Earned(q)'
  <2>1. /\ Point(q) /\ Earned(q) /\ (IsLogin(q)' <=> IsLogin(q)) /\ Row(q)' = Row(q)
        /\ Wanted(q)' = Wanted(q)
    BY <1>t DEF Handling, IsLogin, Row, PostOf, Wanted
  <2>2. (req[q].cookie \in Requests /\ pc[req[q].cookie] = "200") => pc'[req[q].cookie] = "200"
    BY <1>t DEF InFlight
  <2>3. pc'[q] = "500" \/ (pc'[q] = pc[q] /\ pc[q] \notin {"admit", "get", "write", "commit", "select", "stamp"})
    BY <1>t DEF InFlight
  <2>4. issued[q] # Unset => pc'[q] = "200"
    BY <1>t, <2>1 DEF Point, InFlight
  <2>5. Point(q)'
    BY <1>t, <2>1, <2>3, <2>4 DEF Point
  <2>6. Earned(q)'
    BY <1>t, <2>1, <2>2, <2>3 DEF Earned, IsLogin
  <2> QED
    BY <2>5, <2>6
<1>2. \A p \in PostIds : Made(p)'
  BY <1>t DEF Handling, Made, InFlight
<1> QED
  BY <1>1, <1>2, <1>t DEF Handling, OneWriter

\* A request moves on to label, or is answered 200 or 404 without a commit.
LEMMA MovesOn ==
  ASSUME TypeOK, Handling, NEW r \in Requests, pc[r] \in InFlight,
         NEW label, Goto(r, label),
         checked' = checked \/ checked' = [checked EXCEPT ![r] = now],
         seen' = seen \/ seen' = [seen EXCEPT ![r] = Row(r)],
         holds' = holds \/ (holds' = holds \union {r} /\ (IsLogin(r) \/ ~Waits(r))),
         UNCHANGED <<req, issued, posts, now>>,
         Point(r)', Earned(r)'
  PROVE  Handling'
<1>1. \A q \in Requests \ {r} :
        /\ pc'[q] = pc[q] /\ checked'[q] = checked[q] /\ seen'[q] = seen[q]
        /\ q \in holds' <=> q \in holds
  BY DEF TypeOK, Goto
<1>2. holds' \subseteq Requests
  BY DEF TypeOK
<1> QED
  BY <1>1, <1>2, Advances

LEMMA NextInv == IInv /\ [Next]_vars => IInv'
<1> SUFFICES ASSUME IInv, [Next]_vars PROVE IInv'
  OBVIOUS
<1>t. TypeOK /\ LimiterTypeOK /\ Limits /\ Handling /\ \A r \in Requests : Point(r) /\ Earned(r)
  BY DEF IInv, TypeOK, Handling
<1>n. now \in Times /\ now \in 0..now /\ Times \subseteq Nat
  BY <1>t, MaxTimeAssumption DEF LimiterTypeOK, Times
<1>l. ASSUME UNCHANGED limiterVars PROVE LimiterTypeOK' /\ Limits' /\ now' = now
  BY <1>l, <1>t, LimiterInv DEF limiterVars
<1>1. ASSUME NEW r \in Requests, CheckLimit(r) PROVE IInv'
  <2>1. /\ IsLogin(r) /\ KeyOf(r) \in Keys /\ r \in Callers /\ pc[r] = "start"
        /\ UNCHANGED <<req, admins, issued, checked, posts, seen, holds, faults>>
    BY <1>1, <1>t, AskFacts, KeysAssumption DEF CheckLimit
  <2>2. LimiterTypeOK' /\ Limits' /\ now' = now
    BY <1>1, <1>t, <2>1, LimiterInv DEF CheckLimit, Allow, Deny, Remember
  <2>3. TypeOK'
    BY <1>1, <1>t, <2>1, <2>2 DEF CheckLimit, Goto, TypeOK, Answered, InFlight
  <2>4. r \notin holds /\ pc[r] \in InFlight /\ issued[r] = Unset
    BY <1>t, <2>1 DEF Point, InFlight
  <2>5. CASE Goto(r, "select")
    <3>1. Point(r)' /\ Earned(r)'
      BY <1>t, <2>1, <2>4, <2>5 DEF Point, Earned, Goto, TypeOK, IsLogin
    <3> QED
      BY <1>t, <2>1, <2>2, <2>3, <2>4, <2>5, <3>1, MovesOn DEF IInv
  <2>6. CASE Goto(r, "429")
    <3>1. holds' = holds \ {r}
      BY <2>1, <2>4
    <3> QED
      BY <1>t, <2>1, <2>2, <2>3, <2>4, <2>6, <3>1, Refuses DEF IInv
  <2> QED
    BY <1>1, <2>5, <2>6 DEF CheckLimit
<1>2. ASSUME NEW r \in Requests, Verify(r) PROVE IInv'
  <2>1. /\ IsLogin(r) /\ pc[r] = "select" /\ pc[r] \in InFlight /\ r \notin holds /\ issued[r] = Unset
        /\ UNCHANGED <<req, admins, issued, posts, seen, holds, faults, limiterVars>>
    BY <1>2, <1>t DEF Verify, Point, InFlight
  <2>2. TypeOK'
    BY <1>2, <1>l, <1>n, <1>t, <2>1 DEF Verify, Goto, TypeOK, Answered, InFlight
  <2>3. CASE req[r].good /\ admins[req[r].email].active
    <3>1. Goto(r, "stamp") /\ checked' = [checked EXCEPT ![r] = now]
      BY <1>2, <2>3 DEF Verify
    <3>2. pc'[r] = "stamp" /\ checked'[r] = now
      BY <1>t, <3>1 DEF Goto, TypeOK
    <3>3. Point(r)' /\ Earned(r)'
      BY <1>l, <1>n, <2>1, <2>3, <3>2 DEF Point, Earned, IsLogin
    <3> QED
      BY <1>l, <1>t, <2>1, <2>2, <3>1, <3>3, MovesOn DEF IInv
  <2>4. CASE ~(req[r].good /\ admins[req[r].email].active)
    <3>1. Goto(r, "401") /\ UNCHANGED checked /\ holds' = holds \ {r}
      BY <1>2, <2>1, <2>4 DEF Verify
    <3> QED
      BY <1>l, <1>t, <2>1, <2>2, <3>1, Refuses DEF IInv
  <2> QED
    BY <2>3, <2>4
<1>3. ASSUME NEW r \in Requests, StampLogin(r) PROVE IInv'
  <2>1. /\ IsLogin(r) /\ pc[r] = "stamp" /\ pc[r] \in InFlight /\ issued[r] = Unset
        /\ holds' = holds \union {r} /\ Goto(r, "commit") /\ pc'[r] = "commit"
        /\ UNCHANGED <<req, admins, issued, checked, posts, seen, faults, limiterVars>>
    BY <1>3, <1>t DEF StampLogin, Point, InFlight, Goto, TypeOK
  <2>2. TypeOK'
    BY <1>l, <1>t, <2>1 DEF Goto, TypeOK, Answered, InFlight
  <2>3. Point(r)' /\ Earned(r)'
    BY <1>l, <1>t, <2>1 DEF Point, Earned, IsLogin
  <2> QED
    BY <1>l, <1>t, <2>1, <2>2, <2>3, MovesOn DEF IInv
<1>4. ASSUME NEW r \in Requests, CommitLogin(r) PROVE IInv'
  <2>1. UNCHANGED <<req, checked, posts, seen, limiterVars, faults>>
    BY <1>4 DEF CommitLogin, LoginTakesEffect
  <2>2. /\ admins' \in [Accounts -> [active : BOOLEAN, last : Times \union {Unset}]]
        /\ issued' \in [Tokens -> Times \union {Unset}]
        /\ Handling'
    BY <1>4, <1>t, LoginCommitted DEF CommitLogin
  <2>3. TypeOK'
    BY <1>4, <1>l, <1>t, <2>1, <2>2 DEF CommitLogin, Answer, Goto, TypeOK, Answered
  <2> QED
    BY <1>l, <2>1, <2>2, <2>3 DEF IInv
<1>5. ASSUME NEW r \in Requests, VerifySession(r) PROVE IInv'
  <2>1. /\ ~IsLogin(r) /\ pc[r] = "start" /\ pc[r] \in InFlight /\ r \notin holds /\ issued[r] = Unset
        /\ UNCHANGED <<req, admins, issued, posts, seen, holds, faults, limiterVars>>
    BY <1>5, <1>t DEF VerifySession, Point, InFlight
  <2>2. TypeOK'
    BY <1>5, <1>l, <1>n, <1>t, <2>1 DEF VerifySession, Goto, TypeOK, Answered, InFlight
  <2>3. CASE req[r].cookie # NoCookie /\ Fresh(req[r].cookie)
    <3> DEFINE token == req[r].cookie
    <3>1. Goto(r, "admit") /\ checked' = [checked EXCEPT ![r] = now]
      BY <1>5, <2>3 DEF VerifySession
    <3>2. pc'[r] = "admit" /\ checked'[r] = now
      BY <1>t, <3>1 DEF Goto, TypeOK
    <3>3. token \in Tokens /\ issued[token] # Unset /\ issued[token] \in Times
      BY <1>5, <1>t, <2>1, <2>3, AskFacts DEF VerifySession, TypeOK
    <3>4. issued[token] <= now
      <4>1. CASE token \in Requests
        BY <1>t, <3>3, <4>1 DEF Point
      <4>2. CASE token \in Accounts
        BY <1>n, <1>t, <4>2 DEF Handling
      <4> QED
        BY <3>3, <4>1, <4>2 DEF Tokens
    <3>5. now \in issued[token]..(issued[token] + SessionMaxAge)
      <4>1. \A i, n \in Nat : (i <= n /\ n - i <= SessionMaxAge) => n \in i..(i + SessionMaxAge)
        BY SessionMaxAgeAssumption
      <4>2. issued[token] \in Nat /\ now \in Nat /\ now - issued[token] <= SessionMaxAge
        BY <1>n, <2>3, <3>3 DEF Fresh
      <4> QED
        BY <3>4, <4>1, <4>2
    <3>6. token \in Requests =>
            /\ IsLogin(token) /\ req[token].good /\ pc[token] = "200"
            /\ checked[token] <= issued[token] /\ token # r
      BY <1>t, <2>1, <3>3 DEF Point
    <3>7. token \in Requests => pc'[token] = "200" /\ checked'[token] = checked[token]
      BY <1>t, <3>1, <3>6 DEF Goto, TypeOK
    <3>8. Point(r)' /\ Earned(r)'
      BY <2>1, <3>2, <3>3, <3>5, <3>6, <3>7 DEF Point, Earned, IsLogin
    <3> QED
      BY <1>l, <1>t, <2>1, <2>2, <3>1, <3>8, MovesOn DEF IInv
  <2>4. CASE ~(req[r].cookie # NoCookie /\ Fresh(req[r].cookie))
    <3>1. Goto(r, "401") /\ UNCHANGED checked /\ holds' = holds \ {r}
      BY <1>5, <2>1, <2>4 DEF VerifySession
    <3> QED
      BY <1>l, <1>t, <2>1, <2>2, <3>1, Refuses DEF IInv
  <2> QED
    BY <2>3, <2>4
\* Past its checks, a request keeps what it earned.
<1>e. ASSUME NEW r \in Requests, ~IsLogin(r), pc[r] \in {"admit", "get", "write"},
             NEW label \in {"get", "write", "commit", "200", "404"}, Goto(r, label),
             UNCHANGED <<req, issued, checked>>
      PROVE  Earned(r)'
  <2>1. Earned(r) /\ pc'[r] = label
    BY <1>e, <1>t DEF Goto, TypeOK
  <2>2. (req[r].cookie \in Requests /\ pc[req[r].cookie] = "200") => pc'[req[r].cookie] = "200"
    BY <1>e, <1>t DEF Goto, TypeOK
  <2> QED
    BY <1>e, <2>1, <2>2 DEF Earned, IsLogin
<1>6. ASSUME NEW r \in Requests, Admit(r) PROVE IInv'
  <2>1. /\ ~IsLogin(r) /\ pc[r] = "admit" /\ pc[r] \in InFlight /\ r \notin holds /\ issued[r] = Unset
        /\ UNCHANGED <<req, admins, issued, checked, posts, seen, holds, faults, limiterVars>>
        /\ req[r].op \in Edits \union {"look"}
    BY <1>6, <1>t, AskFacts DEF Admit, Point, InFlight, Protected
  <2>2. TypeOK'
    BY <1>6, <1>l, <1>t, <2>1 DEF Admit, Goto, TypeOK, Answered, InFlight
  <2>3. CASE ~admins[AccountOf(r)].active
    <3>1. Goto(r, "401") /\ holds' = holds \ {r}
      BY <1>6, <2>1, <2>3 DEF Admit
    <3> QED
      BY <1>l, <1>t, <2>1, <2>2, <3>1, Refuses DEF IInv
  <2>4. CASE admins[AccountOf(r)].active
    <3> DEFINE label == IF req[r].op = "create" THEN "write"
                        ELSE IF req[r].op = "look" THEN "200" ELSE "get"
    <3>1. Goto(r, label) /\ label \in {"get", "write", "200"} /\ pc'[r] = label
      BY <1>6, <1>t, <2>4 DEF Admit, Goto, TypeOK
    <3>2. Point(r)'
      BY <2>1, <3>1 DEF Point, IsLogin, Edits
    <3>3. Earned(r)'
      BY <1>e, <2>1, <3>1
    <3> HIDE DEF label
    <3> QED
      BY <1>l, <1>t, <2>1, <2>2, <3>1, <3>2, <3>3, MovesOn DEF IInv
  <2> QED
    BY <2>3, <2>4
<1>7. ASSUME NEW r \in Requests, GetPost(r) PROVE IInv'
  <2> DEFINE label == IF ~Row(r).there THEN "404"
                      ELSE IF req[r].op = "update" /\ Updated(req[r], r, Row(r)) = Row(r)
                      THEN "commit" ELSE "write"
  <2>1. /\ ~IsLogin(r) /\ pc[r] = "get" /\ pc[r] \in InFlight /\ r \notin holds /\ issued[r] = Unset
        /\ UNCHANGED <<req, admins, issued, checked, posts, holds, faults, limiterVars>>
        /\ req[r].op \in {"update", "delete"}
        /\ seen' = [seen EXCEPT ![r] = Row(r)] /\ seen'[r] = Row(r)
        /\ Goto(r, label) /\ label \in {"404", "commit", "write"} /\ pc'[r] = label
    BY <1>7, <1>t DEF GetPost, Point, InFlight, Goto, TypeOK
  <2>2. TypeOK'
    BY <1>l, <1>t, <2>1, AskFacts DEF Goto, TypeOK, Answered, InFlight
  <2>3. req[r].op = "update" => Wanted(r)' = Updated(req[r], r, Row(r))
    BY <2>1 DEF Wanted
  <2>4. Point(r)'
    BY <2>1, <2>3 DEF Point, IsLogin, Edits
  <2>5. Earned(r)'
    BY <1>e, <2>1
  <2> HIDE DEF label
  <2> QED
    BY <1>l, <1>t, <2>1, <2>2, <2>4, <2>5, MovesOn DEF IInv
<1>8. ASSUME NEW r \in Requests, WritePost(r) PROVE IInv'
  <2>1. /\ ~IsLogin(r) /\ pc[r] = "write" /\ pc[r] \in InFlight /\ issued[r] = Unset
        /\ UNCHANGED <<req, admins, issued, checked, posts, seen, faults, limiterVars>>
        /\ holds' = holds \union {r} /\ ~Waits(r) /\ ~Gone(r)
        /\ Goto(r, "commit") /\ pc'[r] = "commit"
    BY <1>8, <1>t DEF WritePost, Point, InFlight, Goto, TypeOK
  <2>2. TypeOK'
    BY <1>l, <1>t, <2>1 DEF Goto, TypeOK, Answered, InFlight
  <2>3. Row(r)' = Row(r) /\ (req[r].op = "update" => Row(r).there)
    BY <2>1 DEF Gone, Row, PostOf
  <2>4. Point(r)'
    BY <1>t, <2>1, <2>3 DEF Point, IsLogin
  <2>5. Earned(r)'
    BY <1>e, <2>1
  <2> QED
    BY <1>l, <1>t, <2>1, <2>2, <2>4, <2>5, MovesOn DEF IInv
<1>9. ASSUME NEW r \in Requests, WriteRaises(r) \/ Fault(r) PROVE IInv'
  <2>1. /\ pc[r] \in InFlight /\ Goto(r, "500") /\ holds' = holds \ {r}
        /\ UNCHANGED <<req, admins, issued, checked, posts, seen, limiterVars>>
        /\ faults' \in 0..MaxFaults
    BY <1>9, <1>t, MaxFaultsAssumption DEF WriteRaises, Fault, Answer, InFlight, TypeOK
  <2>2. TypeOK'
    BY <1>l, <1>t, <2>1 DEF Goto, TypeOK, Answered, InFlight
  <2> QED
    BY <1>l, <1>t, <2>1, <2>2, Refuses DEF IInv
<1>10. ASSUME NEW r \in Requests, NEW label \in {"200", "500"},
              EditTakesEffect(r), Answer(r, label), UNCHANGED issued, faults' \in 0..MaxFaults
       PROVE  IInv'
  <2>1. posts' \in [PostIds -> Rows] /\ Handling'
    BY <1>10, <1>t, EditCommitted
  <2>2. TypeOK'
    BY <1>10, <1>l, <1>t, <2>1 DEF EditTakesEffect, Answer, Goto, TypeOK, Answered
  <2> QED
    BY <1>10, <1>l, <2>1, <2>2 DEF IInv, EditTakesEffect
<1>11. ASSUME NEW r \in Requests, CommitEdit(r) PROVE IInv'
  BY <1>10, <1>11, <1>t DEF CommitEdit, EditTakesEffect, TypeOK
<1>12. ASSUME NEW r \in Requests, CommitUnheard(r) PROVE IInv'
  <2>1. faults' \in 0..MaxFaults /\ UNCHANGED issued /\ Answer(r, "500")
    BY <1>12, <1>t, MaxFaultsAssumption DEF CommitUnheard, TypeOK
  <2>2. CASE EditTakesEffect(r)
    BY <1>10, <2>1, <2>2
  <2>3. CASE LoginTakesEffect(r)
    <3>1. UNCHANGED <<req, checked, posts, seen, limiterVars>>
      BY <2>3 DEF LoginTakesEffect
    <3>2. /\ admins' \in [Accounts -> [active : BOOLEAN, last : Times \union {Unset}]]
          /\ issued' \in [Tokens -> Times \union {Unset}]
          /\ Handling'
      BY <1>t, <2>1, <2>3, LoginCommitted
    <3>3. TypeOK'
      BY <1>l, <1>t, <2>1, <3>1, <3>2 DEF Answer, Goto, TypeOK, Answered
    <3> QED
      BY <1>l, <3>1, <3>2, <3>3 DEF IInv
  <2> QED
    BY <1>12, <2>2, <2>3 DEF CommitUnheard
<1>13. ASSUME NEW e \in Accounts, Deactivate(e) PROVE IInv'
  <2>1. UNCHANGED <<handlers, posts, limiterVars>>
    BY <1>13 DEF Deactivate
  <2>2. admins' \in [Accounts -> [active : BOOLEAN, last : Times \union {Unset}]]
    BY <1>13, <1>t DEF Deactivate, TypeOK
  <2>3. TypeOK'
    BY <1>l, <1>t, <2>1, <2>2 DEF handlers, TypeOK
  <2>4. Handling'
    BY <1>l, <1>t, <2>1
    DEF handlers, Handling, Point, Earned, Made, OneWriter, IsLogin, Row, PostOf, Wanted
  <2> QED
    BY <1>l, <2>1, <2>3, <2>4 DEF IInv
<1>14. CASE Clock
  <2>1. /\ UNCHANGED <<handlers, admins, posts>> /\ now' = now + 1
        /\ LimiterTypeOK' /\ Limits'
    BY <1>14, <1>t, LimiterInv DEF Clock, Tick
  <2>2. TypeOK'
    BY <1>t, <2>1 DEF handlers, TypeOK
  <2>3. \A n \in 0..now : n \in 0..now'
    BY <1>n, <2>1
  <2>4. Handling'
    BY <1>t, <2>1, <2>3
    DEF handlers, Handling, Point, Earned, Made, OneWriter, IsLogin, Row, PostOf, Wanted
  <2> QED
    BY <2>1, <2>2, <2>4 DEF IInv
<1>15. CASE Crash
  <2>1. LimiterTypeOK' /\ Limits'
    BY <1>15, <1>t, LimiterInv DEF Crash
  <2>2. TypeOK'
    BY <1>15, <1>t, <2>1, MaxFaultsAssumption DEF Crash, TypeOK, Answered
  <2> QED
    BY <1>15, <1>t, <2>1, <2>2, CrashInv DEF IInv
<1>16. CASE UNCHANGED vars
  <2>1. UNCHANGED <<handlers, admins, posts, limiterVars>>
    BY <1>16 DEF vars
  <2>2. TypeOK'
    BY <1>l, <1>t, <2>1 DEF handlers, TypeOK
  <2>3. Handling'
    BY <1>l, <1>t, <2>1
    DEF handlers, Handling, Point, Earned, Made, OneWriter, IsLogin, Row, PostOf, Wanted
  <2> QED
    BY <1>l, <2>1, <2>2, <2>3 DEF IInv
<1> QED
  BY <1>1, <1>2, <1>3, <1>4, <1>5, <1>6, <1>7, <1>8, <1>9, <1>11, <1>12, <1>13, <1>14, <1>15,
     <1>16 DEF Next, Step

-----------------------------------------------------------------------------
\* Admin keeps the inductive invariant.
THEOREM Invariance == Spec => []IInv
<1> QED
  BY InitInv, NextInv, PTL DEF Spec

\* Every variable keeps its type (admin.py, admin_auth.py).
THEOREM TypeCorrect == Spec => []TypeOK
<1>1. IInv => TypeOK
  BY DEF IInv
<1> QED
  BY <1>1, Invariance, PTL

\* The login limiter never accepts more than max_attempts attempts of a key
\* within window_seconds (admin_auth.py:61-67), whatever the limit, the window
\* and the times of the attempts.
THEOREM LimitHolds == Spec => []WithinLimit
<1>1. IInv => WithinLimit
  <2> SUFFICES ASSUME IInv, NEW key \in Keys PROVE Cardinality(Lately(key)) <= MaxAttempts
    BY DEF WithinLimit
  <2>1. /\ IsFiniteSet(hits[key]) /\ Cardinality(hits[key]) <= MaxAttempts
        /\ Lately(key) \subseteq hits[key]
    BY DEF IInv, Limits
  <2> QED
    BY <2>1, FS_Subset, FS_CardinalityType, MaxAttemptsAssumption
<1> QED
  BY <1>1, Invariance, PTL

\* An attempt is refused only when the limit was used up by accepted ones.
THEOREM FullWhenRefused == Spec => RefusedOnlyWhenFull
<1>1. IInv /\ [Next]_vars =>
        [\A r \in Requests :
           (pc[r] # "429" /\ pc'[r] = "429") => Cardinality(Lately(KeyOf(r))) >= MaxAttempts]_vars
  <2> SUFFICES ASSUME IInv, [Next]_vars, NEW r \in Requests, pc[r] # "429", pc'[r] = "429"
               PROVE  Cardinality(Lately(KeyOf(r))) >= MaxAttempts
    OBVIOUS
  <2>t. TypeOK /\ Limits /\ \A q \in Requests : Point(q)
    BY DEF IInv, Handling
  <2>1. CheckLimit(r) /\ Deny(KeyOf(r))
    <3>1. ASSUME NEW q \in Requests, NEW label, Goto(q, label) PROVE q = r /\ label = "429"
      BY <3>1, <2>t DEF Goto, TypeOK
    <3>2. ~Crash /\ ~Clock /\ ~UNCHANGED vars /\ \A e \in Accounts : ~Deactivate(e)
      BY DEF Crash, Clock, Deactivate, handlers, vars
    <3>3. PICK q \in Requests : Step(q) \/ CommitUnheard(q) \/ Fault(q)
      BY <3>2 DEF Next
    <3> QED
      BY <3>1, <3>3 DEF Step, CommitUnheard, Fault, Answer, CheckLimit, Verify, StampLogin,
                        CommitLogin, VerifySession, Admit, GetPost, WritePost, WriteRaises, CommitEdit
  <2>2. KeyOf(r) \in Keys
    BY <2>1, <2>t, AskFacts DEF CheckLimit
  <2>3. Recent(hits[KeyOf(r)]) \subseteq Lately(KeyOf(r))
    BY <2>2, <2>t DEF Limits, Recent, Lately
  <2>4. IsFiniteSet(Lately(KeyOf(r)))
    BY <2>2, <2>t, FS_Subset DEF Limits
  <2>5. /\ Cardinality(Recent(hits[KeyOf(r)])) <= Cardinality(Lately(KeyOf(r)))
        /\ Cardinality(Recent(hits[KeyOf(r)])) \in Nat /\ Cardinality(Lately(KeyOf(r))) \in Nat
    BY <2>3, <2>4, FS_Subset, FS_CardinalityType
  <2> QED
    BY <2>1, <2>5, MaxAttemptsAssumption DEF Deny
<1> QED
  BY <1>1, Invariance, PTL DEF Spec, RefusedOnlyWhenFull

\* Nothing is done in an administrator's name without a login of hers that had
\* the right credentials, at most SESSION_MAX_AGE before (admin.py:33-47).
THEOREM EntriesEarned == Spec => []EntryIsEarned
<1>1. IInv => EntryIsEarned
  BY DEF IInv, Handling, Earned, EntryIsEarned
<1> QED
  BY <1>1, Invariance, PTL

\* A deactivated account is out for good: the column-wise UPDATE of a login under
\* way does not write is_active back, and every later check sees it.
THEOREM Deactivated == Spec => DeactivatedIsOut
<1> DEFINE Out ==
      \A e \in Accounts :
        ~admins[e].active =>
          /\ ~admins'[e].active
          /\ \A r \in Requests :
               (AccountOf(r) = e /\ pc[r] \in {"start", "select", "admit"}) =>
                 pc'[r] \in {"start", "select", "admit", "401", "429", "500"}
<1>1. IInv /\ [Next]_vars => [Out]_vars
  <2> SUFFICES ASSUME IInv, [Next]_vars, NEW e \in Accounts, ~admins[e].active
               PROVE  /\ ~admins'[e].active
                      /\ \A r \in Requests :
                           (AccountOf(r) = e /\ pc[r] \in {"start", "select", "admit"}) =>
                             pc'[r] \in {"start", "select", "admit", "401", "429", "500"}
    BY DEF vars
  <2>t. TypeOK /\ \A q \in Requests : Point(q)
    BY DEF IInv, Handling
  <2>1. ~admins'[e].active
    <3>1. CASE admins' = admins
      BY <3>1
    <3>2. ASSUME NEW q \in Requests, LoginTakesEffect(q) PROVE ~admins'[e].active
      <4>1. admins' = [admins EXCEPT ![req[q].email] = [admins[req[q].email] EXCEPT !.last = checked[q]]]
        BY <3>2 DEF LoginTakesEffect, StampedAccount
      <4> QED
        BY <2>t, <4>1 DEF TypeOK
    <3>3. ASSUME NEW d \in Accounts, Deactivate(d) PROVE ~admins'[e].active
      BY <2>t, <3>3 DEF Deactivate, TypeOK
    <3> QED
      BY <3>1, <3>2, <3>3
      DEF Next, Step, CommitUnheard, Fault, CheckLimit, Verify, StampLogin, CommitLogin, VerifySession,
          Admit, GetPost, WritePost, WriteRaises, CommitEdit, EditTakesEffect, Clock, Crash, vars
  <2>2. ASSUME NEW r \in Requests, AccountOf(r) = e, pc[r] \in {"start", "select", "admit"}
        PROVE  pc'[r] \in {"start", "select", "admit", "401", "429", "500"}
    <3>1. CASE pc'[r] = pc[r]
      BY <2>2, <3>1
    <3>2. CASE pc'[r] # pc[r]
      <4>1. ASSUME NEW q \in Requests, NEW label, Goto(q, label) PROVE q = r /\ pc'[r] = label
        BY <2>t, <3>2, <4>1 DEF Goto, TypeOK
      <4>2. CASE Crash
        BY <3>2, <4>2 DEF Crash
      <4>3. ~Clock /\ ~UNCHANGED vars /\ \A d \in Accounts : ~Deactivate(d)
        BY <3>2 DEF Clock, Deactivate, handlers, vars
      <4>4. ASSUME NEW q \in Requests, Step(q) \/ CommitUnheard(q) \/ Fault(q)
            PROVE  pc'[r] \in {"start", "select", "admit", "401", "429", "500"}
        <5>1. q = r
          BY <4>1, <4>4 DEF Step, CommitUnheard, Fault, Answer, CheckLimit, Verify, StampLogin,
                            CommitLogin, VerifySession, Admit, GetPost, WritePost, WriteRaises, CommitEdit
        <5>2. pc[r] = "select" => AccountOf(r) = req[r].email
          BY <2>t DEF Point, AccountOf
        <5> QED
          BY <2>2, <4>1, <4>4, <5>1, <5>2
          DEF Step, CommitUnheard, Fault, Answer, CheckLimit, Verify, StampLogin, CommitLogin,
              LoginTakesEffect, EditTakesEffect, VerifySession, Admit, GetPost, WritePost,
              WriteRaises, CommitEdit
      <4> QED
        BY <4>2, <4>3, <4>4 DEF Next
    <3> QED
      BY <3>1, <3>2
  <2> QED
    BY <2>1, <2>2
<1> QED
  BY <1>1, Invariance, PTL DEF Spec, DeactivatedIsOut

\* The date of a published post changes only when a publication of what was a
\* draft to two requests is overtaken (admin.py:187-190).
THEOREM DatesKept == Spec => DateIsKept
<1>1. IInv /\ [Next]_vars =>
        [\A p \in PostIds :
           (posts[p].date # Unset /\ posts'[p].date \notin {Unset, posts[p].date}) =>
             \E r \in Requests :
               /\ posts'[p].date = r /\ PostOf(r) = p
               /\ seen[r].date = Unset /\ req[r].op = "update" /\ req[r].live]_vars
  <2> SUFFICES ASSUME IInv, [Next]_vars, NEW p \in PostIds, posts[p].date # Unset,
                      posts'[p].date \notin {Unset, posts[p].date}
               PROVE  \E r \in Requests :
                        /\ posts'[p].date = r /\ PostOf(r) = p
                        /\ seen[r].date = Unset /\ req[r].op = "update" /\ req[r].live
    OBVIOUS
  <2>1. PICK r \in Requests : EditTakesEffect(r)
    <3>1. posts' # posts
      OBVIOUS
    <3> QED
      BY <3>1
      DEF Next, Step, CommitUnheard, Fault, CheckLimit, Verify, StampLogin, CommitLogin, VerifySession,
          Admit, GetPost, WritePost, WriteRaises, CommitEdit, LoginTakesEffect, Deactivate, Clock,
          Crash, vars
  <2>2. /\ TypeOK /\ Handling /\ ~IsLogin(r) /\ pc[r] = "commit"
        /\ PostOf(r) = p /\ posts'[p] = NewRow(r) /\ posts[p] = Row(r)
    BY <2>1 DEF IInv, EditTakesEffect, TypeOK, NewRow, Row
  <2>3. Row(r).there
    BY <2>2 DEF Handling, Made
  <2>4. req[r].op = "update"
    <3>1. req[r].op # "delete"
      BY <2>2, NewRowFacts DEF NoPost
    <3> QED
      BY <2>2, <2>3, <3>1, NewRowFacts DEF Edits
  <2>5. Updated(req[r], r, seen[r]).date # seen[r].date /\ NewRow(r).date = Updated(req[r], r, seen[r]).date
    BY <2>2, <2>4, NewRowFacts
  <2> QED
    BY <2>2, <2>4, <2>5 DEF Updated
<1> QED
  BY <1>1, Invariance, PTL DEF Spec, DateIsKept

-----------------------------------------------------------------------------
(***************************************************************************)
(* The table of posts.                                                     *)
(***************************************************************************)

\* What a transaction wrote and has not committed clashes with no other post, nor
\* with what another one wrote.
WrittenApart ==
  \A q \in holds : (~IsLogin(q) /\ NewRow(q).there) =>
    /\ \A p \in PostIds \ {PostOf(q)} : posts[p].there => posts[p].slug # NewRow(q).slug
    /\ \A r \in holds \ {q} :
         (~IsLogin(r) /\ NewRow(r).there) => NewRow(r).slug # NewRow(q).slug

SlugInv == SlugsAreUnique /\ WrittenApart

LEMMA SlugInit == Init => SlugInv
<1> SUFFICES ASSUME Init PROVE SlugInv
  OBVIOUS
<1>1. /\ \A p \in Requests : posts[p] = NoPost
      /\ \A p, q \in OldPosts :
           (posts[p].there /\ posts[q].there /\ posts[p].slug = posts[q].slug) => p = q
  BY BeforeAssumption DEF Init, EarlierPosts
<1>2. ~NoPost.there
  BY DEF NoPost
<1> QED
  BY <1>1, <1>2 DEF Init, SlugInv, SlugsAreUnique, WrittenApart, PostIds

\* What r is to write depends on its request, what it saw and its row.
LEMMA SameRow ==
  ASSUME NEW r \in Requests, req' = req, seen'[r] = seen[r], posts'[PostOf(r)] = posts[PostOf(r)]
  PROVE  NewRow(r)' = NewRow(r) /\ PostOf(r)' = PostOf(r) /\ (IsLogin(r)' <=> IsLogin(r))
BY DEF NewRow, Row, PostOf, IsLogin, Written, Wanted

\* A step that commits no edit and flushes none.
LEMMA SlugsKept ==
  ASSUME TypeOK, SlugInv, UNCHANGED <<req, posts>>, holds' \subseteq Requests,
         \A q \in holds' : IsLogin(q) \/ (q \in holds /\ seen'[q] = seen[q])
  PROVE  SlugInv'
<1>1. SlugsAreUnique'
  BY DEF SlugInv, SlugsAreUnique
<1>2. ASSUME NEW q \in holds', ~IsLogin(q)'
      PROVE  q \in holds /\ ~IsLogin(q) /\ NewRow(q)' = NewRow(q) /\ PostOf(q)' = PostOf(q)
  <2>1. ~IsLogin(q)
    BY <1>2 DEF IsLogin
  <2> QED
    BY <2>1, SameRow
<1>3. WrittenApart'
  BY <1>2 DEF SlugInv, WrittenApart
<1> QED
  BY <1>1, <1>3 DEF SlugInv

\* A flush waits for those whose slug it would take, and is refused one that is
\* another post's.
LEMMA SlugsFlushed ==
  ASSUME TypeOK, SlugInv, NEW r \in Requests, WritePost(r) PROVE SlugInv'
<1>1. /\ ~Waits(r) /\ ~SlugTaken(r) /\ holds' = holds \union {r} /\ holds \subseteq Requests
      /\ UNCHANGED <<req, posts, seen>>
  BY DEF WritePost, TypeOK
<1>2. \A q \in Requests :
        NewRow(q)' = NewRow(q) /\ PostOf(q)' = PostOf(q) /\ (IsLogin(q)' <=> IsLogin(q))
  BY <1>1, SameRow
<1>3. \A q \in holds \ {r} :
        (~IsLogin(q) /\ NewRow(r).there) => NewRow(r).slug # NewRow(q).slug
  BY <1>1 DEF Waits
<1>4. \A p \in PostIds \ {PostOf(r)} :
        (NewRow(r).there /\ posts[p].there) => posts[p].slug # NewRow(r).slug
  BY <1>1 DEF SlugTaken
<1>5. WrittenApart'
  BY <1>1, <1>2, <1>3, <1>4 DEF SlugInv, WrittenApart
<1>6. SlugsAreUnique'
  BY <1>1 DEF SlugInv, SlugsAreUnique
<1> QED
  BY <1>5, <1>6 DEF SlugInv

\* An update that changes nothing writes nothing.
LEMMA NothingWritten ==
  ASSUME TypeOK, Handling, NEW r \in Requests, ~IsLogin(r), pc[r] = "commit", r \notin holds
  PROVE  NewRow(r) = Row(r)
<1>1. Row(r) \in Rows /\ req[r].op = "update" /\ Wanted(r) = seen[r]
  BY NewRowFacts
<1>2. NewRow(r) = [c \in DOMAIN Row(r) |-> Row(r)[c]]
  BY <1>1 DEF NewRow, Written
<1>3. Row(r) = [c \in DOMAIN Row(r) |-> Row(r)[c]]
  BY <1>1 DEF Rows
<1> QED
  BY <1>2, <1>3

LEMMA SlugsCommitted ==
  ASSUME TypeOK, Handling, SlugInv, NEW r \in Requests, EditTakesEffect(r), holds' = holds \ {r}
  PROVE  SlugInv'
<1>t. /\ ~IsLogin(r) /\ pc[r] = "commit" /\ PostOf(r) \in PostIds
      /\ holds \subseteq Requests /\ UNCHANGED <<req, seen>>
      /\ posts'[PostOf(r)] = NewRow(r)
      /\ \A p \in PostIds \ {PostOf(r)} : posts'[p] = posts[p]
  BY AskFacts DEF EditTakesEffect, TypeOK, NewRow, Row
<1>1. CASE r \notin holds
  <2>1. posts' = posts
    BY <1>1, <1>t, NothingWritten DEF EditTakesEffect, TypeOK, Row, NewRow
  <2> QED
    BY <1>t, <2>1, SlugsKept
<1>2. CASE r \in holds
  <2>1. ASSUME NEW q \in holds \ {r}, ~IsLogin(q)
        PROVE  NewRow(q)' = NewRow(q) /\ PostOf(q)' = PostOf(q) /\ PostOf(q) # PostOf(r)
    <3>1. PostOf(q) # PostOf(r) /\ PostOf(q) \in PostIds
      BY <1>2, <1>t, <2>1, AskFacts DEF Handling, OneWriter
    <3> QED
      BY <1>t, <3>1, SameRow
  <2>2. ASSUME NEW p \in PostIds \ {PostOf(r)}, posts[p].there, NewRow(r).there
        PROVE  posts[p].slug # NewRow(r).slug
    BY <1>2, <1>t, <2>2 DEF SlugInv, WrittenApart
  <2>3. SlugsAreUnique'
    BY <1>t, <2>2 DEF SlugInv, SlugsAreUnique
  <2>4. ASSUME NEW q \in holds \ {r}, ~IsLogin(q), NewRow(q).there, NEW p \in PostIds \ {PostOf(q)},
               posts'[p].there
        PROVE  posts'[p].slug # NewRow(q).slug
    <3>1. CASE p = PostOf(r)
      BY <1>2, <1>t, <2>4, <3>1 DEF SlugInv, WrittenApart
    <3>2. CASE p # PostOf(r)
      BY <1>t, <2>4, <3>2 DEF SlugInv, WrittenApart
    <3> QED
      BY <3>1, <3>2
  <2>5. \A q \in holds : IsLogin(q)' <=> IsLogin(q)
    BY <1>t DEF IsLogin
  <2>6. \A q \in holds \ {r} : \A s \in holds \ {q} :
          (~IsLogin(q) /\ NewRow(q).there /\ ~IsLogin(s) /\ NewRow(s).there) =>
            NewRow(s).slug # NewRow(q).slug
    BY DEF SlugInv, WrittenApart
  <2>7. WrittenApart'
    BY <2>1, <2>4, <2>5, <2>6 DEF WrittenApart
  <2> QED
    BY <2>3, <2>7 DEF SlugInv
<1> QED
  BY <1>1, <1>2

LEMMA SlugNext == IInv /\ SlugInv /\ [Next]_vars => SlugInv'
<1> SUFFICES ASSUME IInv, SlugInv, [Next]_vars PROVE SlugInv'
  OBVIOUS
<1>t. TypeOK /\ Handling /\ holds \subseteq Requests /\ \A r \in Requests : Point(r)
  BY DEF IInv, TypeOK, Handling
<1>1. ASSUME UNCHANGED <<req, posts, seen>>, holds' \subseteq holds PROVE SlugInv'
  BY <1>1, <1>t, SlugsKept
<1>2. ASSUME NEW r \in Requests, Step(r) \/ CommitUnheard(r) \/ Fault(r) PROVE SlugInv'
  <2>1. CASE StampLogin(r)
    <3>1. IsLogin(r) /\ holds' = holds \union {r} /\ UNCHANGED <<req, posts, seen>>
      BY <1>t, <2>1 DEF StampLogin, Point
    <3> QED
      BY <1>t, <3>1, SlugsKept
  <2>2. CASE GetPost(r)
    <3>1. /\ r \notin holds /\ seen' = [seen EXCEPT ![r] = Row(r)]
          /\ UNCHANGED <<req, posts, holds>>
      BY <1>t, <2>2 DEF GetPost, Point
    <3>2. \A q \in holds : seen'[q] = seen[q]
      BY <1>t, <3>1 DEF TypeOK
    <3> QED
      BY <1>t, <3>1, <3>2, SlugsKept
  <2>3. CASE WritePost(r)
    BY <1>t, <2>3, SlugsFlushed
  <2>4. CASE EditTakesEffect(r) /\ holds' = holds \ {r}
    BY <1>t, <2>4, SlugsCommitted
  <2>5. CASE LoginTakesEffect(r) /\ holds' = holds \ {r}
    BY <1>1, <2>5 DEF LoginTakesEffect
  <2>6. CASE \/ CheckLimit(r) \/ Verify(r) \/ VerifySession(r) \/ Admit(r)
             \/ WriteRaises(r) \/ Fault(r)
    BY <1>1, <2>6 DEF CheckLimit, Verify, VerifySession, Admit, WriteRaises, Fault, Answer
  <2>7. CASE CommitLogin(r) \/ CommitEdit(r) \/ CommitUnheard(r)
    BY <2>4, <2>5, <2>7 DEF CommitLogin, CommitEdit, CommitUnheard, Answer
  <2> QED
    BY <1>2, <2>1, <2>2, <2>3, <2>6, <2>7 DEF Step
<1>3. CASE Clock \/ Crash \/ UNCHANGED vars \/ \E e \in Accounts : Deactivate(e)
  BY <1>1, <1>3 DEF Clock, Crash, Deactivate, handlers, vars
<1> QED
  BY <1>2, <1>3 DEF Next

\* No two posts have the same slug, however the edits interleave between their
\* SELECT, their flush and their commit (post.py:17, admin.py:166-201): what is
\* flushed and not yet committed is apart from every post and every other flush.
THEOREM SlugsUnique == Spec => []SlugsAreUnique
<1>1. SlugInv => SlugsAreUnique
  BY DEF SlugInv
<1> QED
  BY <1>1, SlugInit, SlugNext, Invariance, PTL DEF Spec

\* The table changes only by the commit of an edit.
LEMMA PostsStep ==
  ASSUME IInv, [Next]_vars, NEW p \in PostIds, posts'[p] # posts[p]
  PROVE  \E r \in Requests :
           /\ ~IsLogin(r) /\ pc[r] = "commit" /\ PostOf(r) = p
           /\ posts'[p] = NewRow(r)
<1>t. TypeOK
  BY DEF IInv
<1>1. PICK r \in Requests : EditTakesEffect(r)
  BY DEF Next, Step, CheckLimit, Verify, StampLogin, CommitLogin, LoginTakesEffect, VerifySession,
         Admit, GetPost, WritePost, WriteRaises, CommitEdit, CommitUnheard, Fault, Deactivate, Clock,
         Crash, vars
<1>2. /\ ~IsLogin(r) /\ pc[r] = "commit" /\ PostOf(r) \in PostIds
      /\ posts' = [posts EXCEPT ![PostOf(r)] = NewRow(r)]
  BY <1>1, <1>t, AskFacts DEF EditTakesEffect, NewRow, Row
<1>3. p = PostOf(r) /\ posts'[p] = NewRow(r)
  BY <1>2, <1>t DEF TypeOK
<1> QED
  BY <1>2, <1>3

\* A post that is gone stays gone: a row appears only as the one that its own
\* request creates.  An update that loaded the post before it was deleted does not
\* bring it back (admin.py:174-189: the UPDATE matches no row and the flush raises).
THEOREM DeletedForGood ==
  Spec => [][\A p \in PostIds :
               (~posts[p].there /\ posts'[p].there) =>
                 p \in Requests /\ req[p].op = "create" /\ pc[p] = "commit"]_vars
<1> DEFINE A == \A p \in PostIds :
                  (~posts[p].there /\ posts'[p].there) =>
                    p \in Requests /\ req[p].op = "create" /\ pc[p] = "commit"
<1>1. ASSUME IInv, [Next]_vars PROVE A
  <2> SUFFICES ASSUME NEW p \in PostIds, ~posts[p].there, posts'[p].there
               PROVE  p \in Requests /\ req[p].op = "create" /\ pc[p] = "commit"
    OBVIOUS
  <2>1. PICK r \in Requests :
          ~IsLogin(r) /\ pc[r] = "commit" /\ PostOf(r) = p /\ posts'[p] = NewRow(r)
    BY <1>1, PostsStep
  <2>2. TypeOK /\ Handling /\ ~Row(r).there /\ NewRow(r).there
    BY <1>1, <2>1 DEF IInv, Row
  <2>3. ~NoPost.there
    BY DEF NoPost
  <2>4. req[r].op = "create" /\ PostOf(r) = r
    BY <2>1, <2>2, <2>3, NewRowFacts DEF Edits
  <2> QED
    BY <2>1, <2>4
<1> HIDE DEF A
<1>2. ASSUME IInv, [Next]_vars PROVE [A]_vars
  BY <1>1, <1>2
<1>3. Spec => [][A]_vars
  BY <1>2, Invariance, PTL DEF Spec
<1> QED
  BY <1>3 DEF A

\* r was let in with a session not too old, of a login with the right password and
\* code (or one opened before the first request).
Entitled(r) ==
  /\ checked[r] \in issued[req[r].cookie]..(issued[req[r].cookie] + SessionMaxAge)
  /\ req[r].cookie \in Requests =>
       /\ IsLogin(req[r].cookie) /\ req[req[r].cookie].good
       /\ pc[req[r].cookie] = "200"

\* Nothing changes a post but the request of somebody entitled to it
\* (admin.py:166-201).
THEOREM EditsAreEarned ==
  Spec => [][\A p \in PostIds :
               posts'[p] # posts[p] =>
                 \E r \in Requests :
                   PostOf(r) = p /\ req[r].op \in Edits /\ pc[r] = "commit" /\ Entitled(r)]_vars
<1> DEFINE A == \A p \in PostIds :
                  posts'[p] # posts[p] =>
                    \E r \in Requests :
                      PostOf(r) = p /\ req[r].op \in Edits /\ pc[r] = "commit" /\ Entitled(r)
<1>1. ASSUME IInv, [Next]_vars PROVE A
  <2> SUFFICES ASSUME NEW p \in PostIds, posts'[p] # posts[p]
               PROVE  \E r \in Requests :
                        PostOf(r) = p /\ req[r].op \in Edits /\ pc[r] = "commit" /\ Entitled(r)
    OBVIOUS
  <2>1. PICK r \in Requests :
          ~IsLogin(r) /\ pc[r] = "commit" /\ PostOf(r) = p /\ posts'[p] = NewRow(r)
    BY <1>1, PostsStep
  <2>2. Point(r) /\ Earned(r)
    BY <1>1 DEF IInv, Handling
  <2>3. Entitled(r) /\ req[r].op \in Edits
    BY <2>1, <2>2 DEF Point, Earned, Entitled
  <2> QED
    BY <2>1, <2>3
<1> HIDE DEF A
<1>2. ASSUME IInv, [Next]_vars PROVE [A]_vars
  BY <1>1, <1>2
<1>3. Spec => [][A]_vars
  BY <1>2, Invariance, PTL DEF Spec
<1> QED
  BY <1>3 DEF A

-----------------------------------------------------------------------------
(***************************************************************************)
(* Progress, as far as it is a matter of safety.                           *)
(***************************************************************************)

\* What a request under way has reached, past its first check.
UnderWay == InFlight \ {"start"}

\* r's next statement waits for another transaction to end.
Blocked(r) ==
  \/ pc[r] = "stamp" /\ AccountLocked(req[r].email)
  \/ pc[r] = "write" /\ Waits(r)

\* Requests are never all stuck: while one is under way, one is that waits for no
\* row, whether rows are locked by logins, by edits of a post or by a slug
\* (admin.py:62-63, 166-201).
THEOREM SomebodyMoves ==
  Spec => []((\E r \in Requests : pc[r] \in UnderWay) =>
               \E r \in Requests : pc[r] \in UnderWay /\ ~Blocked(r))
<1>1. IInv => ((\E r \in Requests : pc[r] \in UnderWay) =>
                 \E r \in Requests : pc[r] \in UnderWay /\ ~Blocked(r))
  <2> SUFFICES ASSUME IInv, NEW r \in Requests, Blocked(r)
               PROVE  \E q \in Requests : pc[q] \in UnderWay /\ ~Blocked(q)
    OBVIOUS
  <2>1. PICK q \in holds : TRUE
    BY DEF Blocked, AccountLocked, Waits
  <2>2. q \in Requests /\ pc[q] = "commit"
    BY <2>1 DEF IInv, TypeOK, Handling, Point
  <2> QED
    BY <2>2 DEF Blocked, UnderWay, InFlight
<1> QED
  BY <1>1, Invariance, PTL

\* How many statements a request at this point has before it, at most.
Left(label) ==
  CASE label = "start" -> 5 [] label \in {"select", "admit"} -> 4
    [] label \in {"stamp", "get"} -> 3 [] label = "write" -> 2 [] label = "commit" -> 1
    [] OTHER -> 0

LEMMA LeftFacts ==
  /\ Left("start") = 5 /\ Left("select") = 4 /\ Left("admit") = 4 /\ Left("stamp") = 3
  /\ Left("get") = 3 /\ Left("write") = 2 /\ Left("commit") = 1
  /\ Left("200") = 0 /\ Left("401") = 0 /\ Left("404") = 0 /\ Left("429") = 0 /\ Left("500") = 0
BY DEF Left

\* No request turns back: each of its statements brings it nearer to its answer,
\* and nothing else does the contrary, so that a login or an edit takes at most
\* five (admin.py:33-71, 166-201).
THEOREM OnlyForward ==
  Spec => [][\A r \in Requests : /\ Left(pc'[r]) <= Left(pc[r])
                                 /\ Step(r) => Left(pc'[r]) < Left(pc[r])]_vars
<1> DEFINE Forward == \A r \in Requests : /\ Left(pc'[r]) <= Left(pc[r])
                                          /\ Step(r) => Left(pc'[r]) < Left(pc[r])
<1>1. ASSUME IInv, [Next]_vars PROVE [Forward]_vars
  <2>t. /\ pc \in [Requests -> Answered \union InFlight]
        /\ pc' \in [Requests -> Answered \union InFlight]
    BY <1>1, NextInv DEF IInv, TypeOK
  <2>n. \A label \in Answered \union InFlight : Left(label) \in 0..5
    BY LeftFacts DEF Answered, InFlight
  <2>1. ASSUME NEW q \in Requests, Step(q) \/ CommitUnheard(q) \/ Fault(q)
        PROVE  /\ Left(pc'[q]) < Left(pc[q])
               /\ \A r \in Requests \ {q} : pc'[r] = pc[r]
    <3>1. CASE CheckLimit(q) \/ Verify(q) \/ StampLogin(q)
      BY <2>t, <3>1, LeftFacts DEF CheckLimit, Verify, StampLogin, Goto
    <3>2. CASE VerifySession(q) \/ Admit(q)
      BY <2>t, <3>2, LeftFacts DEF VerifySession, Admit, Goto
    <3>3. CASE GetPost(q) \/ WritePost(q) \/ WriteRaises(q)
      BY <2>t, <3>3, LeftFacts DEF GetPost, WritePost, WriteRaises, Answer, Goto
    <3>4. CASE CommitLogin(q) \/ CommitEdit(q) \/ CommitUnheard(q)
      BY <2>t, <3>4, LeftFacts
      DEF CommitLogin, CommitEdit, CommitUnheard, LoginTakesEffect, EditTakesEffect, Answer, Goto
    <3>5. CASE Fault(q)
      BY <2>t, <3>5, LeftFacts DEF Fault, Answer, Goto, InFlight
    <3> QED
      BY <2>1, <3>1, <3>2, <3>3, <3>4, <3>5 DEF Step
  <2>2. \A r \in Requests : Step(r) => Left(pc'[r]) < Left(pc[r])
    BY <2>1
  <2>3. ASSUME NEW r \in Requests, Next PROVE Left(pc'[r]) <= Left(pc[r])
    <3>1. /\ Left(pc[r]) \in 0..5 /\ Left(pc'[r]) \in 0..5
          /\ pc[r] \in Answered \union InFlight
      BY <2>n, <2>t
    <3>2. CASE \E q \in Requests : Step(q) \/ CommitUnheard(q) \/ Fault(q)
      BY <2>1, <3>1, <3>2
    <3>3. CASE (\E e \in Accounts : Deactivate(e)) \/ Clock
      <4>1. pc'[r] = pc[r]
        BY <3>3 DEF Deactivate, Clock, handlers
      <4> QED
        BY <3>1, <4>1
    <3>4. CASE Crash
      <4>1. pc'[r] = pc[r] \/ pc'[r] = "500"
        BY <3>4 DEF Crash
      <4> QED
        BY <3>1, <4>1, LeftFacts
    <3> QED
      BY <2>3, <3>2, <3>3, <3>4 DEF Next
  <2> QED
    BY <1>1, <2>2, <2>3
<1> HIDE DEF Forward
<1>2. Spec => [][Forward]_vars
  BY <1>1, Invariance, PTL DEF Spec
<1> QED
  BY <1>2 DEF Forward

-----------------------------------------------------------------------------
(***************************************************************************)
(* The edits implement Register.                                           *)
(***************************************************************************)
ReqOfPost == [r \in Requests |-> [ask |-> req[r], post |-> PostOf(r)]]

Value == [p \in PostIds |-> Shown(posts[p])]

Phase == [r \in Requests |->
            IF pc[r] \in {"200", "404"} THEN "answered"
            ELSE IF pc[r] \in {"401", "429", "500"} THEN "failed"
            ELSE IF Effective(r) THEN "effective" ELSE "made"]

LEMMA PublicationInit == Init => Publication!Init
BY DEF Init, Publication!Init, Effective

\* Only r moves.
Alone(r) ==
  /\ req' = req
  /\ \A q \in Requests \ {r} : pc'[q] = pc[q] /\ (Effective(q)' <=> Effective(q))

LEMMA Moving ==
  ASSUME TypeOK, NEW r \in Requests, NEW label, Goto(r, label), req' = req,
         \A q \in Requests \ {r} : seen'[q] = seen[q]
  PROVE  Alone(r) /\ pc'[r] = label
BY DEF TypeOK, Goto, Effective, Alone

\* A handler that moves on inside its transaction shows nothing.
LEMMA Invisible ==
  ASSUME NEW r \in Requests, Alone(r), posts' = posts, Phase'[r] = Phase[r]
  PROVE  UNCHANGED Publication!vars
<1>1. Phase' = Phase
  BY DEF Phase, Alone
<1>2. ReqOfPost' = ReqOfPost /\ Value' = Value
  BY DEF Alone, ReqOfPost, Value, PostOf
<1> QED
  BY <1>1, <1>2 DEF Publication!vars, Phase, ReqOfPost, Value

\* A refusal or an error is a failure of the register's request.
LEMMA Failing ==
  ASSUME NEW r \in Requests, Alone(r), pc[r] \in InFlight, pc'[r] \in {"401", "429", "500"},
         Value' = Value
  PROVE  Publication!Next
<1>1. /\ \A q \in {r} : Phase[q] \in {"made", "effective"}
      /\ Phase' = [q \in Requests |-> IF q \in {r} THEN "failed" ELSE Phase[q]]
  BY DEF Phase, InFlight, Alone
<1>2. ReqOfPost' = ReqOfPost
  BY DEF Alone, ReqOfPost, PostOf
<1>3. Publication!Fail({r})
  BY <1>1, <1>2 DEF Publication!Fail, Phase, ReqOfPost, Value
<1> QED
  BY <1>3, {r} \in SUBSET Requests DEF Publication!Next

LEMMA TakingEffect ==
  ASSUME NEW r \in Requests, Alone(r), Phase[r] = "made",
         Phase'[r] \in {"effective", "answered", "failed"},
         Value' = [Value EXCEPT ![PostOf(r)] = Value'[PostOf(r)]],
         Value'[PostOf(r)] \in Effect(ReqOfPost[r], Value[PostOf(r)])
  PROVE  Publication!Next
<1>1. Phase' = [Phase EXCEPT ![r] = Phase'[r]]
  BY DEF Phase, Alone
<1>2. ReqOfPost' = ReqOfPost /\ PostOfAsk(ReqOfPost[r]) = PostOf(r)
  BY DEF Alone, ReqOfPost, PostOf, PostOfAsk
<1>3. Publication!TakeEffect(r)
  BY <1>1, <1>2 DEF Publication!TakeEffect, Phase, Value, ReqOfPost
<1> QED
  BY <1>3 DEF Publication!Next

LEMMA Answering ==
  ASSUME NEW r \in Requests, Alone(r), Phase[r] = "effective", Phase'[r] = "answered",
         Value' = Value
  PROVE  Publication!Next
<1>1. Phase' = [Phase EXCEPT ![r] = "answered"]
  BY DEF Phase, Alone
<1>2. ReqOfPost' = ReqOfPost
  BY DEF Alone, ReqOfPost, PostOf
<1>3. Publication!Answer(r)
  BY <1>1, <1>2 DEF Publication!Answer, Phase, Value, ReqOfPost
<1> QED
  BY <1>3 DEF Publication!Next

\* A request that finds what it wants takes effect and changes nothing.
LEMMA TakingEffectUnseen ==
  ASSUME TypeOK, NEW r \in Requests, Alone(r), posts' = posts, Phase[r] = "made",
         Phase'[r] \in {"effective", "answered", "failed"},
         Shown(Row(r)) \in Effect(ReqOfPost[r], Shown(Row(r)))
  PROVE  Publication!Next
<1>1. PostOf(r) \in PostIds
  BY AskFacts
<1>2. Value' = Value /\ Value[PostOf(r)] = Shown(Row(r))
  BY <1>1 DEF Value, Row
<1>3. Value' = [Value EXCEPT ![PostOf(r)] = Value'[PostOf(r)]]
  BY <1>2 DEF Value
<1> QED
  BY <1>2, <1>3, TakingEffect

LEMMA EditShown ==
  ASSUME TypeOK, Handling, NEW r \in Requests, NEW label \in {"200", "500"},
         EditTakesEffect(r), Answer(r, label)
  PROVE  Publication!Next
<1>t. /\ ~IsLogin(r) /\ pc[r] = "commit" /\ pc'[r] = label /\ Alone(r)
      /\ PostOf(r) \in PostIds /\ req[r] \in Protected
      /\ posts' = [posts EXCEPT ![PostOf(r)] = NewRow(r)]
  BY AskFacts, Moving DEF EditTakesEffect, Answer, Row, NewRow, TypeOK
<1>1. /\ Value[PostOf(r)] = Shown(Row(r)) /\ Value'[PostOf(r)] = Shown(NewRow(r))
      /\ Value' = [Value EXCEPT ![PostOf(r)] = Shown(NewRow(r))]
  BY <1>t DEF Value, Row, TypeOK
<1>2. Phase'[r] = IF label = "200" THEN "answered" ELSE "failed"
  BY <1>t DEF Phase
<1>3. ReqOfPost[r].ask = req[r]
  BY DEF ReqOfPost
<1>4. CASE Effective(r)
  <2>1. req[r].op = "update" /\ (req[r].live <=> seen[r].date # Unset)
    BY <1>4 DEF Effective
  <2>2. Updated(req[r], r, seen[r]).date = seen[r].date
    BY <2>1 DEF Updated
  <2>3. NewRow(r).there = Row(r).there /\ NewRow(r).date = Row(r).date
    BY <1>t, <2>1, <2>2, NewRowFacts
  <2>4. Value' = Value
    BY <1>1, <2>3 DEF Value, Shown
  <2>5. Phase[r] = "effective"
    BY <1>4, <1>t DEF Phase
  <2>6. CASE label = "200"
    BY <1>2, <1>t, <2>4, <2>5, <2>6, Answering
  <2>7. CASE label = "500"
    BY <1>t, <2>4, <2>7, Failing DEF InFlight
  <2> QED
    BY <2>6, <2>7
<1>5. CASE ~Effective(r)
  <2>1. Phase[r] = "made" /\ Phase'[r] \in {"effective", "answered", "failed"}
    BY <1>2, <1>5, <1>t DEF Phase
  <2>2. Shown(NewRow(r)) \in Effect(ReqOfPost[r], Shown(Row(r)))
    <3>1. CASE req[r].op = "create"
      <4>1. NewRow(r) = Created(req[r], r)
        BY <1>t, <3>1, NewRowFacts
      <4>2. Shown(NewRow(r)) = IF req[r].live THEN "live" ELSE "draft"
        BY <4>1, UnsetAssumption DEF Created, Shown
      <4> QED
        BY <1>3, <3>1, <4>2 DEF Effect
    <3>2. CASE req[r].op = "delete"
      BY <1>3, <1>t, <3>2, NewRowFacts DEF Effect, Shown, NoPost
    <3>3. CASE req[r].op = "update"
      <4>1. ~(req[r].live <=> seen[r].date # Unset)
        BY <1>5, <1>t, <3>3 DEF Effective
      <4>2. req[r].live \in BOOLEAN
        BY <1>t DEF Protected
      <4>3. /\ Updated(req[r], r, seen[r]).date = IF req[r].live THEN r ELSE Unset
            /\ Updated(req[r], r, seen[r]).date # seen[r].date
        BY <4>1, <4>2, UnsetAssumption DEF Updated
      <4>4. NewRow(r).date = IF req[r].live THEN r ELSE Unset
        BY <1>t, <3>3, <4>3, NewRowFacts
      <4>5. Row(r).there /\ NewRow(r).there
        <5>1. r \in holds
          BY <1>t, <3>3, <4>3, NewRowFacts, WrittenRow DEF Edits
        <5> QED
          BY <1>t, <3>3, <5>1, NewRowFacts
      <4>6. Shown(NewRow(r)) = IF req[r].live THEN "live" ELSE "draft"
        BY <4>4, <4>5, UnsetAssumption DEF Shown
      <4>7. Shown(Row(r)) # "absent"
        BY <4>5 DEF Shown
      <4> QED
        BY <1>3, <3>3, <4>6, <4>7 DEF Effect
    <3> QED
      BY <1>t, <3>1, <3>2, <3>3, NewRowFacts DEF Edits
  <2> QED
    BY <1>1, <1>t, <2>1, <2>2, TakingEffect
<1> QED
  BY <1>4, <1>5

LEMMA PublicationNext == IInv /\ [Next]_vars => [Publication!Next]_(Publication!vars)
<1> SUFFICES ASSUME IInv, [Next]_vars PROVE [Publication!Next]_(Publication!vars)
  OBVIOUS
<1>t. TypeOK /\ Handling /\ \A r \in Requests : Point(r)
  BY DEF IInv, Handling
\* Requests that are not past their checks, or not edits, are made and no more.
<1>m. ASSUME NEW r \in Requests, pc[r] \in {"start", "select", "stamp", "admit", "get"} \/ (IsLogin(r) /\ pc[r] \in InFlight)
      PROVE  Phase[r] = "made"
  BY <1>m DEF Phase, Effective, IsLogin, InFlight
<1>1. ASSUME NEW r \in Requests, Alone(r), posts' = posts, pc[r] \in InFlight,
             pc'[r] \in {"401", "429", "500"}
      PROVE  Publication!Next
  BY <1>1, Failing DEF Value
<1>2. ASSUME NEW r \in Requests, CheckLimit(r) \/ Verify(r) \/ VerifySession(r)
      PROVE  [Publication!Next]_(Publication!vars)
  <2>1. PICK label \in {"select", "stamp", "admit", "401", "429"} : Goto(r, label)
    BY <1>2 DEF CheckLimit, Verify, VerifySession
  <2>2. /\ pc[r] \in {"start", "select"} /\ pc[r] \in InFlight
        /\ Alone(r) /\ pc'[r] = label /\ UNCHANGED <<req, posts, seen>>
    BY <1>2, <1>t, <2>1, Moving DEF CheckLimit, Verify, VerifySession, InFlight
  <2>3. CASE label \in {"401", "429"}
    BY <1>1, <2>2, <2>3
  <2>4. CASE label \notin {"401", "429"}
    <3>1. Phase[r] = "made" /\ Phase'[r] = "made"
      BY <1>m, <2>1, <2>2, <2>4 DEF Phase, Effective
    <3> QED
      BY <2>2, <3>1, Invisible
  <2> QED
    BY <2>3, <2>4
<1>3. ASSUME NEW r \in Requests, StampLogin(r) PROVE UNCHANGED Publication!vars
  <2>1. IsLogin(r) /\ pc[r] = "stamp" /\ pc'[r] = "commit" /\ Alone(r) /\ posts' = posts
    BY <1>3, <1>t, Moving DEF StampLogin, Point
  <2>2. Phase[r] = "made" /\ Phase'[r] = "made"
    BY <1>m, <2>1 DEF Phase, Effective, IsLogin, Alone
  <2> QED
    BY <2>1, <2>2, Invisible
<1>4. ASSUME NEW r \in Requests, LoginTakesEffect(r), NEW label \in {"200", "500"}, Answer(r, label)
      PROVE  Publication!Next
  <2>1. IsLogin(r) /\ pc[r] = "commit" /\ pc'[r] = label /\ Alone(r) /\ posts' = posts
    BY <1>4, <1>t, Moving DEF LoginTakesEffect, Answer
  <2>2. CASE label = "500"
    BY <1>1, <2>1, <2>2 DEF InFlight
  <2>3. CASE label = "200"
    <3>1. Phase[r] = "made" /\ Phase'[r] = "answered"
      BY <1>m, <2>1, <2>3 DEF Phase, InFlight
    <3>2. Shown(Row(r)) \in Effect(ReqOfPost[r], Shown(Row(r)))
      BY <2>1 DEF Effect, ReqOfPost, IsLogin
    <3> QED
      BY <1>t, <2>1, <3>1, <3>2, TakingEffectUnseen
  <2> QED
    BY <2>2, <2>3
<1>5. ASSUME NEW r \in Requests, Admit(r) PROVE [Publication!Next]_(Publication!vars)
  <2>1. PICK label \in {"401", "write", "200", "get"} :
          /\ Goto(r, label)
          /\ label = "write" => req[r].op = "create"
          /\ label = "200" => req[r].op = "look"
    BY <1>5 DEF Admit
  <2>2. /\ pc[r] = "admit" /\ pc[r] \in InFlight /\ Alone(r) /\ pc'[r] = label
        /\ UNCHANGED <<req, posts, seen>>
    BY <1>5, <1>t, <2>1, Moving DEF Admit, InFlight
  <2>3. CASE label = "401"
    BY <1>1, <2>2, <2>3
  <2>4. CASE label = "200"
    <3>1. Phase[r] = "made" /\ Phase'[r] = "answered"
      BY <1>m, <2>2, <2>4 DEF Phase
    <3>2. Shown(Row(r)) \in Effect(ReqOfPost[r], Shown(Row(r)))
      BY <2>1, <2>4 DEF Effect, ReqOfPost
    <3> QED
      BY <1>t, <2>2, <3>1, <3>2, TakingEffectUnseen
  <2>5. CASE label \in {"write", "get"}
    <3>1. Phase[r] = "made" /\ Phase'[r] = "made"
      BY <1>m, <2>1, <2>2, <2>5 DEF Phase, Effective
    <3> QED
      BY <2>2, <3>1, Invisible
  <2> QED
    BY <2>3, <2>4, <2>5
<1>6. ASSUME NEW r \in Requests, GetPost(r) PROVE [Publication!Next]_(Publication!vars)
  <2> DEFINE label == IF ~Row(r).there THEN "404"
                      ELSE IF req[r].op = "update" /\ Updated(req[r], r, Row(r)) = Row(r)
                      THEN "commit" ELSE "write"
  <2>1. /\ pc[r] = "get" /\ Alone(r) /\ pc'[r] = label /\ UNCHANGED <<req, posts>>
        /\ seen'[r] = Row(r) /\ req[r].op \in {"update", "delete"}
    <3>1. Goto(r, label) /\ seen' = [seen EXCEPT ![r] = Row(r)]
      BY <1>6 DEF GetPost
    <3> HIDE DEF label
    <3>2. \A q \in Requests \ {r} : seen'[q] = seen[q]
      BY <1>t, <3>1 DEF TypeOK
    <3> QED
      BY <1>6, <1>t, <3>1, <3>2, Moving DEF GetPost, Point, TypeOK
  <2>2. Phase[r] = "made" /\ ReqOfPost[r].ask = req[r]
    BY <1>m, <2>1 DEF ReqOfPost
  <2>3. CASE Phase'[r] = "made"
    BY <2>1, <2>2, <2>3, Invisible
  <2>4. CASE Phase'[r] # "made"
    <3>1. Phase'[r] \in {"effective", "answered", "failed"}
      BY <2>4 DEF Phase
    <3>2. Shown(Row(r)) \in Effect(ReqOfPost[r], Shown(Row(r)))
      <4>1. CASE ~Row(r).there
        BY <2>1, <2>2, <4>1 DEF Effect, Shown
      <4>2. CASE Row(r).there
        <5>1. Effective(r)'
          BY <2>1, <2>4, <4>2 DEF Phase
        <5>2. req[r].op = "update" /\ (req[r].live <=> Row(r).date # Unset)
          BY <2>1, <5>1 DEF Effective
        <5> QED
          BY <2>2, <4>2, <5>2 DEF Effect, Shown
      <4> QED
        BY <4>1, <4>2
    <3> QED
      BY <1>t, <2>1, <2>2, <3>1, <3>2, TakingEffectUnseen
  <2> QED
    BY <2>3, <2>4
<1>7. ASSUME NEW r \in Requests, WritePost(r) PROVE UNCHANGED Publication!vars
  <2>1. pc[r] = "write" /\ pc'[r] = "commit" /\ Alone(r) /\ UNCHANGED <<req, posts, seen>>
    BY <1>7, <1>t, Moving DEF WritePost
  <2>2. Phase'[r] = Phase[r]
    BY <2>1 DEF Phase, Effective
  <2> QED
    BY <2>1, <2>2, Invisible
<1>8. ASSUME NEW r \in Requests, WriteRaises(r) \/ Fault(r) PROVE Publication!Next
  <2>1. Goto(r, "500") /\ pc[r] \in InFlight /\ UNCHANGED <<req, posts, seen>>
    BY <1>8 DEF WriteRaises, Fault, Answer, InFlight
  <2> QED
    BY <1>1, <1>t, <2>1, Moving
<1>9. ASSUME NEW r \in Requests, CommitLogin(r) \/ CommitEdit(r) \/ CommitUnheard(r)
      PROVE  Publication!Next
  BY <1>4, <1>9, <1>t, EditShown DEF CommitLogin, CommitEdit, CommitUnheard
<1>10. CASE Crash
  <2>1. PICK R \in SUBSET Requests :
          \A r \in Requests : r \in R <=> pc[r] \in InFlight \ {"start"}
    <3>1. {r \in Requests : pc[r] \in InFlight \ {"start"}} \in SUBSET Requests
      OBVIOUS
    <3> QED
      BY <3>1
  <2>2. /\ \A q \in Requests : pc'[q] = IF q \in R THEN "500" ELSE pc[q]
        /\ UNCHANGED <<req, posts, seen>>
    BY <1>10, <2>1 DEF Crash
  <2>3. /\ \A q \in R : Phase[q] \in {"made", "effective"}
        /\ Phase' = [q \in Requests |-> IF q \in R THEN "failed" ELSE Phase[q]]
    BY <2>1, <2>2 DEF Phase, InFlight, Effective
  <2>4. ReqOfPost' = ReqOfPost /\ Value' = Value
    BY <2>2 DEF ReqOfPost, Value, PostOf
  <2>5. Publication!Fail(R)
    BY <2>3, <2>4 DEF Publication!Fail, Phase, ReqOfPost, Value
  <2> QED
    BY <2>5 DEF Publication!Next
<1>11. ASSUME Clock \/ UNCHANGED vars \/ \E e \in Accounts : Deactivate(e)
       PROVE  UNCHANGED Publication!vars
  <2>1. UNCHANGED <<req, pc, posts, seen>>
    BY <1>11 DEF Clock, Deactivate, handlers, vars
  <2>2. ReqOfPost' = ReqOfPost /\ Value' = Value /\ Phase' = Phase
    BY <2>1 DEF ReqOfPost, Value, PostOf, Phase, Effective
  <2> QED
    BY <2>2 DEF Publication!vars, Phase, ReqOfPost, Value
<1> QED
  BY <1>2, <1>3, <1>5, <1>6, <1>7, <1>8, <1>9, <1>10, <1>11 DEF Next, Step

\* Whether a post is absent, a draft or live is an atomic register: every edit
\* takes effect at one moment, as if it were alone, or never (admin.py:166-201).
THEOREM ImplementsRegister == Spec => PublicationSpec
<1> QED
  BY PublicationInit, PublicationNext, Invariance, PTL
  DEF Spec, PublicationSpec, Publication!Spec
=============================================================================
