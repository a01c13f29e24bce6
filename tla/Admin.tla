------------------------------- MODULE Admin -------------------------------
(***************************************************************************)
(* The administration API (app/routers/admin.py): the login with its rate  *)
(* limiter and the session it issues, the check of that session in front   *)
(* of every other request, and the edits of posts.                         *)
(*                                                                         *)
(* A request is one PostgreSQL transaction at READ COMMITTED, and other    *)
(* requests run at every await.  An edit is flushed by its commit: the row *)
(* it wrote is locked until the transaction ends, and so is its slug.      *)
(***************************************************************************)
EXTENDS Posts, Limiter

CONSTANTS Clients,       \* the addresses logins come from
          Accounts,      \* the e-mail addresses of admin_users
          NoCookie,      \* a request without a valid token
          SessionMaxAge, \* SESSION_MAX_AGE
          Asked,         \* what the requests may ask together
          Before,        \* the posts there may be at the start
          MaxFaults      \* bound on errors of the database and the process

\* good: the password and the code are right.
Logins == [op : {"login"}, client : Clients, email : Accounts, good : BOOLEAN]

\* The token a request carries: the one a login issued, or that of a session
\* opened by an account before the first request.
Tokens == Requests \union Accounts

\* "look" stands for every endpoint that only reads, of the listings with a
\* filter that they know.
Protected == [op : Edits \union {"look"}, cookie : Tokens \union {NoCookie},
              post : PostIds, slug : Slugs, live : BOOLEAN]

\* The token of a request is one that a login issues.
Mixes ==
  {mix \in [Requests -> Logins \union Protected] :
     \A r \in Requests :
       (mix[r].op # "login" /\ mix[r].cookie \in Requests) => mix[mix[r].cookie].op = "login"}

ASSUME AskedAssumption == Asked \subseteq Mixes
ASSUME BeforeAssumption == Before \subseteq EarlierPosts
ASSUME KeysAssumption == Keys = Clients \X Accounts /\ Callers = Requests
ASSUME SessionMaxAgeAssumption == SessionMaxAge \in Nat
ASSUME MaxFaultsAssumption == MaxFaults \in Nat
ASSUME UnsetAssumption == Unset \notin Requests \union Slugs \union Times \union {Earlier}
ASSUME NamesAssumption == Requests \intersect Accounts = {} /\ NoCookie \notin Tokens

VARIABLES req,           \* what each request asks
          pc,            \* where its handler is, or how it answered
          admins,        \* table admin_users: is_active, last_login_at
          issued,        \* when each token was issued
          checked,       \* when each request looked at the clock
          posts,         \* table posts, as committed
          seen,          \* the post as each request's SELECT returned it
          holds,         \* the requests whose transaction wrote a row
          faults         \* faults so far

handlers == <<req, pc, issued, checked, seen, holds, faults>>
vars == <<handlers, admins, posts, limiterVars>>

Answered == {"200", "401", "404", "429", "500"}
InFlight == {"start", "select", "stamp", "admit", "get", "write", "commit"}

IsLogin(r) == req[r].op = "login"
KeyOf(r) == <<req[r].client, req[r].email>>
PostOf(r) == IF req[r].op \in {"update", "delete"} THEN req[r].post ELSE r

\* Whose request it claims to be.
Holder(token) == IF token \in Requests THEN req[token].email ELSE token
AccountOf(r) == IF IsLogin(r) THEN req[r].email ELSE Holder(req[r].cookie)

-----------------------------------------------------------------------------
Init ==
  /\ LimiterInit
  /\ req \in Asked
  /\ pc = [r \in Requests |-> "start"]
  /\ admins = [e \in Accounts |-> [active |-> TRUE, last |-> Unset]]
  /\ issued = [t \in Tokens |-> IF t \in Accounts THEN 0 ELSE Unset]
  /\ checked = [r \in Requests |-> Unset]
  /\ posts \in Before
  /\ seen = [r \in Requests |-> NoPost]
  /\ holds = {}
  /\ faults = 0

Goto(r, label) == pc' = [pc EXCEPT ![r] = label]

\* A request is answered and its session closed.
Answer(r, label) == Goto(r, label) /\ holds' = holds \ {r}

-----------------------------------------------------------------------------
(***************************************************************************)
(* login.                                                                  *)
(***************************************************************************)

CheckLimit(r) ==
  /\ pc[r] = "start" /\ IsLogin(r)
  /\ \/ Allow(KeyOf(r), r) /\ Goto(r, "select")
     \/ Deny(KeyOf(r)) /\ Goto(r, "429")
  /\ UNCHANGED <<req, admins, issued, checked, posts, seen, holds, faults>>

\* SELECT the account and verify the password and the code; then take the time
\* of the login.
Verify(r) ==
  /\ pc[r] = "select"
  /\ IF req[r].good /\ admins[req[r].email].active
     THEN Goto(r, "stamp") /\ checked' = [checked EXCEPT ![r] = now]
     ELSE Goto(r, "401") /\ UNCHANGED checked
  /\ UNCHANGED <<req, admins, issued, posts, seen, holds, faults, limiterVars>>

\* Another transaction wrote the account's row.
AccountLocked(e) == \E q \in holds : IsLogin(q) /\ req[q].email = e

\* The flush of last_login_at.
StampLogin(r) ==
  /\ pc[r] = "stamp"
  /\ ~AccountLocked(req[r].email)
  /\ holds' = holds \union {r}
  /\ Goto(r, "commit")
  /\ UNCHANGED <<req, admins, issued, checked, posts, seen, faults, limiterVars>>

\* Faulty variant: the UPDATE names every column of the account that was loaded.
LoadedAccount(r, row) == [active |-> TRUE, last |-> checked[r]]

\* The account after the login's COMMIT.
StampedAccount(r, row) == [row EXCEPT !.last = checked[r]]

LoginTakesEffect(r) ==
  /\ pc[r] = "commit" /\ IsLogin(r)
  /\ admins' = [admins EXCEPT ![req[r].email] = StampedAccount(r, @)]
  /\ UNCHANGED <<req, checked, posts, seen, limiterVars>>

\* The token is made after the commit.
CommitLogin(r) ==
  /\ LoginTakesEffect(r)
  /\ issued' = [issued EXCEPT ![r] = now]
  /\ Answer(r, "200")
  /\ UNCHANGED faults

-----------------------------------------------------------------------------
(***************************************************************************)
(* require_admin, in front of every other endpoint but logout, which only  *)
(* tells the browser to drop its cookie.                                   *)
(***************************************************************************)

\* Faulty variant: the signature of the token is verified and not its age.
NeverTooOld(token) == TRUE

Fresh(token) == now - issued[token] <= SessionMaxAge

\* The token is there and verify_session accepts it.  A request that carries the
\* token of a login is made after that login was answered.
VerifySession(r) ==
  /\ pc[r] = "start" /\ ~IsLogin(r)
  /\ req[r].cookie # NoCookie => issued[req[r].cookie] # Unset
  /\ IF req[r].cookie # NoCookie /\ Fresh(req[r].cookie)
     THEN Goto(r, "admit") /\ checked' = [checked EXCEPT ![r] = now]
     ELSE Goto(r, "401") /\ UNCHANGED checked
  /\ UNCHANGED <<req, admins, issued, posts, seen, holds, faults, limiterVars>>

\* SELECT the account; what comes after the check, by endpoint.
Admit(r) ==
  /\ pc[r] = "admit"
  /\ Goto(r, IF ~admins[AccountOf(r)].active THEN "401"
             ELSE IF req[r].op = "create" THEN "write"
             ELSE IF req[r].op = "look" THEN "200" ELSE "get")
  /\ UNCHANGED <<req, admins, issued, checked, posts, seen, holds, faults, limiterVars>>

-----------------------------------------------------------------------------
(***************************************************************************)
(* The edits of posts.                                                     *)
(***************************************************************************)

\* The instance after the handler assigned to it.
Wanted(r) == CASE req[r].op = "create" -> Created(req[r], r)
               [] req[r].op = "update" -> Updated(req[r], r, seen[r])
               [] OTHER -> NoPost

\* Faulty variant: the UPDATE names every column of the instance.
WriteEveryColumn(r, row) == IF req[r].op = "update" /\ ~row.there THEN row ELSE Wanted(r)

\* What r's flush makes of the committed row: of an update the columns that
\* differ from what was loaded.
Written(r, row) ==
  IF req[r].op # "update" THEN Wanted(r)
  ELSE [c \in DOMAIN row |-> IF Wanted(r)[c] # seen[r][c] THEN Wanted(r)[c] ELSE row[c]]

Row(r) == posts[PostOf(r)]
NewRow(r) == Written(r, Row(r))

\* db.get: 404 when the post is not there.  An update that changes no column has
\* nothing to flush.
GetPost(r) ==
  /\ pc[r] = "get"
  /\ seen' = [seen EXCEPT ![r] = Row(r)]
  /\ Goto(r, IF ~Row(r).there THEN "404"
             ELSE IF req[r].op = "update" /\ Updated(req[r], r, Row(r)) = Row(r)
             THEN "commit" ELSE "write")
  /\ UNCHANGED <<req, admins, issued, checked, posts, holds, faults, limiterVars>>

\* r's flush waits: another transaction wrote the row, or wrote or left the slug.
Waits(r) ==
  \E q \in holds \ {r} :
    /\ ~IsLogin(q)
    /\ \/ PostOf(q) = PostOf(r)
       \/ NewRow(r).there /\ NewRow(r).slug \in {Row(q).slug, NewRow(q).slug}

\* Faulty variant: posts.slug has no unique index.
NoUniqueSlug(r) == FALSE

\* The slug is another post's.
SlugTaken(r) ==
  /\ NewRow(r).there
  /\ \E p \in PostIds \ {PostOf(r)} : posts[p].there /\ posts[p].slug = NewRow(r).slug

\* The post that an update loaded is gone.
Gone(r) == req[r].op = "update" /\ ~Row(r).there

\* The flush; a DELETE that matches no row is a warning.
WritePost(r) ==
  /\ pc[r] = "write"
  /\ ~Waits(r) /\ ~SlugTaken(r) /\ ~Gone(r)
  /\ holds' = holds \union {r}
  /\ Goto(r, "commit")
  /\ UNCHANGED <<req, admins, issued, checked, posts, seen, faults, limiterVars>>

\* IntegrityError, or StaleDataError: nothing catches them.
WriteRaises(r) ==
  /\ pc[r] = "write"
  /\ ~Waits(r) /\ (SlugTaken(r) \/ Gone(r))
  /\ Answer(r, "500")
  /\ UNCHANGED <<req, admins, issued, checked, posts, seen, faults, limiterVars>>

EditTakesEffect(r) ==
  /\ pc[r] = "commit" /\ ~IsLogin(r)
  /\ posts' = [posts EXCEPT ![PostOf(r)] = Written(r, @)]
  /\ UNCHANGED <<req, admins, issued, checked, seen, limiterVars>>

CommitEdit(r) ==
  /\ EditTakesEffect(r)
  /\ Answer(r, "200")
  /\ UNCHANGED faults

-----------------------------------------------------------------------------
(***************************************************************************)
(* The rest of the world.                                                  *)
(***************************************************************************)

\* An account is switched off, by hand in the database.
Deactivate(e) ==
  /\ admins[e].active
  /\ ~AccountLocked(e)
  /\ admins' = [admins EXCEPT ![e].active = FALSE]
  /\ UNCHANGED <<handlers, posts, limiterVars>>

Clock == Tick /\ UNCHANGED <<handlers, admins, posts>>

\* The connection is lost after COMMIT took effect.
CommitUnheard(r) ==
  /\ faults < MaxFaults
  /\ LoginTakesEffect(r) \/ EditTakesEffect(r)
  /\ Answer(r, "500")
  /\ faults' = faults + 1
  /\ UNCHANGED issued

\* A statement or a commit fails.
Fault(r) ==
  /\ faults < MaxFaults
  /\ pc[r] \in InFlight \ {"start"}
  /\ Answer(r, "500")
  /\ faults' = faults + 1
  /\ UNCHANGED <<req, admins, issued, checked, posts, seen, limiterVars>>

\* The process dies and is restarted: sessions outlive it, the limiter does not.
Crash ==
  /\ faults < MaxFaults
  /\ pc' = [r \in Requests |-> IF pc[r] \in InFlight \ {"start"} THEN "500" ELSE pc[r]]
  /\ holds' = {}
  /\ faults' = faults + 1
  /\ Forget
  /\ UNCHANGED <<req, admins, issued, checked, posts, seen>>

-----------------------------------------------------------------------------
Step(r) ==
  \/ CheckLimit(r) \/ Verify(r) \/ StampLogin(r) \/ CommitLogin(r)
  \/ VerifySession(r) \/ Admit(r)
  \/ GetPost(r) \/ WritePost(r) \/ WriteRaises(r) \/ CommitEdit(r)

Next ==
  \/ \E r \in Requests : Step(r) \/ CommitUnheard(r) \/ Fault(r)
  \/ \E e \in Accounts : Deactivate(e)
  \/ Clock
  \/ Crash

Spec == Init /\ [][Next]_vars

-----------------------------------------------------------------------------
(***************************************************************************)
(* Properties; WithinLimit is in Limiter.                                  *)
(***************************************************************************)

TypeOK ==
  /\ LimiterTypeOK
  /\ req \in Mixes
  /\ pc \in [Requests -> Answered \union InFlight]
  /\ admins \in [Accounts -> [active : BOOLEAN, last : Times \union {Unset}]]
  /\ issued \in [Tokens -> Times \union {Unset}]
  /\ checked \in [Requests -> Times \union {Unset}]
  /\ posts \in [PostIds -> Rows]
  /\ seen \in [Requests -> Rows]
  /\ holds \subseteq Requests
  /\ faults \in 0..MaxFaults

\* No two posts have the same slug, whatever edits interleave between their
\* SELECT, their flush and their commit: a post is shown by its slug.
SlugsAreUnique ==
  \A p, q \in PostIds :
    (posts[p].there /\ posts[q].there /\ posts[p].slug = posts[q].slug) => p = q

\* Nobody is turned away by the limiter who had not used up the limit: an attempt
\* is answered 429 only when MaxAttempts attempts of its key were accepted in the
\* last Window by this process; refused attempts do not count.
RefusedOnlyWhenFull ==
  [][\A r \in Requests :
       (pc[r] # "429" /\ pc'[r] = "429") => Cardinality(Lately(KeyOf(r))) >= MaxAttempts]_vars

\* Whoever gets past the check of a session does so in the time of a login that
\* had the right password and code, of an account that was active then; across
\* restarts, and whatever happens between the check and the SELECT.
EntryIsEarned ==
  \A r \in Requests :
    (~IsLogin(r) /\ pc[r] \in {"admit", "get", "write", "commit", "200", "404"}) =>
      LET token == req[r].cookie IN
        /\ checked[r] \in issued[token]..(issued[token] + SessionMaxAge)
        /\ token \in Requests =>
             IsLogin(token) /\ req[token].good /\ pc[token] = "200" /\ checked[token] <= issued[token]

\* An account that is switched off is off for good, and for every request that
\* was not past its checks: no login under way writes it back, no session of it
\* is let in.
DeactivatedIsOut ==
  [][\A e \in Accounts :
       ~admins[e].active =>
         /\ ~admins'[e].active
         /\ \A r \in Requests :
              (AccountOf(r) = e /\ pc[r] \in {"start", "select", "admit"}) =>
                pc'[r] \in {"start", "select", "admit", "401", "429", "500"}]_vars

\* A post that stays published keeps its date, unless a publication that had
\* read it as a draft is overtaken by another one.
DateIsKept ==
  [][\A p \in PostIds :
       (posts[p].date # Unset /\ posts'[p].date \notin {Unset, posts[p].date}) =>
         \E r \in Requests :
           /\ posts'[p].date = r /\ PostOf(r) = p
           /\ seen[r].date = Unset /\ req[r].op = "update" /\ req[r].live]_vars

\* Whether a post is shown is an atomic register, as the choice of a donor is in
\* Consent: an update that finds what it wants to see writes it in effect where
\* it reads it.
Effective(r) ==
  /\ req[r].op = "update" /\ pc[r] \in {"write", "commit"}
  /\ req[r].live <=> seen[r].date # Unset

PostOfAsk(x) == x.post

Publication == INSTANCE Register
                 WITH Keys <- PostIds, KeyOf <- PostOfAsk,
                      req <- [r \in Requests |-> [ask |-> req[r], post |-> PostOf(r)]],
                      value <- [p \in PostIds |-> Shown(posts[p])],
                      phase <- [r \in Requests |->
                                  IF pc[r] \in {"200", "404"} THEN "answered"
                                  ELSE IF pc[r] \in {"401", "429", "500"} THEN "failed"
                                  ELSE IF Effective(r) THEN "effective" ELSE "made"]

PublicationSpec == Publication!Spec
=============================================================================
