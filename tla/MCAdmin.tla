------------------------------ MODULE MCAdmin ------------------------------
(***************************************************************************)
(* Admin on a small instance: one account, three requests, in the mixes    *)
(* that can meet.                                                          *)
(***************************************************************************)
EXTENDS Admin, TLC

CONSTANTS r1, r2, r3, home, office, ann, p1, s1, s2

Login(client, good) == [op |-> "login", client |-> client, email |-> ann, good |-> good]

Ask(op, cookie, post, slug, live) ==
  [op |-> op, cookie |-> cookie, post |-> post, slug |-> slug, live |-> live]

Look(cookie) == Ask("look", cookie, p1, s1, FALSE)
Delete == Ask("delete", ann, p1, s1, FALSE)

Mix(a, b, c) == r1 :> a @@ r2 :> b @@ r3 :> c

\* Three attempts of one client, of which the first is wrong, or right ones of two
\* clients; a login and two uses of its token or of an earlier one, or of none.
Attempted ==
  {Mix(Login(home, client = office), Login(client, TRUE), Login(home, TRUE)) :
     client \in {home, office}}

Entered ==
  {Mix(Login(home, TRUE), a, b) :
     a \in {Login(home, TRUE), Look(r1), Ask("create", r1, p1, s2, TRUE)},
     b \in {Look(r1), Look(NoCookie), Delete}}

\* Three edits of a post within an earlier session, one of which publishes it: an
\* update meets each of the others, and a post is created with the slug that a
\* rename takes or that a rename or a DELETE gives up.
Publish == Ask("update", ann, p1, s1, TRUE)
Withdraw == Ask("update", ann, p1, s1, FALSE)
Rename == Ask("update", ann, p1, s2, TRUE)
Create(slug, live) == Ask("create", ann, p1, slug, live)

Edited ==
  {Mix(Publish, Publish, b) : b \in {Publish, Withdraw, Delete}}
    \union {Mix(Publish, a, b) : a \in {Withdraw, Delete}, b \in {Rename}}
    \union {Mix(Publish, Withdraw, Delete)}
    \union {Mix(Publish, Rename, Create(slug, slug = s2)) : slug \in Slugs}
    \union {Mix(Publish, Delete, Create(s1, FALSE))}

MixesOfAnn == Attempted \union Entered \union Edited

KeysOf == Clients \X Accounts

\* The post is a draft, or was published before.
PostsBefore ==
  {[p \in PostIds |-> IF p = p1 THEN [there |-> TRUE, slug |-> s1, date |-> d] ELSE NoPost] :
     d \in {Unset, Earlier}}
=============================================================================
