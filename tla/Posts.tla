------------------------------- MODULE Posts -------------------------------
(***************************************************************************)
(* The rows of table posts and what an administrator may ask of them.  The *)
(* module has no state; Admin extends it.  Title, text, excerpt and image  *)
(* are written like the slug and are left out.                             *)
(***************************************************************************)
CONSTANTS Requests,      \* the requests, each made once
          OldPosts,      \* the posts there may be before the first request
          Slugs,
          Unset,         \* NULL in a column
          Earlier        \* a time before the first request

\* A post is named by the request that creates it.
PostIds == OldPosts \union Requests

\* A row: whether it is there, its slug, and published_at by the request that
\* took the time.
Rows == [there : BOOLEAN, slug : Slugs \union {Unset}, date : Requests \union {Unset, Earlier}]

NoPost == [there |-> FALSE, slug |-> Unset, date |-> Unset]

Edits == {"create", "update", "delete"}

\* The rows before the first request: slugs are unique.
EarlierPosts ==
  {posts \in [PostIds -> {NoPost} \union [there : {TRUE}, slug : Slugs, date : {Unset, Earlier}]] :
     /\ \A p \in Requests : posts[p] = NoPost
     /\ \A p, q \in OldPosts :
          (posts[p].there /\ posts[q].there /\ posts[p].slug = posts[q].slug) => p = q}

\* Faulty variant: the column takes the flag and not the time.
CreatedWithFlag(a, r) == [there |-> TRUE, slug |-> a.slug, date |-> a.live]

\* The Post as create makes it and as update leaves the one it loaded; a is the
\* body of the request, r the request.
Created(a, r) == [there |-> TRUE, slug |-> a.slug, date |-> IF a.live THEN r ELSE Unset]

\* Faulty variant: publishing a published post dates it anew.
UpdatedAnew(a, r, row) ==
  [there |-> TRUE, slug |-> a.slug, date |-> IF a.live THEN r ELSE Unset]

Updated(a, r, row) ==
  [there |-> TRUE, slug |-> a.slug,
   date |-> IF ~a.live THEN Unset ELSE IF row.date = Unset THEN r ELSE row.date]

\* What is shown of a row: the public list leaves drafts out, that of an
\* administrator does not.
Shown(row) == IF ~row.there THEN "absent" ELSE IF row.date = Unset THEN "draft" ELSE "live"

\* What a request is for: how it may change what is shown of its post.
Effect(x, shown) ==
  IF x.ask.op = "delete" THEN {"absent"}
  ELSE IF x.ask.op = "create" \/ (x.ask.op = "update" /\ shown # "absent")
  THEN {IF x.ask.live THEN "live" ELSE "draft"} ELSE {shown}
=============================================================================
