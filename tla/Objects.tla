--------------------------------- MODULE Objects --------------------------------
(******************************************************************************)
(* What the storage routes show to whom: packages/storage/src/routes.ts,      *)
(* authorize(), list(), the downloads and the signed URLs of service.ts.      *)
(* How an object comes to be ready, and how requests interleave on it, is the *)
(* subject of Storage: here a request is one step.                            *)
(*                                                                            *)
(* A storage policy compares the owner or the name of the object's row; how   *)
(* rules combine otherwise is the subject of Policy.                          *)
(******************************************************************************)
EXTENDS Integers, FiniteSets, Sequences

CONSTANTS
  Names,     \* the canonical paths, in the order of ORDER BY name
  Listings,  \* the prefixes asked for, and the paths that start with each
  Users,     \* subjects of access tokens
  RuleSets,  \* the sets of storage policies tried
  MaxLinks,  \* bound: signed URLs
  Life,      \* the expiry of a signed URL, within 60 seconds and 7 days, in ticks
  MaxTime,   \* bound: ticks
  MaxLimit   \* bound: rows per page of a list

Path   == {Names[i] : i \in DOMAIN Names}
NoOwner   == "null"
StorageRule   == [action : {"read", "write"}, role : {"*", "authenticated"},
           clause : {"true", "own"} \cup Path]

ObjectsAssumption ==
  /\ Names \in Seq(STRING) /\ \A p \in DOMAIN Listings : Listings[p] \subseteq Path
  /\ \A R \in RuleSets : R \subseteq StorageRule
  /\ {MaxLinks, Life, MaxTime, MaxLimit} \subseteq Nat

VARIABLES
  grants,   \* the storage policies
  public,  \* whether the bucket is public
  owners,  \* the ready objects of the bucket: path to owner
  links,   \* signed URLs handed out
  time,    \* the clock
  reply    \* the last answer: who asked, by which link, and the paths it shows

objectVars == <<grants, public, owners, links, time, reply>>

Callers == Users \cup {"anon", "service"}
Subject(p) == IF p \in Users THEN p ELSE NoOwner
Silence == [to |-> "nobody", link |-> 0, shown |-> {}]

ObjectsInit ==
  /\ grants \in RuleSets
  /\ public \in BOOLEAN /\ owners = [n \in {} |-> NoOwner] /\ links = << >> /\ time = 0
  /\ reply = Silence

--------------------------------------------------------------------------------
(* authorize().                                                               *)

AppliesTo(r, p) == r.role = "*" \/ p \in Users

\* A comparison with NULL is no match.
Matches(r, p, name, owner) ==
  CASE r.clause = "true" -> TRUE
    [] r.clause = "own"  -> owner # NoOwner /\ owner = Subject(p)
    [] OTHER -> name = r.clause

\* The service passes; without any rule for the action, whoever signed in does.
Authorized(p, action, name, owner) ==
  \/ p = "service"
  \/ IF \E r \in grants : r.action = action
     THEN \E r \in grants : r.action = action /\ AppliesTo(r, p) /\ Matches(r, p, name, owner)
     ELSE p # "anon"

ReadyAt(n)      == n \in DOMAIN owners
MayRead(p, n) == public \/ Authorized(p, "read", n, owners[n])

--------------------------------------------------------------------------------
(* list(): the prefix is authorized as if it were an object of the caller;    *)
(* LIMIT and OFFSET count the rows before the unreadable ones are left out.   *)

Listable(p, prefix) == Authorized(p, "read", prefix, Subject(p))

ListRows(prefix) == {i \in DOMAIN Names : ReadyAt(Names[i]) /\ Names[i] \in Listings[prefix]}

\* ORDER BY name LIMIT limit OFFSET offset.
Cut(prefix, limit, offset) ==
  LET rows == ListRows(prefix)
      place(i) == Cardinality({j \in rows : j <= i})
  IN  {i \in rows : offset < place(i) /\ place(i) <= offset + limit}

\* Mutant: each row is authorized as the prefix was.
ListPageOwn(p, prefix, limit, offset) ==
  {n \in {Names[i] : i \in Cut(prefix, limit, offset)} :
     public \/ Authorized(p, "read", n, Subject(p))}

ListPage(p, prefix, limit, offset) ==
  {n \in {Names[i] : i \in Cut(prefix, limit, offset)} : MayRead(p, n)}

--------------------------------------------------------------------------------
(* The routes.                                                                *)

\* objectRoutes(): what a method and the first segment ask for.
RouteOf(method, kind) ==
  CASE method = "GET" /\ kind \in {"public", "sign", "info"} -> kind
    [] method = "GET" /\ kind \in {"authenticated", "bucket"} -> "download"
    [] method = "POST" /\ kind \in {"list", "move", "copy"} -> kind
    [] method = "POST" /\ kind = "sign" -> "mint"
    [] method = "PUT" \/ (method = "POST" /\ kind \notin {"list", "move", "copy", "sign"}) -> "upload"
    [] method = "DELETE" -> "remove"
    [] OTHER -> "unsupported"

\* route(): requests for objects and for buckets.
Routed(root, method, kind) ==
  CASE root = "object" -> RouteOf(method, kind)
    [] root = "bucket" -> "bucket"
    [] OTHER -> "unsupported"

Show(p, link, shown) == reply' = [to |-> p, link |-> link, shown |-> shown]

\* download() and objectInfoFor(); publicDownload() has no principal.
Download(p, n) ==
  /\ Routed("object", "GET", "authenticated") = "download" /\ Routed("object", "GET", "info") = "info"
  /\ ReadyAt(n) /\ MayRead(p, n) /\ Show(p, 0, {n})
  /\ UNCHANGED <<grants, public, owners, links, time>>

PublicDownload(n) ==
  /\ Routed("object", "GET", "public") = "public"
  /\ public /\ ReadyAt(n) /\ Show("anon", 0, {n})
  /\ UNCHANGED <<grants, public, owners, links, time>>

List(p, prefix, limit, offset) ==
  /\ Routed("object", "POST", "list") = "list"
  /\ Listable(p, prefix) /\ Show(p, 0, ListPage(p, prefix, limit, offset))
  /\ UNCHANGED <<grants, public, owners, links, time>>

\* createSignedUrl(), and createSignedUrls() for each path: the policy counts, public or not.
MintLink(p, n) ==
  /\ Routed("object", "POST", "sign") = "mint"
  /\ Len(links) < MaxLinks /\ ReadyAt(n) /\ Authorized(p, "read", n, owners[n])
  /\ links' = Append(links, [path |-> n, by |-> p, exp |-> time + Life])
  /\ reply' = Silence
  /\ UNCHANGED <<grants, public, owners, time>>

\* downloadSigned(): the path of the token, and whatever object is ready there now.
DownloadSigned(i) ==
  /\ Routed("object", "GET", "sign") = "sign"
  /\ time <= links[i].exp /\ ReadyAt(links[i].path)
  /\ Show("anon", i, {links[i].path})
  /\ UNCHANGED <<grants, public, owners, links, time>>

Stored(p, n) == [m \in DOMAIN owners \cup {n} |-> IF m = n THEN Subject(p) ELSE owners[m]]

\* upload(): the object is the caller's, whoever owned the one it replaces.
Upload(p, n) ==
  /\ Routed("object", "PUT", "bucket") = "upload"
  /\ Authorized(p, "write", n, Subject(p))
  /\ owners' = Stored(p, n) /\ reply' = Silence
  /\ UNCHANGED <<grants, public, links, time>>

Remove(p, n) ==
  /\ Routed("object", "DELETE", "bucket") = "remove"
  /\ ReadyAt(n) /\ Authorized(p, "write", n, owners[n])
  /\ owners' = [m \in DOMAIN owners \ {n} |-> owners[m]] /\ reply' = Silence
  /\ UNCHANGED <<grants, public, links, time>>

\* copy(), and move(), which copies and then removes: a refused removal leaves the copy.
Copy(p, from, to) ==
  /\ Routed("object", "POST", "copy") = "copy" /\ Routed("object", "POST", "move") = "move"
  /\ ReadyAt(from) /\ Authorized(p, "read", from, owners[from]) /\ Authorized(p, "write", to, Subject(p))
  /\ reply' = Silence
  /\ \/ owners' = Stored(p, to)
     \/ LET copied == Stored(p, to)
        IN  owners' = IF Authorized(p, "write", from, copied[from])
                      THEN [m \in DOMAIN copied \ {from} |-> copied[m]] ELSE copied
  /\ UNCHANGED <<grants, public, links, time>>

\* updateBucket() by the route: what the body does not name is reset, "public" to false.
UpdateBucket ==
  /\ Routed("bucket", "PUT", "") = "bucket"
  /\ \E b \in BOOLEAN : public' = b
  /\ reply' = Silence
  /\ UNCHANGED <<grants, owners, links, time>>

Later == time < MaxTime /\ time' = time + 1 /\ reply' = Silence
         /\ UNCHANGED <<grants, public, owners, links>>

ObjectsNext ==
  \/ UpdateBucket \/ Later
  \/ \E i \in DOMAIN links : DownloadSigned(i)
  \/ \E n \in Path : PublicDownload(n)
  \/ \E p \in Callers :
       \/ \E n \in Path : Download(p, n) \/ MintLink(p, n) \/ Upload(p, n) \/ Remove(p, n)
       \/ \E from, to \in Path : Copy(p, from, to)
       \/ \E prefix \in DOMAIN Listings, limit \in 1..MaxLimit, offset \in 0..MaxLimit :
            List(p, prefix, limit, offset)

ObjectsSpec == ObjectsInit /\ [][ObjectsNext]_objectVars

--------------------------------------------------------------------------------
\* However it is asked for, a path is shown only when the bucket is public, when the one who
\* asked may download that very object, or through a link for this path that has not expired.
\* And pages of any size, fetched to the end, list
\* for a caller everything below the prefix that it may download, and nothing else (list).
ShownAsAllowed ==
  /\ \A n \in reply.shown :
       \/ public
       \/ reply.link = 0 /\ Authorized(reply.to, "read", n, owners[n])
       \/ reply.link > 0 /\ links[reply.link].path = n /\ time <= links[reply.link].exp
  /\ \A p \in Callers, prefix \in DOMAIN Listings, limit \in 1..MaxLimit :
       Listable(p, prefix) =>
         UNION {ListPage(p, prefix, limit, k * limit) : k \in 0..Len(Names)}
           = {n \in DOMAIN owners : n \in Listings[prefix] /\ MayRead(p, n)}
================================================================================
