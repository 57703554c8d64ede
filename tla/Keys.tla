-------------------------------- MODULE Keys --------------------------------
(***************************************************************************)
(* From row changes to docs: what the replication stream shows of a change *)
(* under each replica identity, the docs HandleEvent derives from it       *)
(* (engine.go), the channel names that stand for docs, and the warning the *)
(* agent gives at startup (replident.go).  It is where Engine's assumption *)
(* WatchesCover comes from, for one set of definitions with every kind of  *)
(* watch.  The live set does not move, a cold doc is never marked, and     *)
(* every call succeeds: Engine has the rest.                               *)
(*                                                                         *)
(* Three tables, each with a key "id" and a reference "ref": the post of a *)
(* comment, the author of a post, nothing for a tag.                       *)
(***************************************************************************)
EXTENDS Naturals, Sequences, FiniteSets

CONSTANTS
  Comments, Posts, Tags, Authors,
  Odd,            \* an author that cannot be a channel segment
  NULL,           \* the SQL null
  GONE,           \* no such row
  IdentityMaps,   \* the replica identities the tables may have
  MaxLive,        \* bound: docs with subscribers
  MaxStream       \* bound: events not yet handled

Tables == {"comments", "posts", "tags"}

Identities == {"full", "default", "nothing"}

ASSUME ConstantsType ==
  /\ IdentityMaps \subseteq [Tables -> Identities]
  /\ MaxLive \in Nat
  /\ MaxStream \in Nat \ {0}
  /\ GONE \notin Posts \cup Authors \cup {Odd, NULL}
  /\ {Odd, NULL} \cap (Posts \cup Authors) = {}

VARIABLES
  identity,     \* identity[t]: replica identity of table t
  rows,         \* rows[t][id]: the row's ref, or GONE
  live,         \* docs with subscribers
  stream,       \* events not yet given to HandleEvent
  dirty,        \* channels to recompute
  lookups,      \* reverse-index runs to make
  changed,      \* live docs whose result changed since it was last computed
  takenAway     \* history: those of them a row went from unseen

vars == <<identity, rows, live, stream, dirty, lookups, changed, takenAway>>

Ids  == [comments |-> Comments, posts |-> Posts, tags |-> Tags]
Refs == [comments |-> Posts, posts |-> Authors \cup {Odd}, tags |-> {NULL}]

-----------------------------------------------------------------------------
(***************************************************************************)
(* The definitions.  post(id) shows a post, thread(post) its comments,     *)
(* byAuthor(author) the comments on an author's posts, total() all tags.   *)
(***************************************************************************)
ColumnsWatch(q, cols) == [query |-> q, columns |-> cols, keysColumns |-> <<>>]
KeysWatch(q, cols)    == [query |-> q, columns |-> <<>>, keysColumns |-> cols]
BareWatch(q)          == [query |-> q, columns |-> <<>>, keysColumns |-> <<>>]

watches ==
  [comments |-> {ColumnsWatch("thread", <<"ref">>),
                 KeysWatch("byAuthor", <<"ref">>)},
   posts    |-> {ColumnsWatch("post", <<"id">>),
                 ColumnsWatch("byAuthor", <<"ref">>)},
   tags     |-> {BareWatch("total")}]

(* A channel is a query's name and its param values.                       *)
BuildChannel(query, values) == <<query>> \o values

ValidChannelValue(v) == v \in Posts \cup Authors

(* The channels parseChannel accepts and some row could key.               *)
Docs ==
  {BuildChannel(q, <<p>>) : q \in {"post", "thread"}, p \in Posts}
  \cup {BuildChannel("byAuthor", <<a>>) : a \in Authors}
  \cup {BuildChannel("total", <<>>)}

(* SELECT ref FROM posts WHERE id = $1                                     *)
RunKeys(args) ==
  {rows.posts[p] : p \in {x \in Posts : <<x>> = args /\ rows.posts[x] # GONE}}

(* The docs whose SQL reads a comment on post p in the tables r.           *)
AuthorOf(r, p) ==
  IF r.posts[p] \in Authors THEN {BuildChannel("byAuthor", <<r.posts[p]>>)} ELSE {}

ShowsComment(r, p) == {BuildChannel("thread", <<p>>)} \cup AuthorOf(r, p)

(* What each doc shows: rows by table, key and ref.                        *)
Result(r, doc) ==
  CASE doc[1] = "post"   -> {<<p, r.posts[p]>> : p \in {doc[2]}}
    [] doc[1] = "total"  -> {g \in Tags : r.tags[g] # GONE}
    [] OTHER ->
         {<<c, r.comments[c]>> : c \in {x \in Comments :
             r.comments[x] # GONE /\ doc \in ShowsComment(r, r.comments[x])}}

-----------------------------------------------------------------------------
(* What an old row carries: all of it, its key with nulls, or nothing.     *)

NoRow == [id |-> NULL, ref |-> NULL, present |-> FALSE]
Row(id, ref) == [id |-> id, ref |-> ref, present |-> TRUE]

IdentityColumns(t) ==
  CASE identity[t] = "full"    -> {"id", "ref"}
    [] identity[t] = "default" -> {"id"}
    [] identity[t] = "nothing" -> {}

OldRow(t, id) ==
  IF identity[t] = "full" THEN Row(id, rows[t][id]) ELSE Row(id, NULL)

Values == Comments \cup Posts \cup Tags \cup Authors \cup {Odd, NULL}
Image  == [id : Values, ref : Values, present : BOOLEAN]
Event  == [table : Tables, old : Image, new : Image]

TypeOK ==
  /\ identity \in [Tables -> Identities]
  /\ DOMAIN rows = Tables
  /\ \A t \in Tables : rows[t] \in [Ids[t] -> Refs[t] \cup {GONE}]
  /\ live \subseteq Docs
  /\ stream \in Seq(Event)
  /\ Len(stream) <= MaxStream
  /\ dirty \subseteq live
  /\ lookups \subseteq {[query |-> "byAuthor", args |-> <<v>>] : v \in Values}
  /\ changed \subseteq live
  /\ takenAway \subseteq changed

Init ==
  /\ identity \in IdentityMaps
  /\ rows = [t \in Tables |-> [id \in Ids[t] |-> GONE]]
  /\ live \in {S \in SUBSET Docs : Cardinality(S) <= MaxLive}
  /\ stream = <<>>
  /\ dirty = {} /\ lookups = {}
  /\ changed = {} /\ takenAway = {}

-----------------------------------------------------------------------------
(***************************************************************************)
(* Statements.  edited are the docs an UPDATE of a column outside the      *)
(* model alters as well; unseen those whose rows the derivation is not     *)
(* shown.  Postgres refuses to update or delete the rows of a published    *)
(* table without a replica identity.                                       *)
(***************************************************************************)
Write(t, newRows, old, new, edited, unseen) ==
  /\ Len(stream) < MaxStream
  /\ rows' = [rows EXCEPT ![t] = newRows]
  /\ stream' = Append(stream, [table |-> t, old |-> old, new |-> new])
  /\ changed' = changed \cup {d \in live :
                  d \in edited \/ Result(rows', d) # Result(rows, d)}
  /\ takenAway' = takenAway \cup (unseen \cap changed')
  /\ UNCHANGED <<identity, live, dirty, lookups>>

Exists(t, id) == rows[t][id] # GONE
Mutable(t)    == identity[t] # "nothing"

Insert(t, id, ref) ==
  /\ ~Exists(t, id)
  /\ Write(t, [rows[t] EXCEPT ![id] = ref], NoRow, Row(id, ref), {}, {})

Edited(t, id, ref) ==
  CASE t = "comments" -> ShowsComment(rows, ref)
    [] t = "posts"    -> {BuildChannel("post", <<id>>)}
    [] t = "tags"     -> {BuildChannel("total", <<>>)}

(* The reverse index asks for the post a comment is moved to, never for    *)
(* the one it leaves (engine.go:399).                                      *)
LeftBehind(t, id, ref) ==
  IF t = "comments" THEN AuthorOf(rows, rows.comments[id]) \ AuthorOf(rows, ref)
  ELSE {}

(* An old row is sent when it is full, or when the key changes.            *)
Update(t, id, newId, ref) ==
  /\ Exists(t, id)
  /\ newId # id => ~Exists(t, newId)
  /\ Mutable(t)
  /\ Write(t, [rows[t] EXCEPT ![id] = GONE, ![newId] = ref],
           IF identity[t] = "full" \/ newId # id THEN OldRow(t, id) ELSE NoRow,
           Row(newId, ref), Edited(t, newId, ref), LeftBehind(t, id, ref))

Delete(t, id) ==
  /\ Exists(t, id)
  /\ Mutable(t)
  /\ Write(t, [rows[t] EXCEPT ![id] = GONE], OldRow(t, id), NoRow, {}, {})

(* A truncation brings no rows, so only a bare watch derives from it.      *)
Keyed(t, id) ==
  CASE t = "comments" -> ShowsComment(rows, rows.comments[id])
    [] t = "posts"    -> {BuildChannel("post", <<id>>)} \cup AuthorOf(rows, id)
    [] t = "tags"     -> {}

Truncate(t) ==
  Write(t, [id \in Ids[t] |-> GONE], NoRow, NoRow, {},
        UNION {Keyed(t, id) : id \in {x \in Ids[t] : Exists(t, x)}})

-----------------------------------------------------------------------------
(* HandleEvent.                                                            *)

(* markFromRow: no row, or a value that cannot be a segment, keys nothing. *)
KeyOf(watch, row) ==
  LET values == [i \in DOMAIN watch.columns |-> row[watch.columns[i]]]
  IN IF row.present /\ \A i \in DOMAIN values : ValidChannelValue(values[i])
     THEN {BuildChannel(watch.query, values)} ELSE {}

(* mutant: a column mapping reads the new row only *)
MarksNew(event) ==
  (UNION {KeyOf(w, event.new) :
            w \in {x \in watches[event.table] : x.columns # <<>>}})
  \cup {BuildChannel(w.query, <<>>) : w \in {x \in watches[event.table] :
           x.columns = <<>> /\ x.keysColumns = <<>>}}

Marks(event) ==
  (UNION {KeyOf(w, event.old) \cup KeyOf(w, event.new) :
            w \in {x \in watches[event.table] : x.columns # <<>>}})
  \cup {BuildChannel(w.query, <<>>) : w \in {x \in watches[event.table] :
           x.columns = <<>> /\ x.keysColumns = <<>>}}

(* mutant: a column mapping falls through to the reverse index             *)
LookupsOfAll(event) ==
  LET row == IF event.new.present THEN event.new ELSE event.old
  IN {[query |-> w.query,
       args |-> [i \in DOMAIN w.keysColumns |-> row[w.keysColumns[i]]]] :
        w \in {x \in watches[event.table] : row.present}}

(* mutant: the old row feeds the reverse index, else the new one           *)
LookupsOfOld(event) ==
  LET row == IF event.old.present THEN event.old ELSE event.new
  IN {[query |-> w.query,
       args |-> [i \in DOMAIN w.keysColumns |-> row[w.keysColumns[i]]]] :
        w \in {x \in watches[event.table] : x.keysColumns # <<>> /\ row.present}}

(* enqueueLookup: the new row feeds the reverse index, else the old one.   *)
LookupsOf(event) ==
  LET row == IF event.new.present THEN event.new ELSE event.old
  IN {[query |-> w.query,
       args |-> [i \in DOMAIN w.keysColumns |-> row[w.keysColumns[i]]]] :
        w \in {x \in watches[event.table] : x.keysColumns # <<>> /\ row.present}}

HandleEvent ==
  /\ stream # <<>>
  /\ stream' = Tail(stream)
  /\ dirty' = dirty \cup (Marks(Head(stream)) \cap live)
  /\ lookups' = lookups \cup LookupsOf(Head(stream))
  /\ UNCHANGED <<identity, rows, live, changed, takenAway>>

(* The reverse index reads the tables as they are when it runs.            *)
KeysOf(lookup) ==
  {BuildChannel(lookup.query, <<v>>) :
     v \in {x \in RunKeys(lookup.args) : ValidChannelValue(x)}}

RunLookup(lookup) ==
  /\ lookups' = lookups \ {lookup}
  /\ dirty' = dirty \cup (KeysOf(lookup) \cap live)
  /\ UNCHANGED <<identity, rows, live, stream, changed, takenAway>>

Compute(doc) ==
  /\ dirty' = dirty \ {doc}
  /\ changed' = changed \ {doc}
  /\ takenAway' = takenAway \ {doc}
  /\ UNCHANGED <<identity, rows, live, stream, lookups>>

Next ==
  \/ \E t \in Tables : \E id \in Ids[t] :
       \/ \E ref \in Refs[t] :
            \/ Insert(t, id, ref)
            \/ \E newId \in Ids[t] : Update(t, id, newId, ref)
       \/ Delete(t, id)
  \/ \E t \in Tables : Truncate(t)
  \/ HandleEvent
  \/ \E lookup \in lookups : RunLookup(lookup)
  \/ \E doc \in dirty : Compute(doc)

Spec == Init /\ [][Next]_vars

-----------------------------------------------------------------------------
(***************************************************************************)
(* The startup check: the columns a table's watches read, less those its   *)
(* old rows carry.  A query is warned about when a table it watches lacks  *)
(* a column one of its own watches reads.                                  *)
(***************************************************************************)
ColumnsOf(w) ==
  {w.columns[i] : i \in DOMAIN w.columns}
  \cup {w.keysColumns[i] : i \in DOMAIN w.keysColumns}

Missing(t, query) ==
  (UNION {ColumnsOf(w) : w \in {x \in watches[t] : x.query = query}})
    \ IdentityColumns(t)

Warned(doc) == \E t \in Tables : Missing(t, doc[1]) # {}

(* What an event not yet handled would mark, at once or by its lookups.    *)
Derived(event) == Marks(event) \cup UNION {KeysOf(k) : k \in LookupsOf(event)}

Due ==
  dirty
  \cup (UNION {KeysOf(k) : k \in lookups})
  \cup (UNION {Derived(stream[i]) : i \in DOMAIN stream})

(***************************************************************************)
(* Every doc a change alters is recomputed, unless the agent warned that   *)
(* the table's replica identity cannot carry what a watch reads: old and   *)
(* new rows both map, and a reverse index that runs late, on tables that   *)
(* have moved on, still finds the docs or some later event does            *)
(* (engine.go:266-269, 394-398; replident.go:15-22).  Left out are the     *)
(* docs a row went from unseen: those a moved comment leaves behind where  *)
(* a reverse index finds them, and those a truncation empties.             *)
(***************************************************************************)
UnwarnedDocsFollow ==
  \A d \in changed : Warned(d) \/ d \in Due \/ d \in takenAway
=============================================================================
