----------------------------- MODULE KeysProofs -----------------------------
(***************************************************************************)
(* Proofs about Keys, for any rows, replica identities and bounds: every   *)
(* doc a change alters is recomputed in the end, or was warned about.      *)
(*                                                                         *)
(* UnwarnedDocsFollow is inductive.  A statement's own event derives every *)
(* doc it alters, and every doc a lookup still to run finds no longer once *)
(* the statement has changed the post it reads (WriteKeeps); afterwards a  *)
(* derived doc passes from event to lookup to the dirty set.  The docs     *)
(* whose rows go unseen are in takenAway: what a moved comment leaves      *)
(* behind, and what the rows of a truncated table keyed.                   *)
(***************************************************************************)
EXTENDS Keys, FiniteSetTheorems, SequenceTheorems, TLAPS

-----------------------------------------------------------------------------
(* Channels.                                                               *)

LEMMA OneSegment ==
  ASSUME NEW q, NEW v
  PROVE  BuildChannel(q, <<v>>) = <<q, v>>
<1> DEFINE S == {q, v}
<1>1. <<q>> \in Seq(S) /\ <<v>> \in Seq(S) /\ <<q, v>> \in Seq(S)
  OBVIOUS
<1>2. Len(<<q>>) = 1 /\ Len(<<v>>) = 1 /\ Len(<<q, v>>) = 2
  OBVIOUS
<1>3. <<q>>[1] = q /\ <<v>>[1] = v /\ <<q, v>>[1] = q /\ <<q, v>>[2] = v
  OBVIOUS
<1> DEFINE s == <<q>>
           t == <<v>>
           u == <<q, v>>
<1> HIDE DEF S, s, t, u
<1>4. s \o t \in Seq(S) /\ Len(s \o t) = 2 /\ (s \o t)[1] = q /\ (s \o t)[2] = v
  BY <1>1, <1>2, <1>3, ConcatProperties DEF s, t
<1>5. \A i \in 1 .. Len(u) : (s \o t)[i] = u[i]
  BY <1>2, <1>3, <1>4 DEF u
<1>6. s \o t = u
  BY <1>1, <1>2, <1>4, <1>5, SeqEqual DEF u
<1> QED
  BY <1>6 DEF BuildChannel, s, t, u

LEMMA NoSegment == ASSUME NEW q PROVE BuildChannel(q, << >>) = <<q>>
BY DEF BuildChannel

LEMMA KeyOfOne ==
  ASSUME NEW q, NEW col, NEW row, row.present, ValidChannelValue(row[col])
  PROVE  KeyOf(ColumnsWatch(q, <<col>>), row) = {BuildChannel(q, <<row[col]>>)}
BY DEF KeyOf, ColumnsWatch

LEMMA LookupOfOne ==
  ASSUME NEW q, NEW col, NEW row
  PROVE  [i \in DOMAIN KeysWatch(q, <<col>>).keysColumns |->
            row[KeysWatch(q, <<col>>).keysColumns[i]]] = <<row[col]>>
BY DEF KeysWatch

-----------------------------------------------------------------------------
(* What an event derives, table by table.                                  *)

LEMMA WatchParts ==
  /\ \A q, cols : /\ ColumnsWatch(q, cols).query = q
                  /\ ColumnsWatch(q, cols).columns = cols
                  /\ ColumnsWatch(q, cols).keysColumns = << >>
  /\ \A q, cols : /\ KeysWatch(q, cols).query = q
                  /\ KeysWatch(q, cols).columns = << >>
                  /\ KeysWatch(q, cols).keysColumns = cols
  /\ \A q : /\ BareWatch(q).query = q
            /\ BareWatch(q).columns = << >>
            /\ BareWatch(q).keysColumns = << >>
  /\ \A x : <<x>> # << >>
BY DEF ColumnsWatch, KeysWatch, BareWatch

LEMMA WatchesOf ==
  /\ watches["comments"] =
       {ColumnsWatch("thread", <<"ref">>), KeysWatch("byAuthor", <<"ref">>)}
  /\ watches["posts"] =
       {ColumnsWatch("post", <<"id">>), ColumnsWatch("byAuthor", <<"ref">>)}
  /\ watches["tags"] = {BareWatch("total")}
BY DEF watches

(* A watch on one column marks the doc of either row.                      *)
LEMMA MarkedBy ==
  ASSUME NEW e, NEW q, NEW col,
         ColumnsWatch(q, <<col>>) \in watches[e.table],
         NEW row, row = e.old \/ row = e.new,
         row.present, ValidChannelValue(row[col])
  PROVE  BuildChannel(q, <<row[col]>>) \in Marks(e)
<1> DEFINE w == ColumnsWatch(q, <<col>>)
<1>1. w \in {x \in watches[e.table] : x.columns # << >>}
  BY WatchParts
<1>2. BuildChannel(q, <<row[col]>>) \in KeyOf(w, row)
  BY KeyOfOne
<1> HIDE DEF w
<1>3. BuildChannel(q, <<row[col]>>) \in KeyOf(w, e.old) \cup KeyOf(w, e.new)
  BY <1>2
<1>4. \A x \in {y \in watches[e.table] : y.columns # << >>} :
        KeyOf(x, e.old) \cup KeyOf(x, e.new) \subseteq Marks(e)
  BY DEF Marks
<1> QED
  BY <1>1, <1>3, <1>4

Lookup(v) == [query |-> "byAuthor", args |-> <<v>>]

(* The row the reverse index is fed from.                                  *)
Feed(e) == IF e.new.present THEN e.new ELSE e.old

LEMMA CommentLookups ==
  ASSUME NEW e, e.table = "comments"
  PROVE  LookupsOf(e) = IF Feed(e).present THEN {Lookup(Feed(e).ref)} ELSE {}
<1> DEFINE k == KeysWatch("byAuthor", <<"ref">>)
           c == ColumnsWatch("thread", <<"ref">>)
           W == {x \in watches[e.table] : x.keysColumns # << >> /\ Feed(e).present}
           L(w) == [query |-> w.query,
                    args |-> [i \in DOMAIN w.keysColumns |-> Feed(e)[w.keysColumns[i]]]]
<1>1. LookupsOf(e) = {L(w) : w \in W}
  BY DEF LookupsOf, Feed
<1>2. W = IF Feed(e).present THEN {k} ELSE {}
  <2>1. watches[e.table] = {c, k}
    BY WatchesOf
  <2>2. c.keysColumns = << >> /\ k.keysColumns # << >>
    BY WatchParts
  <2> HIDE DEF c, k
  <2> QED
    BY <2>1, <2>2
<1>3. L(k) = Lookup(Feed(e)["ref"])
  BY LookupOfOne, WatchParts DEF Lookup
<1>4. Feed(e)["ref"] = Feed(e).ref
  OBVIOUS
<1> HIDE DEF k, c, W, L
<1> QED
  BY <1>1, <1>2, <1>3, <1>4

LEMMA OtherLookups ==
  ASSUME NEW e, e.table \in {"posts", "tags"} PROVE LookupsOf(e) = {}
<1>1. \A w \in watches[e.table] : w.keysColumns = << >>
  BY WatchesOf, WatchParts
<1> QED
  BY <1>1 DEF LookupsOf

LEMMA LookupsByAuthor ==
  ASSUME NEW e, e.table \in Tables, NEW k \in LookupsOf(e)
  PROVE  k = Lookup(Feed(e).ref)
BY CommentLookups, OtherLookups DEF Tables

LEMMA TagMarks ==
  ASSUME NEW e, e.table = "tags" PROVE BuildChannel("total", << >>) \in Marks(e)
<1> DEFINE b == BareWatch("total")
<1>1. b \in {x \in watches[e.table] : x.columns = << >> /\ x.keysColumns = << >>}
  BY WatchesOf, WatchParts
<1>2. b.query = "total"
  BY WatchParts
<1> HIDE DEF b
<1> DEFINE B == {x \in watches[e.table] : x.columns = << >> /\ x.keysColumns = << >>}
<1>3. {BuildChannel(x.query, << >>) : x \in B} \subseteq Marks(e)
  BY DEF Marks
<1>4. b \in B
  BY <1>1
<1> HIDE DEF B
<1> QED
  BY <1>2, <1>3, <1>4

LEMMA KeysOfLookup ==
  ASSUME NEW p, p \in Posts, rows.posts[p] # GONE, ValidChannelValue(rows.posts[p])
  PROVE  BuildChannel("byAuthor", <<rows.posts[p]>>) \in KeysOf(Lookup(p))
<1>1. Lookup(p).query = "byAuthor" /\ Lookup(p).args = <<p>>
  BY DEF Lookup
<1>2. rows.posts[p] \in RunKeys(<<p>>)
  BY DEF RunKeys
<1> QED
  BY <1>1, <1>2 DEF KeysOf

(* The post a lookup finds a doc through.                                  *)
LEMMA KeysOfParts ==
  ASSUME NEW v, NEW d \in KeysOf(Lookup(v))
  PROVE  /\ v \in Posts /\ rows.posts[v] # GONE /\ ValidChannelValue(rows.posts[v])
         /\ d = BuildChannel("byAuthor", <<rows.posts[v]>>)
<1>1. Lookup(v).query = "byAuthor" /\ Lookup(v).args = <<v>>
  BY DEF Lookup
<1>2. PICK y \in RunKeys(<<v>>) : ValidChannelValue(y) /\ d = BuildChannel("byAuthor", <<y>>)
  BY <1>1 DEF KeysOf
<1>3. PICK x \in Posts : <<x>> = <<v>> /\ rows.posts[x] # GONE /\ y = rows.posts[x]
  BY <1>2 DEF RunKeys
<1>4. x = v
  BY <1>3
<1> QED
  BY <1>2, <1>3, <1>4

LEMMA DueParts ==
  \A d : d \in Due <=> \/ d \in dirty
                       \/ \E k \in lookups : d \in KeysOf(k)
                       \/ \E i \in DOMAIN stream : d \in Derived(stream[i])
BY DEF Due

LEMMA DerivedParts ==
  ASSUME NEW e, NEW d
  PROVE  d \in Derived(e) <=> d \in Marks(e) \/ \E k \in LookupsOf(e) : d \in KeysOf(k)
BY DEF Derived

-----------------------------------------------------------------------------
(* Docs by their query.                                                    *)

Post(p)     == BuildChannel("post", <<p>>)
Thread(p)   == BuildChannel("thread", <<p>>)
ByAuthor(a) == BuildChannel("byAuthor", <<a>>)
Total       == BuildChannel("total", << >>)

LEMMA DocParts ==
  /\ \A p : Post(p)[1] = "post" /\ Post(p)[2] = p
  /\ \A p : Thread(p)[1] = "thread" /\ Thread(p)[2] = p
  /\ \A a : ByAuthor(a)[1] = "byAuthor" /\ ByAuthor(a)[2] = a
  /\ Total[1] = "total"
BY OneSegment, NoSegment DEF Post, Thread, ByAuthor, Total

LEMMA DocKinds ==
  ASSUME NEW d \in Docs
  PROVE  \/ \E p \in Posts : d = Post(p)
         \/ \E p \in Posts : d = Thread(p)
         \/ \E a \in Authors : d = ByAuthor(a)
         \/ d = Total
<1> DEFINE A == {BuildChannel(q, <<p>>) : q \in {"post", "thread"}, p \in Posts}
           B == {BuildChannel("byAuthor", <<a>>) : a \in Authors}
           C == {BuildChannel("total", << >>)}
<1>1. ASSUME d \in A PROVE \E p \in Posts : d = Post(p) \/ d = Thread(p)
  <2>1. PICK q \in {"post", "thread"}, p \in Posts : d = BuildChannel(q, <<p>>)
    BY <1>1
  <2> QED
    BY <2>1 DEF Post, Thread
<1>2. ASSUME d \in B PROVE \E a \in Authors : d = ByAuthor(a)
  BY <1>2 DEF ByAuthor
<1>3. ASSUME d \in C PROVE d = Total
  BY <1>3 DEF Total
<1>4. Docs = A \cup B \cup C
  BY DEF Docs
<1> HIDE DEF A, B, C
<1> QED
  BY <1>1, <1>2, <1>3, <1>4

(* A doc whose watches read a column that old rows lack was warned about.  *)
LEMMA UnwarnedThread ==
  ASSUME NEW d, d[1] \in {"thread", "byAuthor"}, ~Warned(d), identity \in [Tables -> Identities]
  PROVE  identity["comments"] = "full"
<1> DEFINE w == IF d[1] = "thread" THEN ColumnsWatch("thread", <<"ref">>)
                ELSE KeysWatch("byAuthor", <<"ref">>)
           M == {x \in watches["comments"] : x.query = d[1]}
<1>1. w \in M
  BY WatchesOf, WatchParts
<1>2. "ref" \in ColumnsOf(w)
  BY WatchParts DEF ColumnsOf
<1> HIDE DEF w
<1>3. "ref" \in UNION {ColumnsOf(x) : x \in M}
  BY <1>1, <1>2
<1>4. Missing("comments", d[1]) = {}
  BY DEF Warned, Tables
<1>5. "ref" \in IdentityColumns("comments")
  BY <1>3, <1>4 DEF Missing
<1>6. identity["comments"] \in Identities
  BY DEF Tables
<1> QED
  BY <1>5, <1>6 DEF IdentityColumns, Identities

LEMMA UnwarnedByAuthor ==
  ASSUME NEW d, d[1] = "byAuthor", ~Warned(d), identity \in [Tables -> Identities]
  PROVE  identity["posts"] = "full"
<1> DEFINE w == ColumnsWatch("byAuthor", <<"ref">>)
           M == {x \in watches["posts"] : x.query = d[1]}
<1>1. w \in M
  BY WatchesOf, WatchParts
<1>2. "ref" \in ColumnsOf(w)
  BY WatchParts DEF ColumnsOf
<1> HIDE DEF w
<1>3. "ref" \in UNION {ColumnsOf(x) : x \in M}
  BY <1>1, <1>2
<1>4. Missing("posts", d[1]) = {}
  BY DEF Warned, Tables
<1>5. "ref" \in IdentityColumns("posts")
  BY <1>3, <1>4 DEF Missing
<1>6. identity["posts"] \in Identities
  BY DEF Tables
<1> QED
  BY <1>5, <1>6 DEF IdentityColumns, Identities

(* What a result depends on.                                               *)
LEMMA ResultOfPost ==
  ASSUME NEW r, NEW p PROVE Result(r, Post(p)) = {<<p, r.posts[p]>>}
BY DocParts DEF Result

LEMMA ResultOfTotal ==
  ASSUME NEW r PROVE Result(r, Total) = {g \in Tags : r.tags[g] # GONE}
BY DocParts DEF Result

Shows(r, d) ==
  {c \in Comments : r.comments[c] # GONE /\ d \in ShowsComment(r, r.comments[c])}

LEMMA ResultOfOther ==
  ASSUME NEW r, NEW d, d[1] \in {"thread", "byAuthor"}
  PROVE  Result(r, d) = {<<c, r.comments[c]>> : c \in Shows(r, d)}
BY DEF Result, Shows

LEMMA ResultDiffers ==
  ASSUME NEW r, NEW s, NEW d, d[1] \in {"thread", "byAuthor"}, Result(r, d) # Result(s, d)
  PROVE  \E c \in Comments :
           /\ c \in Shows(r, d) \/ c \in Shows(s, d)
           /\ ~(c \in Shows(r, d) /\ c \in Shows(s, d) /\ r.comments[c] = s.comments[c])
<1> SUFFICES ASSUME \A c \in Shows(r, d) \cup Shows(s, d) :
                      c \in Shows(r, d) /\ c \in Shows(s, d) /\ r.comments[c] = s.comments[c]
             PROVE  FALSE
  BY DEF Shows
<1>1. Shows(r, d) = Shows(s, d)
  OBVIOUS
<1>2. \A c \in Shows(r, d) : <<c, r.comments[c]>> = <<c, s.comments[c]>>
  OBVIOUS
<1>3. {<<c, r.comments[c]>> : c \in Shows(r, d)} = {<<c, s.comments[c]>> : c \in Shows(s, d)}
  BY <1>1, <1>2
<1>4. /\ Result(r, d) = {<<c, r.comments[c]>> : c \in Shows(r, d)}
      /\ Result(s, d) = {<<c, s.comments[c]>> : c \in Shows(s, d)}
  BY ResultOfOther
<1> QED
  BY <1>3, <1>4

(* The docs that show a comment on p.                                      *)
LEMMA ShownBy ==
  ASSUME NEW r, NEW p, NEW d \in ShowsComment(r, p)
  PROVE  d = Thread(p) \/ (r.posts[p] \in Authors /\ d = ByAuthor(r.posts[p]))
BY DEF ShowsComment, AuthorOf, Thread, ByAuthor

LEMMA ThreadShown ==
  ASSUME NEW r, NEW p, NEW y, Thread(p) \in ShowsComment(r, y) PROVE p = y
BY ShownBy, DocParts

-----------------------------------------------------------------------------
(* The state after a step.                                                 *)

LEMMA DuePartsNext ==
  \A d : d \in Due' <=> \/ d \in dirty'
                        \/ \E k \in lookups' : d \in KeysOf(k)'
                        \/ \E i \in DOMAIN stream' : d \in Derived(stream[i])'
BY DEF Due

LEMMA DerivedNext ==
  ASSUME NEW e, NEW d
  PROVE  d \in Derived(e)' <=> d \in Marks(e) \/ \E k \in LookupsOf(e) : d \in KeysOf(k)'
<1>1. Marks(e)' = Marks(e) /\ LookupsOf(e)' = LookupsOf(e)
  BY DEF Marks, LookupsOf, KeyOf, watches, ValidChannelValue
<1> QED
  BY <1>1 DEF Derived

LEMMA KeysOfLookupNext ==
  ASSUME NEW p \in Posts, rows'.posts[p] # GONE, ValidChannelValue(rows'.posts[p])
  PROVE  ByAuthor(rows'.posts[p]) \in KeysOf(Lookup(p))'
<1>1. Lookup(p).query = "byAuthor" /\ Lookup(p).args = <<p>>
  BY DEF Lookup
<1>2. rows'.posts[p] \in RunKeys(<<p>>)'
  BY DEF RunKeys
<1>3. \A k, v : k.query = "byAuthor" /\ v \in RunKeys(k.args)' /\ ValidChannelValue(v) =>
        ByAuthor(v) \in KeysOf(k)'
  BY DEF KeysOf, ByAuthor, ValidChannelValue
<1> QED
  BY <1>1, <1>2, <1>3

LEMMA KeysOfStays ==
  ASSUME rows'.posts = rows.posts PROVE \A k : KeysOf(k)' = KeysOf(k)
BY DEF KeysOf, RunKeys, ValidChannelValue

LEMMA WarnedStays ==
  ASSUME identity' = identity PROVE \A d : Warned(d)' <=> Warned(d)
BY DEF Warned, Missing, ColumnsOf, IdentityColumns, watches

-----------------------------------------------------------------------------
(* What a statement changes.                                               *)

Same(t) == rows'[t] = rows[t]

LEMMA ShowsStays ==
  ASSUME NEW r, NEW s, NEW y, r.posts[y] = s.posts[y]
  PROVE  ShowsComment(r, y) = ShowsComment(s, y)
BY DEF ShowsComment, AuthorOf

LEMMA CommentDiffers ==
  ASSUME Same("posts"), Same("tags"),
         NEW d \in Docs, Result(rows', d) # Result(rows, d)
  PROVE  \E c \in Comments :
           /\ rows'.comments[c] # rows.comments[c]
           /\ \E y \in {rows.comments[c], rows'.comments[c]} :
                y # GONE /\ d \in ShowsComment(rows, y)
<1>1. \A p : d # Post(p)
  BY ResultOfPost DEF Same
<1>2. d # Total
  BY ResultOfTotal DEF Same
<1>3. d[1] \in {"thread", "byAuthor"}
  BY <1>1, <1>2, DocKinds, DocParts
<1>4. PICK c \in Comments :
        /\ c \in Shows(rows, d) \/ c \in Shows(rows', d)
        /\ ~(c \in Shows(rows, d) /\ c \in Shows(rows', d) /\ rows.comments[c] = rows'.comments[c])
  BY <1>3, ResultDiffers
<1>5. \A y : ShowsComment(rows', y) = ShowsComment(rows, y)
  BY ShowsStays DEF Same
<1>6. rows'.comments[c] # rows.comments[c]
  BY <1>4, <1>5 DEF Shows
<1> QED
  BY <1>4, <1>5, <1>6 DEF Shows

LEMMA PostDiffers ==
  ASSUME Same("comments"), Same("tags"),
         \A c \in Comments : rows["comments"][c] \in Posts \cup {GONE},
         NEW d \in Docs, Result(rows', d) # Result(rows, d)
  PROVE  \E p \in Posts :
           /\ rows'.posts[p] # rows.posts[p]
           /\ \/ d = Post(p)
              \/ \E a \in {rows.posts[p], rows'.posts[p]} :
                   a \in Authors /\ d = ByAuthor(a)
<1>1. ASSUME NEW p \in Posts, d = Post(p) PROVE rows'.posts[p] # rows.posts[p]
  <2>1. SUFFICES ASSUME rows'.posts[p] = rows.posts[p] PROVE FALSE
    OBVIOUS
  <2>2. Result(rows', Post(p)) = Result(rows, Post(p))
    BY <2>1, ResultOfPost
  <2> QED
    BY <1>1, <2>2
<1>2. d # Total
  <2>1. rows'.tags = rows.tags
    BY DEF Same
  <2>2. {g \in Tags : rows'.tags[g] # GONE} = {g \in Tags : rows.tags[g] # GONE}
    BY <2>1
  <2>3. Result(rows', Total) = Result(rows, Total)
    BY <2>2, ResultOfTotal
  <2> QED
    BY <2>3
<1>3. ASSUME d[1] \in {"thread", "byAuthor"}
      PROVE  \E p \in Posts :
               /\ rows'.posts[p] # rows.posts[p]
               /\ \E a \in {rows.posts[p], rows'.posts[p]} :
                    a \in Authors /\ d = ByAuthor(a)
  <2>1. PICK c \in Comments :
          /\ c \in Shows(rows, d) \/ c \in Shows(rows', d)
          /\ ~(c \in Shows(rows, d) /\ c \in Shows(rows', d) /\ rows.comments[c] = rows'.comments[c])
    BY <1>3, ResultDiffers
  <2> DEFINE y == rows.comments[c]
  <2>2. rows'.comments[c] = y
    BY DEF Same
  <2>3. /\ d \in ShowsComment(rows, y) \/ d \in ShowsComment(rows', y)
        /\ ~(d \in ShowsComment(rows, y) /\ d \in ShowsComment(rows', y))
    BY <2>1, <2>2 DEF Shows
  <2> HIDE DEF y
  <2>4. rows'.posts[y] # rows.posts[y] /\ y \in Posts
    <3>1. rows'.posts[y] # rows.posts[y]
      BY <2>3, ShowsStays
    <3>2. y \in Posts
      <4>1. y # GONE
        BY <2>1, <2>2 DEF Shows, y
      <4> QED
        BY <4>1 DEF y
    <3> QED
      BY <3>1, <3>2
  <2>5. d # Thread(y)
    BY <2>3 DEF ShowsComment, Thread
  <2> QED
    BY <2>3, <2>4, <2>5, ShownBy
<1> QED
  BY <1>1, <1>2, <1>3, DocKinds, DocParts

LEMMA TagDiffers ==
  ASSUME Same("comments"), Same("posts"),
         NEW d \in Docs, Result(rows', d) # Result(rows, d)
  PROVE  d = Total
<1>1. \A p : d # Post(p)
  BY ResultOfPost DEF Same
<1>2. ASSUME d[1] \in {"thread", "byAuthor"} PROVE FALSE
  <2>1. PICK c \in Comments :
          /\ c \in Shows(rows, d) \/ c \in Shows(rows', d)
          /\ ~(c \in Shows(rows, d) /\ c \in Shows(rows', d) /\ rows.comments[c] = rows'.comments[c])
    BY <1>2, ResultDiffers
  <2>2. \A y : ShowsComment(rows', y) = ShowsComment(rows, y)
    BY ShowsStays DEF Same
  <2> QED
    BY <2>1, <2>2 DEF Shows, Same
<1> QED
  BY <1>1, <1>2, DocKinds, DocParts

-----------------------------------------------------------------------------
(* Types.                                                                  *)

LEMMA IdsOf ==
  /\ Ids["comments"] = Comments /\ Ids["posts"] = Posts /\ Ids["tags"] = Tags
  /\ Refs["comments"] = Posts /\ Refs["posts"] = Authors \cup {Odd} /\ Refs["tags"] = {NULL}
BY DEF Ids, Refs

LEMMA RowTypes ==
  /\ NoRow \in Image
  /\ \A t \in Tables : \A id \in Ids[t] : \A ref \in Refs[t] :
       Row(id, ref) \in Image /\ Row(id, NULL) \in Image
<1>1. \A t \in Tables : Ids[t] \subseteq Values /\ Refs[t] \subseteq Values
  BY IdsOf DEF Tables, Values
<1>2. NULL \in Values
  BY DEF Values
<1> QED
  BY <1>1, <1>2 DEF Image, Row, NoRow

LEMMA OldRowType ==
  ASSUME TypeOK, NEW t \in Tables, NEW id \in Ids[t], Exists(t, id)
  PROVE  OldRow(t, id) \in Image
<1>1. rows[t][id] \in Refs[t]
  BY DEF TypeOK, Exists
<1> QED
  BY <1>1, RowTypes DEF OldRow

LEMMA WriteTypes ==
  ASSUME TypeOK, NEW t \in Tables, NEW f \in [Ids[t] -> Refs[t] \cup {GONE}],
         NEW old \in Image, NEW new \in Image, NEW edited, NEW unseen,
         Write(t, f, old, new, edited, unseen)
  PROVE  TypeOK'
<1> DEFINE e == [table |-> t, old |-> old, new |-> new]
<1>1. e \in Event
  BY DEF Event
<1> HIDE DEF e
<1>2. /\ stream \in Seq(Event) /\ Len(stream) < MaxStream
      /\ stream' = Append(stream, e)
  BY DEF TypeOK, Write, e
<1>3. stream' \in Seq(Event) /\ Len(stream') <= MaxStream
  BY <1>1, <1>2, AppendProperties, LenProperties, ConstantsType DEF ConstantsType
<1>4. DOMAIN rows' = Tables /\ \A u \in Tables : rows'[u] \in [Ids[u] -> Refs[u] \cup {GONE}]
  BY DEF Write, TypeOK
<1>5. changed' \subseteq live /\ takenAway' \subseteq changed'
  BY DEF Write, TypeOK
<1>6. UNCHANGED <<identity, live, dirty, lookups>>
  BY DEF Write
<1> QED
  BY <1>3, <1>4, <1>5, <1>6 DEF TypeOK

LEMMA KeysTypeInit == Init => TypeOK
<1> SUFFICES ASSUME Init PROVE TypeOK
  OBVIOUS
<1>0. identity \in [Tables -> Identities]
  BY ConstantsType DEF Init, ConstantsType
<1>1. stream \in Seq(Event) /\ Len(stream) <= MaxStream
  BY EmptySeq, ConstantsType DEF Init, ConstantsType
<1>2. DOMAIN rows = Tables /\ \A t \in Tables : rows[t] \in [Ids[t] -> Refs[t] \cup {GONE}]
  BY DEF Init
<1> QED
  BY <1>0, <1>1, <1>2 DEF Init, TypeOK

LEMMA KeysTypeNext == TypeOK /\ [Next]_vars => TypeOK'
<1> SUFFICES ASSUME TypeOK, [Next]_vars PROVE TypeOK'
  OBVIOUS
<1>1. ASSUME NEW t \in Tables, NEW id \in Ids[t], NEW ref \in Refs[t], Insert(t, id, ref)
      PROVE  TypeOK'
  <2>1. [rows[t] EXCEPT ![id] = ref] \in [Ids[t] -> Refs[t] \cup {GONE}]
    BY DEF TypeOK
  <2> QED
    BY <1>1, <2>1, RowTypes, WriteTypes DEF Insert
<1>2. ASSUME NEW t \in Tables, NEW id \in Ids[t], NEW newId \in Ids[t],
             NEW ref \in Refs[t], Update(t, id, newId, ref)
      PROVE  TypeOK'
  <2>1. [rows[t] EXCEPT ![id] = GONE, ![newId] = ref] \in [Ids[t] -> Refs[t] \cup {GONE}]
    BY DEF TypeOK
  <2>2. (IF identity[t] = "full" \/ newId # id THEN OldRow(t, id) ELSE NoRow) \in Image
    BY <1>2, OldRowType, RowTypes DEF Update
  <2> QED
    BY <1>2, <2>1, <2>2, RowTypes, WriteTypes DEF Update
<1>3. ASSUME NEW t \in Tables, NEW id \in Ids[t], Delete(t, id) PROVE TypeOK'
  <2>1. [rows[t] EXCEPT ![id] = GONE] \in [Ids[t] -> Refs[t] \cup {GONE}]
    BY DEF TypeOK
  <2> QED
    BY <1>3, <2>1, OldRowType, RowTypes, WriteTypes DEF Delete
<1>4. ASSUME NEW t \in Tables, Truncate(t) PROVE TypeOK'
  BY <1>4, RowTypes, WriteTypes DEF Truncate
<1>5. CASE HandleEvent
  <2> DEFINE e == Head(stream)
  <2>1. e \in Event /\ Tail(stream) \in Seq(Event) /\ Len(Tail(stream)) <= MaxStream
    <3>1. stream \in Seq(Event) /\ stream # << >> /\ Len(stream) <= MaxStream
      BY <1>5 DEF HandleEvent, TypeOK
    <3>2. Len(Tail(stream)) = Len(stream) - 1
      BY <3>1, HeadTailProperties
    <3> QED
      BY <3>1, <3>2, HeadTailProperties, LenProperties, ConstantsType DEF ConstantsType
  <2>2. e.table \in Tables /\ e.old \in Image /\ e.new \in Image
    BY <2>1 DEF Event
  <2> HIDE DEF e
  <2>3. Feed(e).ref \in Values
    BY <2>2 DEF Feed, Image
  <2>4. LookupsOf(e) \subseteq {[query |-> "byAuthor", args |-> <<v>>] : v \in Values}
    BY <2>2, <2>3, LookupsByAuthor DEF Lookup
  <2>5. lookups' \subseteq {[query |-> "byAuthor", args |-> <<v>>] : v \in Values}
    BY <1>5, <2>4 DEF HandleEvent, TypeOK, e
  <2>6. dirty' \subseteq live
    BY <1>5 DEF HandleEvent, TypeOK
  <2>7. UNCHANGED <<identity, rows, live, changed, takenAway>> /\ stream' = Tail(stream)
    BY <1>5 DEF HandleEvent
  <2> QED
    BY <2>1, <2>5, <2>6, <2>7 DEF TypeOK
<1>6. ASSUME NEW lookup \in lookups, RunLookup(lookup) PROVE TypeOK'
  <2>1. /\ lookups' \subseteq lookups /\ dirty' \subseteq live
        /\ UNCHANGED <<identity, rows, live, stream, changed, takenAway>>
    BY <1>6 DEF RunLookup, TypeOK
  <2> QED
    BY <2>1 DEF TypeOK
<1>7. ASSUME NEW doc \in dirty, Compute(doc) PROVE TypeOK'
  <2>1. /\ dirty' \subseteq live /\ changed' \subseteq live /\ takenAway' \subseteq changed'
        /\ UNCHANGED <<identity, rows, live, stream, lookups>>
    BY <1>7 DEF Compute, TypeOK
  <2> QED
    BY <2>1 DEF TypeOK
<1>8. CASE UNCHANGED vars
  BY <1>8 DEF vars, TypeOK
<1> QED
  BY <1>1, <1>2, <1>3, <1>4, <1>5, <1>6, <1>7, <1>8 DEF Next

(* Rows, docs, lookups and events keep their shapes: every lookup runs the *)
(* keysSql on one value of a row (engine.go:394-425).                      *)
THEOREM KeysTypeOK == Spec => []TypeOK
<1>1. Init => TypeOK
  BY KeysTypeInit
<1>2. TypeOK /\ [Next]_vars => TypeOK'
  BY KeysTypeNext
<1> QED
  BY <1>1, <1>2, PTL DEF Spec

-----------------------------------------------------------------------------
(* What follows.                                                           *)

LEMMA DueByEvent ==
  ASSUME NEW d, NEW i \in DOMAIN stream', NEW e, e = stream'[i], d \in Derived(e)'
  PROVE  d \in Due'
BY DuePartsNext

LEMMA DueByLookup ==
  ASSUME NEW d, NEW k \in lookups', d \in KeysOf(k)' PROVE d \in Due'
BY DuePartsNext

(* Every lookup is one of byAuthor on one value.                           *)
LEMMA LookupsOfEvents ==
  ASSUME TypeOK
  PROVE  /\ \A k \in lookups : \E v : k = Lookup(v)
         /\ \A i \in DOMAIN stream : stream[i].table \in Tables
         /\ \A i \in DOMAIN stream : \A k \in LookupsOf(stream[i]) : \E v : k = Lookup(v)
<1>1. \A k \in lookups : \E v : k = Lookup(v)
  BY DEF TypeOK, Lookup
<1>2. \A i \in DOMAIN stream : stream[i].table \in Tables
  <2>1. \A i \in DOMAIN stream : stream[i] \in Event
    BY DEF TypeOK
  <2> QED
    BY <2>1 DEF Event
<1> QED
  BY <1>1, <1>2, LookupsByAuthor

(* A statement leaves no unwarned doc behind when every doc it changes,    *)
(* and every doc a pending lookup finds no longer, is derived from its own *)
(* event or goes unseen.                                                   *)
LEMMA WriteKeeps ==
  ASSUME TypeOK, UnwarnedDocsFollow,
         NEW t, NEW f, NEW old, NEW new, NEW edited, NEW unseen,
         Write(t, f, old, new, edited, unseen),
         NEW e, e = [table |-> t, old |-> old, new |-> new],
         \A d \in live : d \in edited \/ Result(rows', d) # Result(rows, d) =>
                         Warned(d) \/ d \in Derived(e)' \/ d \in unseen,
         \A v : \A d \in KeysOf(Lookup(v)) :
                         Warned(d) \/ d \in KeysOf(Lookup(v))' \/ d \in Derived(e)'
                                   \/ d \in unseen
  PROVE  UnwarnedDocsFollow'
<1>1. stream \in Seq(Event) /\ stream' = Append(stream, e)
  BY DEF Write, TypeOK
<1>2. /\ DOMAIN stream = 1 .. Len(stream) /\ DOMAIN stream' = 1 .. (Len(stream) + 1)
      /\ \A i \in DOMAIN stream : i \in DOMAIN stream' /\ stream'[i] = stream[i]
      /\ Len(stream) + 1 \in DOMAIN stream' /\ stream'[Len(stream) + 1] = e
  <2> DEFINE s == stream
             n == stream'
  <2>1. s \in Seq(Event) /\ n = Append(s, e) /\ Len(s) \in Nat
    BY <1>1
  <2>2. DOMAIN n = 1 .. (Len(s) + 1) /\ DOMAIN s = 1 .. Len(s)
    BY <2>1
  <2>3. n[Len(s) + 1] = e /\ \A i \in 1 .. Len(s) : n[i] = s[i]
    BY <2>1
  <2> HIDE DEF s, n
  <2>4. \A i \in DOMAIN s : i \in DOMAIN n /\ n[i] = s[i]
    BY <2>1, <2>2, <2>3
  <2>5. Len(s) + 1 \in DOMAIN n
    BY <2>1, <2>2
  <2> QED
    BY <2>2, <2>3, <2>4, <2>5 DEF s, n
<1>3. UNCHANGED <<identity, live, dirty, lookups>>
  BY DEF Write
<1>4. \A d : Warned(d)' <=> Warned(d)
  BY <1>3, WarnedStays
<1>5. SUFFICES ASSUME NEW d \in changed', ~Warned(d), d \notin takenAway' PROVE d \in Due'
  BY <1>4 DEF UnwarnedDocsFollow
<1>6. d \notin unseen /\ d \notin takenAway
  BY <1>5 DEF Write
<1>7. d \in Derived(e)' => d \in Due'
  BY <1>2, DueByEvent
<1>8. CASE d \in live /\ (d \in edited \/ Result(rows', d) # Result(rows, d))
  BY <1>5, <1>7, <1>8, <1>6
<1>9. CASE d \in changed
  <2>1. d \in Due
    BY <1>5, <1>9, <1>6 DEF UnwarnedDocsFollow
  <2>2. CASE d \in dirty
    BY <2>2, <1>3, DuePartsNext
  <2>3. ASSUME NEW k \in lookups, d \in KeysOf(k) PROVE d \in Due'
    <3>1. PICK v : k = Lookup(v)
      BY LookupsOfEvents
    <3>2. d \in KeysOf(k)' \/ d \in Derived(e)'
      BY <1>5, <1>6, <2>3, <3>1
    <3>3. k \in lookups'
      BY <1>3
    <3> QED
      BY <1>7, <3>2, <3>3, DueByLookup
  <2>4. ASSUME NEW i \in DOMAIN stream, d \in Derived(stream[i]) PROVE d \in Due'
    <3> DEFINE a == stream[i]
    <3>0. i \in DOMAIN stream' /\ stream'[i] = a
      BY <1>2
    <3>1. CASE d \in Marks(a)
      <4>1. PICK u : u = a
        OBVIOUS
      <4>2. d \in Derived(u)'
        BY <3>1, <4>1, DerivedNext
      <4> QED
        BY <3>0, <4>1, <4>2, DueByEvent
    <3>2. ASSUME NEW k \in LookupsOf(a), d \in KeysOf(k) PROVE d \in Due'
      <4>1. PICK v : k = Lookup(v)
        BY LookupsOfEvents
      <4>2. CASE d \in KeysOf(k)'
        <5>1. PICK u : u = a
          OBVIOUS
        <5>2. PICK l : l = k
          OBVIOUS
        <5>3. d \in Derived(u)'
          BY <4>2, <5>1, <5>2, DerivedNext
        <5> QED
          BY <3>0, <5>1, <5>3, DueByEvent
      <4>3. CASE d \in Derived(e)'
        BY <1>7, <4>3
      <4> QED
        BY <1>5, <1>6, <3>2, <4>1, <4>2, <4>3
    <3> QED
      BY <2>4, <3>1, <3>2, DerivedParts
  <2> QED
    BY <2>1, <2>2, <2>3, <2>4, DueParts
<1> QED
  BY <1>5, <1>8, <1>9 DEF Write

-----------------------------------------------------------------------------
(* Statements.                                                             *)

LEMMA WriteRows ==
  ASSUME TypeOK, NEW t \in Tables, NEW f, NEW old, NEW new, NEW edited, NEW unseen,
         Write(t, f, old, new, edited, unseen)
  PROVE  rows'[t] = f /\ \A u \in Tables \ {t} : Same(u)
BY DEF TypeOK, Write, Same

LEMMA RowsType ==
  ASSUME TypeOK
  PROVE  /\ DOMAIN rows["comments"] = Comments /\ DOMAIN rows["posts"] = Posts
         /\ \A c \in Comments : rows["comments"][c] \in Posts \cup {GONE}
         /\ \A p \in Posts : rows["posts"][p] \in Authors \cup {Odd, GONE}
<1>1. /\ rows["comments"] \in [Ids["comments"] -> Refs["comments"] \cup {GONE}]
      /\ rows["posts"] \in [Ids["posts"] -> Refs["posts"] \cup {GONE}]
  BY DEF TypeOK, Tables
<1>2. /\ rows["comments"] \in [Comments -> Posts \cup {GONE}]
      /\ rows["posts"] \in [Posts -> (Authors \cup {Odd}) \cup {GONE}]
  BY <1>1, IdsOf
<1> QED
  BY <1>2

LEMMA MarkDerived ==
  ASSUME NEW e, NEW d \in Marks(e) PROVE d \in Derived(e)'
BY DerivedNext

(* An event fed to the reverse index derives the docs that show its post.  *)
LEMMA CommentFollows ==
  ASSUME Same("posts"), NEW e, e.table = "comments",
         NEW y \in Posts, Feed(e).present, Feed(e).ref = y,
         NEW d \in ShowsComment(rows, y)
  PROVE  d \in Derived(e)'
<1> DEFINE row == Feed(e)
<1>1. (row = e.old \/ row = e.new) /\ row.present /\ row["ref"] = y
  BY DEF Feed
<1>2. ValidChannelValue(y)
  BY DEF ValidChannelValue
<1> HIDE DEF row
<1>3. CASE d = Thread(y)
  <2>1. ColumnsWatch("thread", <<"ref">>) \in watches[e.table]
    BY WatchesOf
  <2>2. BuildChannel("thread", <<row["ref"]>>) \in Marks(e)
    BY <1>1, <1>2, <2>1, MarkedBy
  <2> QED
    BY <1>1, <1>3, <2>2, MarkDerived DEF Thread
<1>4. CASE rows.posts[y] \in Authors /\ d = ByAuthor(rows.posts[y])
  <2>1. rows'.posts[y] = rows.posts[y]
    BY DEF Same
  <2>2. rows'.posts[y] # GONE /\ ValidChannelValue(rows'.posts[y])
    BY <1>4, <2>1, ConstantsType DEF ConstantsType, ValidChannelValue
  <2>3. d \in KeysOf(Lookup(y))'
    BY <1>4, <2>1, <2>2, KeysOfLookupNext
  <2>4. Lookup(y) \in LookupsOf(e)
    BY CommentLookups
  <2>5. PICK k : k = Lookup(y)
    OBVIOUS
  <2> QED
    BY <2>3, <2>4, <2>5, DerivedNext
<1> QED
  BY <1>3, <1>4, ShownBy

(* A statement on the comments: those it changes are on the posts in Y     *)
(* before and after, and what shows a comment on one of Y follows.         *)
LEMMA CommentsKeep ==
  ASSUME TypeOK, UnwarnedDocsFollow, NEW f, NEW Y,
         NEW old, NEW new, NEW edited, NEW unseen,
         Write("comments", f, old, new, edited, unseen),
         \A c \in Comments : f[c] # rows.comments[c] =>
           rows.comments[c] \in Y \cup {GONE} /\ f[c] \in Y \cup {GONE},
         \A d \in edited : \E y \in Y : d \in ShowsComment(rows, y),
         NEW e, e = [table |-> "comments", old |-> old, new |-> new],
         identity["comments"] = "full" =>
           \A y \in Y : \A d \in ShowsComment(rows, y) : d \in Derived(e)' \/ d \in unseen
  PROVE  UnwarnedDocsFollow'
<1>1. rows'["comments"] = f /\ Same("posts") /\ Same("tags")
  BY WriteRows DEF Tables
<1>2. ASSUME NEW d \in live, d \in edited \/ Result(rows', d) # Result(rows, d), ~Warned(d)
      PROVE  d \in Derived(e)' \/ d \in unseen
  <2>1. PICK y \in Y : d \in ShowsComment(rows, y)
    <3>1. CASE d \in edited
      BY <3>1
    <3>2. CASE Result(rows', d) # Result(rows, d)
      <4>1. d \in Docs
        BY DEF TypeOK
      <4>2. PICK c \in Comments :
              /\ rows'.comments[c] # rows.comments[c]
              /\ \E z \in {rows.comments[c], rows'.comments[c]} :
                   z # GONE /\ d \in ShowsComment(rows, z)
        BY <1>1, <3>2, <4>1, CommentDiffers
      <4>3. rows'.comments[c] = f[c]
        BY <1>1
      <4>4. rows.comments[c] \in Y \cup {GONE} /\ rows'.comments[c] \in Y \cup {GONE}
        BY <4>2, <4>3
      <4> QED
        BY <4>2, <4>4
    <3> QED
      BY <1>2, <3>1, <3>2
  <2>2. d[1] \in {"thread", "byAuthor"}
    BY <2>1, ShownBy, DocParts
  <2>3. identity["comments"] = "full"
    BY <1>2, <2>2, UnwarnedThread DEF TypeOK
  <2> QED
    BY <2>1, <2>3
<1>3. \A k : KeysOf(k)' = KeysOf(k)
  BY <1>1, KeysOfStays DEF Same
<1>4. \A v : \A d \in KeysOf(Lookup(v)) : d \in KeysOf(Lookup(v))'
  BY <1>3
<1> QED
  BY <1>2, <1>4, WriteKeeps

(* A statement on the posts: each post it changes, or edits, is keyed, and *)
(* so are its authors before and after when old rows are full.             *)
LEMMA PostsKeep ==
  ASSUME TypeOK, UnwarnedDocsFollow, NEW f,
         NEW old, NEW new, NEW edited, NEW unseen,
         Write("posts", f, old, new, edited, unseen),
         NEW e, e = [table |-> "posts", old |-> old, new |-> new],
         \A d \in edited : d \in Derived(e)',
         \A p \in Posts : f[p] # rows.posts[p] =>
           /\ Post(p) \in Derived(e)' \/ Post(p) \in unseen
           /\ identity["posts"] = "full" =>
                \A a \in {rows.posts[p], f[p]} : a \in Posts \cup Authors =>
                  ByAuthor(a) \in Derived(e)' \/ ByAuthor(a) \in unseen
  PROVE  UnwarnedDocsFollow'
<1>1. rows'["posts"] = f /\ Same("comments") /\ Same("tags")
  BY WriteRows DEF Tables
<1>2. rows'.posts = f
  BY <1>1
<1>3. ASSUME NEW p \in Posts, f[p] # rows.posts[p],
             NEW a \in {rows.posts[p], f[p]}, a \in Posts \cup Authors, ~Warned(ByAuthor(a))
      PROVE  ByAuthor(a) \in Derived(e)' \/ ByAuthor(a) \in unseen
  <2>1. identity["posts"] = "full"
    BY <1>3, DocParts, UnwarnedByAuthor DEF TypeOK
  <2> QED
    BY <1>3, <2>1
<1>4. ASSUME NEW d \in live, d \in edited \/ Result(rows', d) # Result(rows, d), ~Warned(d)
      PROVE  d \in Derived(e)' \/ d \in unseen
  <2>1. CASE Result(rows', d) # Result(rows, d)
    <3>1. d \in Docs
      BY DEF TypeOK
    <3>2. PICK p \in Posts :
            /\ rows'.posts[p] # rows.posts[p]
            /\ \/ d = Post(p)
               \/ \E a \in {rows.posts[p], rows'.posts[p]} :
                    a \in Authors /\ d = ByAuthor(a)
      BY <1>1, <2>1, <3>1, RowsType, PostDiffers
    <3>3. f[p] # rows.posts[p]
      BY <1>2, <3>2
    <3>4. CASE d = Post(p)
      BY <3>3, <3>4
    <3>5. ASSUME NEW a \in {rows.posts[p], f[p]}, a \in Authors, d = ByAuthor(a)
          PROVE  d \in Derived(e)' \/ d \in unseen
      BY <1>3, <1>4, <3>3, <3>5
    <3> QED
      BY <1>2, <3>2, <3>4, <3>5
  <2> QED
    BY <1>4, <2>1
<1>5. ASSUME NEW v, NEW d \in KeysOf(Lookup(v)), ~Warned(d)
      PROVE  d \in KeysOf(Lookup(v))' \/ d \in Derived(e)' \/ d \in unseen
  <2>1. /\ v \in Posts /\ rows.posts[v] # GONE /\ ValidChannelValue(rows.posts[v])
        /\ d = ByAuthor(rows.posts[v])
    BY KeysOfParts DEF ByAuthor
  <2>2. CASE f[v] # rows.posts[v]
    <3>1. rows.posts[v] \in Posts \cup Authors
      BY <2>1 DEF ValidChannelValue
    <3>2. rows.posts[v] \in {rows.posts[v], f[v]}
      OBVIOUS
    <3> QED
      BY <1>3, <1>5, <2>1, <2>2, <3>1, <3>2
  <2>3. CASE f[v] = rows.posts[v]
    <3>1. rows'.posts[v] = rows.posts[v]
      BY <1>2, <2>3
    <3>2. ByAuthor(rows'.posts[v]) \in KeysOf(Lookup(v))'
      BY <2>1, <3>1, KeysOfLookupNext
    <3> QED
      BY <2>1, <3>1, <3>2
  <2> QED
    BY <2>2, <2>3
<1> QED
  BY <1>4, <1>5, WriteKeeps

(* A statement on the tags, whatever it does.                              *)
LEMMA TagsKeep ==
  ASSUME TypeOK, UnwarnedDocsFollow, NEW f, NEW old, NEW new, NEW edited, NEW unseen,
         edited \subseteq {Total}, Write("tags", f, old, new, edited, unseen)
  PROVE  UnwarnedDocsFollow'
<1>1. PICK e : e = [table |-> "tags", old |-> old, new |-> new]
  OBVIOUS
<1>2. Same("comments") /\ Same("posts")
  BY WriteRows DEF Tables
<1>3. ASSUME NEW d \in live, d \in edited \/ Result(rows', d) # Result(rows, d)
      PROVE  d \in Derived(e)'
  <2>1. d = Total
    BY <1>2, <1>3, TagDiffers DEF TypeOK
  <2>2. Total \in Marks(e)
    BY <1>1, TagMarks DEF Total
  <2> QED
    BY <2>1, <2>2, MarkDerived
<1>4. \A k : KeysOf(k)' = KeysOf(k)
  BY <1>2, KeysOfStays DEF Same
<1>5. \A v : \A d \in KeysOf(Lookup(v)) : d \in KeysOf(Lookup(v))'
  BY <1>4
<1> QED
  BY <1>1, <1>3, <1>5, WriteKeeps

LEMMA RowParts ==
  /\ \A id, ref : Row(id, ref).present /\ Row(id, ref).id = id /\ Row(id, ref).ref = ref
  /\ ~NoRow.present
BY DEF Row, NoRow

LEMMA OldRowParts ==
  ASSUME NEW t, NEW id
  PROVE  /\ OldRow(t, id).present /\ OldRow(t, id).id = id
         /\ identity[t] = "full" => OldRow(t, id).ref = rows[t][id]
BY RowParts DEF OldRow

(* The docs a column mapping, or a reverse index, derives from an event.   *)
LEMMA DerivedByColumn ==
  ASSUME NEW e, NEW q, NEW col, ColumnsWatch(q, <<col>>) \in watches[e.table],
         NEW row, row = e.old \/ row = e.new, row.present,
         NEW v, v = row[col], ValidChannelValue(v)
  PROVE  BuildChannel(q, <<v>>) \in Derived(e)'
<1>1. BuildChannel(q, <<row[col]>>) \in Marks(e)
  BY MarkedBy
<1> QED
  BY <1>1, MarkDerived

(* The posts of the comments that an UPDATE leaves and joins.              *)
LEMMA CommentUpdate ==
  ASSUME TypeOK, UnwarnedDocsFollow, NEW id \in Comments, NEW newId \in Comments,
         NEW ref \in Posts, Update("comments", id, newId, ref)
  PROVE  UnwarnedDocsFollow'
<1> DEFINE f == [rows["comments"] EXCEPT ![id] = GONE, ![newId] = ref]
           was == rows.comments[id]
           full == identity["comments"] = "full"
           old == IF full \/ newId # id THEN OldRow("comments", id) ELSE NoRow
           new == Row(newId, ref)
           edited == ShowsComment(rows, ref)
           unseen == AuthorOf(rows, was) \ AuthorOf(rows, ref)
<1>1. was \in Posts
  BY RowsType DEF Update, Exists
<1>2. Write("comments", f, old, new, edited, unseen)
  BY DEF Update, Edited, LeftBehind
<1>3. PICK e : e = [table |-> "comments", old |-> old, new |-> new]
  OBVIOUS
<1>4. e.table = "comments" /\ e.old = old /\ e.new = new
  BY <1>3
<1>5. \A c \in Comments : f[c] # rows.comments[c] =>
        rows.comments[c] \in {was, ref} \cup {GONE} /\ f[c] \in {was, ref} \cup {GONE}
  <2>1. newId # id => rows.comments[newId] = GONE
    BY DEF Update, Exists
  <2>2. rows["comments"][id] = was /\ rows["comments"][newId] \in {was, GONE}
    BY <2>1
  <2>3. \A c \in Comments : IF c = newId THEN f[c] = ref
                            ELSE IF c = id THEN f[c] = GONE
                            ELSE f[c] = rows["comments"][c]
    BY RowsType
  <2> HIDE DEF f, was
  <2> QED
    BY <2>2, <2>3
<1>6. rows'["comments"] = f /\ Same("posts")
  <2> HIDE DEF f, old, new, edited, unseen
  <2> QED
    BY <1>2, WriteRows DEF Tables
<1>7. new.present /\ new.ref = ref /\ (full => old.present /\ old.ref = was)
  BY RowParts, OldRowParts
<1> HIDE DEF f, old, new
<1>8. \A d \in ShowsComment(rows, ref) : d \in Derived(e)'
  <2>1. Feed(e).present /\ Feed(e).ref = ref
    BY <1>4, <1>7 DEF Feed
  <2> QED
    BY <1>4, <1>6, <2>1, CommentFollows
<1>9. ASSUME full, NEW d \in ShowsComment(rows, was) PROVE d \in Derived(e)' \/ d \in unseen
  <2>1. CASE d = Thread(was)
    <3>1. ColumnsWatch("thread", <<"ref">>) \in watches[e.table]
      BY <1>4, WatchesOf
    <3>2. ValidChannelValue(was) /\ old["ref"] = was
      BY <1>1, <1>7, <1>9 DEF ValidChannelValue
    <3> QED
      BY <1>4, <1>7, <1>9, <2>1, <3>1, <3>2, DerivedByColumn DEF Thread
  <2>2. CASE d \in AuthorOf(rows, was)
    <3>1. d \in AuthorOf(rows, ref) => d \in ShowsComment(rows, ref)
      BY DEF ShowsComment
    <3> QED
      BY <1>8, <2>2, <3>1
  <2> QED
    BY <1>9, <2>1, <2>2 DEF ShowsComment, Thread
<1> HIDE DEF unseen, edited
<1>10. \A d \in edited : \E y \in {was, ref} : d \in ShowsComment(rows, y)
  BY DEF edited
<1>11. full => \A y \in {was, ref} : \A d \in ShowsComment(rows, y) :
                 d \in Derived(e)' \/ d \in unseen
  BY <1>8, <1>9
<1> HIDE DEF was
<1> DEFINE Y == {was, ref}
<1>12. /\ \A c \in Comments : f[c] # rows.comments[c] =>
            rows.comments[c] \in Y \cup {GONE} /\ f[c] \in Y \cup {GONE}
       /\ \A d \in edited : \E y \in Y : d \in ShowsComment(rows, y)
       /\ full => \A y \in Y : \A d \in ShowsComment(rows, y) :
                    d \in Derived(e)' \/ d \in unseen
  BY <1>5, <1>10, <1>11
<1> HIDE DEF Y
<1> QED
  BY <1>2, <1>3, <1>12, CommentsKeep

LEMMA CommentInsert ==
  ASSUME TypeOK, UnwarnedDocsFollow, NEW id \in Comments, NEW ref \in Posts,
         Insert("comments", id, ref)
  PROVE  UnwarnedDocsFollow'
<1> DEFINE f == [rows["comments"] EXCEPT ![id] = ref]
           new == Row(id, ref)
           Y == {ref}
<1>1. Write("comments", f, NoRow, new, {}, {})
  BY DEF Insert
<1>2. PICK e : e = [table |-> "comments", old |-> NoRow, new |-> new]
  OBVIOUS
<1>3. \A c \in Comments : f[c] # rows.comments[c] =>
        rows.comments[c] \in Y \cup {GONE} /\ f[c] \in Y \cup {GONE}
  BY RowsType DEF Insert, Exists
<1>4. Same("posts")
  <2> HIDE DEF f, new
  <2> QED
    BY <1>1, WriteRows DEF Tables
<1>5. Feed(e).present /\ Feed(e).ref = ref /\ e.table = "comments"
  BY <1>2, RowParts DEF Feed
<1>6. \A y \in Y : \A d \in ShowsComment(rows, y) : d \in Derived(e)'
  BY <1>4, <1>5, CommentFollows
<1> HIDE DEF f, new, Y
<1> QED
  BY <1>1, <1>2, <1>3, <1>6, CommentsKeep

LEMMA CommentDelete ==
  ASSUME TypeOK, UnwarnedDocsFollow, NEW id \in Comments, Delete("comments", id)
  PROVE  UnwarnedDocsFollow'
<1> DEFINE f == [rows["comments"] EXCEPT ![id] = GONE]
           old == OldRow("comments", id)
           was == rows.comments[id]
           Y == {was}
<1>1. Write("comments", f, old, NoRow, {}, {})
  BY DEF Delete
<1>2. PICK e : e = [table |-> "comments", old |-> old, new |-> NoRow]
  OBVIOUS
<1>3. was \in Posts
  BY RowsType DEF Delete, Exists
<1>4. \A c \in Comments : f[c] # rows.comments[c] =>
        rows.comments[c] \in Y \cup {GONE} /\ f[c] \in Y \cup {GONE}
  BY RowsType
<1>5. Same("posts")
  <2> HIDE DEF f, old
  <2> QED
    BY <1>1, WriteRows DEF Tables
<1>6. ASSUME identity["comments"] = "full", NEW d \in ShowsComment(rows, was)
      PROVE  d \in Derived(e)'
  <2>1. Feed(e).present /\ Feed(e).ref = was /\ e.table = "comments"
    BY <1>2, <1>6, RowParts, OldRowParts DEF Feed
  <2> QED
    BY <1>3, <1>5, <1>6, <2>1, CommentFollows
<1>7. identity["comments"] = "full" =>
        \A y \in Y : \A d \in ShowsComment(rows, y) : d \in Derived(e)' \/ d \in {}
  BY <1>6
<1> HIDE DEF f, old, was, Y
<1> QED
  BY <1>1, <1>2, <1>4, <1>7, CommentsKeep

(* What the rows of a truncated table keyed goes unseen.                   *)
LEMMA CommentTruncate ==
  ASSUME TypeOK, UnwarnedDocsFollow, Truncate("comments") PROVE UnwarnedDocsFollow'
<1> DEFINE f == [id \in Ids["comments"] |-> GONE]
           E == {x \in Ids["comments"] : Exists("comments", x)}
           Y == {rows.comments[c] : c \in E}
           unseen == UNION {Keyed("comments", id) : id \in E}
<1>1. Write("comments", f, NoRow, NoRow, {}, unseen)
  BY DEF Truncate
<1>2. PICK e : e = [table |-> "comments", old |-> NoRow, new |-> NoRow]
  OBVIOUS
<1>3. \A c \in Comments : rows.comments[c] \in Y \cup {GONE} /\ f[c] = GONE
  BY IdsOf DEF Exists
<1>4. \A y \in Y : \A d \in ShowsComment(rows, y) : d \in unseen
  BY DEF Keyed
<1> HIDE DEF f, E, Y, unseen
<1> QED
  BY <1>1, <1>2, <1>3, <1>4, CommentsKeep

LEMMA PostTruncate ==
  ASSUME TypeOK, UnwarnedDocsFollow, Truncate("posts") PROVE UnwarnedDocsFollow'
<1> DEFINE f == [id \in Ids["posts"] |-> GONE]
           E == {x \in Ids["posts"] : Exists("posts", x)}
           unseen == UNION {Keyed("posts", id) : id \in E}
<1>1. Write("posts", f, NoRow, NoRow, {}, unseen)
  BY DEF Truncate
<1>2. PICK e : e = [table |-> "posts", old |-> NoRow, new |-> NoRow]
  OBVIOUS
<1>3. ASSUME NEW p \in Posts, f[p] # rows.posts[p]
      PROVE  /\ Post(p) \in unseen
             /\ \A a \in {rows.posts[p], f[p]} :
                  a \in Posts \cup Authors => ByAuthor(a) \in unseen
  <2>1. p \in E /\ f[p] = GONE
    BY <1>3, IdsOf DEF Exists
  <2>2. Keyed("posts", p) = {Post(p)} \cup AuthorOf(rows, p)
    BY DEF Keyed, Post
  <2>3. Keyed("posts", p) \subseteq unseen
    BY <2>1
  <2> HIDE DEF f, E, unseen
  <2>4. GONE \notin Posts \cup Authors /\ Odd \notin Posts \cup Authors
    BY ConstantsType DEF ConstantsType
  <2>5. ASSUME NEW a \in {rows.posts[p], f[p]}, a \in Posts \cup Authors
        PROVE  ByAuthor(a) \in unseen
    <3>1. a = rows.posts[p] /\ a \in Authors
      BY <2>1, <2>4, <2>5, RowsType
    <3>2. ByAuthor(a) \in AuthorOf(rows, p)
      BY <3>1 DEF AuthorOf, ByAuthor
    <3> QED
      BY <2>2, <2>3, <3>2
  <2> QED
    BY <2>2, <2>3, <2>5
<1> HIDE DEF f, E, unseen
<1> QED
  BY <1>1, <1>2, <1>3, PostsKeep

(* A row of the posts keys its own doc, and its author's where the row has *)
(* one.                                                                    *)
LEMMA PostRow ==
  ASSUME NEW e, e.table = "posts", NEW row, row = e.old \/ row = e.new, row.present
  PROVE  /\ row.id \in Posts => Post(row.id) \in Derived(e)'
         /\ row.ref \in Posts \cup Authors => ByAuthor(row.ref) \in Derived(e)'
<1>1. /\ ColumnsWatch("post", <<"id">>) \in watches[e.table]
      /\ ColumnsWatch("byAuthor", <<"ref">>) \in watches[e.table]
  BY WatchesOf
<1>2. row.id = row["id"] /\ row.ref = row["ref"]
  OBVIOUS
<1>3. ASSUME row.id \in Posts PROVE Post(row.id) \in Derived(e)'
  <2>1. ValidChannelValue(row.id)
    BY <1>3 DEF ValidChannelValue
  <2> QED
    BY <1>1, <1>2, <2>1, DerivedByColumn DEF Post
<1>4. ASSUME row.ref \in Posts \cup Authors PROVE ByAuthor(row.ref) \in Derived(e)'
  <2>1. ValidChannelValue(row.ref)
    BY <1>4 DEF ValidChannelValue
  <2> QED
    BY <1>1, <1>2, <2>1, DerivedByColumn DEF ByAuthor
<1> QED
  BY <1>3, <1>4

LEMMA PostUpdate ==
  ASSUME TypeOK, UnwarnedDocsFollow, NEW id \in Posts, NEW newId \in Posts, NEW ref,
         Update("posts", id, newId, ref)
  PROVE  UnwarnedDocsFollow'
<1> DEFINE f == [rows["posts"] EXCEPT ![id] = GONE, ![newId] = ref]
           was == rows.posts[id]
           full == identity["posts"] = "full"
           old == IF full \/ newId # id THEN OldRow("posts", id) ELSE NoRow
           new == Row(newId, ref)
<1>1. Write("posts", f, old, new, {Post(newId)}, {})
  BY DEF Update, Edited, LeftBehind, Post
<1>2. PICK e : e = [table |-> "posts", old |-> old, new |-> new]
  OBVIOUS
<1>3. e.table = "posts" /\ e.old = old /\ e.new = new
  BY <1>2
<1>4. /\ new.present /\ new.id = newId /\ new.ref = ref
      /\ newId # id => old.present /\ old.id = id
      /\ full => old.present /\ old.id = id /\ old.ref = was
  BY RowParts, OldRowParts
<1>5. /\ newId # id => rows["posts"][newId] = GONE
      /\ rows["posts"][id] = was
      /\ \A p \in Posts : IF p = newId THEN f[p] = ref
                          ELSE IF p = id THEN f[p] = GONE
                          ELSE f[p] = rows["posts"][p]
  BY RowsType DEF Update, Exists
<1>6. GONE \notin Posts \cup Authors
  BY ConstantsType DEF ConstantsType
<1> HIDE DEF f, was, old, new
<1>7. Post(newId) \in Derived(e)' /\ (newId # id => Post(id) \in Derived(e)')
  BY <1>3, <1>4, PostRow
<1>8. ref \in Posts \cup Authors => ByAuthor(ref) \in Derived(e)'
  BY <1>3, <1>4, PostRow
<1>9. ASSUME full, was \in Posts \cup Authors PROVE ByAuthor(was) \in Derived(e)'
  BY <1>3, <1>4, <1>9, PostRow
<1>10. ASSUME NEW p \in Posts, f[p] # rows.posts[p]
       PROVE  /\ Post(p) \in Derived(e)'
              /\ full => \A a \in {rows.posts[p], f[p]} :
                           a \in Posts \cup Authors => ByAuthor(a) \in Derived(e)'
  <2>1. p \in {id, newId}
    BY <1>5, <1>10
  <2>2. Post(p) \in Derived(e)'
    BY <1>7, <2>1
  <2>3. rows["posts"][p] \in {was, GONE} /\ f[p] \in {ref, GONE}
    BY <1>5, <2>1
  <2> QED
    BY <1>6, <1>8, <1>9, <2>2, <2>3
<1>11. \A d \in {Post(newId)} : d \in Derived(e)'
  BY <1>7
<1> QED
  BY <1>1, <1>2, <1>10, <1>11, PostsKeep

LEMMA PostInsert ==
  ASSUME TypeOK, UnwarnedDocsFollow, NEW id \in Posts, NEW ref, Insert("posts", id, ref)
  PROVE  UnwarnedDocsFollow'
<1> DEFINE f == [rows["posts"] EXCEPT ![id] = ref]
           new == Row(id, ref)
<1>1. Write("posts", f, NoRow, new, {}, {})
  BY DEF Insert
<1>2. PICK e : e = [table |-> "posts", old |-> NoRow, new |-> new]
  OBVIOUS
<1>3. e.table = "posts" /\ e.new = new /\ new.present /\ new.id = id /\ new.ref = ref
  BY <1>2, RowParts
<1>4. /\ rows["posts"][id] = GONE /\ f[id] = ref
      /\ \A p \in Posts \ {id} : f[p] = rows["posts"][p]
  BY RowsType DEF Insert, Exists
<1>5. GONE \notin Posts \cup Authors
  BY ConstantsType DEF ConstantsType
<1> HIDE DEF f, new
<1>6. Post(id) \in Derived(e)' /\ (ref \in Posts \cup Authors => ByAuthor(ref) \in Derived(e)')
  BY <1>3, PostRow
<1>7. ASSUME NEW p \in Posts, f[p] # rows.posts[p]
      PROVE  /\ Post(p) \in Derived(e)'
             /\ \A a \in {rows.posts[p], f[p]} :
                  a \in Posts \cup Authors => ByAuthor(a) \in Derived(e)'
  BY <1>4, <1>5, <1>6, <1>7
<1> QED
  BY <1>1, <1>2, <1>7, PostsKeep

LEMMA PostDelete ==
  ASSUME TypeOK, UnwarnedDocsFollow, NEW id \in Posts, Delete("posts", id)
  PROVE  UnwarnedDocsFollow'
<1> DEFINE f == [rows["posts"] EXCEPT ![id] = GONE]
           old == OldRow("posts", id)
           was == rows.posts[id]
<1>1. Write("posts", f, old, NoRow, {}, {})
  BY DEF Delete
<1>2. PICK e : e = [table |-> "posts", old |-> old, new |-> NoRow]
  OBVIOUS
<1>3. /\ e.table = "posts" /\ e.old = old /\ old.present /\ old.id = id
      /\ identity["posts"] = "full" => old.ref = was
  BY <1>2, OldRowParts
<1>4. /\ rows["posts"][id] = was /\ f[id] = GONE
      /\ \A p \in Posts \ {id} : f[p] = rows["posts"][p]
  BY RowsType
<1>5. GONE \notin Posts \cup Authors
  BY ConstantsType DEF ConstantsType
<1> HIDE DEF f, old, was
<1>6. Post(id) \in Derived(e)'
  BY <1>3, PostRow
<1>7. ASSUME identity["posts"] = "full", was \in Posts \cup Authors
      PROVE  ByAuthor(was) \in Derived(e)'
  BY <1>3, <1>7, PostRow
<1>8. ASSUME NEW p \in Posts, f[p] # rows.posts[p]
      PROVE  /\ Post(p) \in Derived(e)'
             /\ identity["posts"] = "full" =>
                  \A a \in {rows.posts[p], f[p]} :
                    a \in Posts \cup Authors => ByAuthor(a) \in Derived(e)'
  BY <1>4, <1>5, <1>6, <1>7, <1>8
<1> QED
  BY <1>1, <1>2, <1>8, PostsKeep

LEMMA TagSteps ==
  ASSUME TypeOK, UnwarnedDocsFollow, NEW id, NEW ref,
         NEW newId,
         \/ Insert("tags", id, ref) \/ Update("tags", id, newId, ref)
         \/ Delete("tags", id) \/ Truncate("tags")
  PROVE  UnwarnedDocsFollow'
<1>1. CASE Insert("tags", id, ref)
  BY <1>1, TagsKeep DEF Insert
<1>2. CASE Update("tags", id, newId, ref)
  <2>1. Edited("tags", newId, ref) = {Total}
    BY DEF Edited, Total
  <2> QED
    BY <1>2, <2>1, TagsKeep DEF Update
<1>3. CASE Delete("tags", id)
  BY <1>3, TagsKeep DEF Delete
<1>4. CASE Truncate("tags")
  BY <1>4, TagsKeep DEF Truncate
<1> QED
  BY <1>1, <1>2, <1>3, <1>4

-----------------------------------------------------------------------------
(* The engine.                                                             *)

LEMMA HandleEventKeeps ==
  ASSUME TypeOK, UnwarnedDocsFollow, HandleEvent PROVE UnwarnedDocsFollow'
<1> DEFINE e == Head(stream)
<1>1. UNCHANGED <<identity, rows, live, changed, takenAway>> /\ stream' = Tail(stream)
  BY DEF HandleEvent
<1>2. \A d : Warned(d)' <=> Warned(d)
  BY <1>1, WarnedStays
<1>3. \A k : KeysOf(k)' = KeysOf(k)
  BY <1>1, KeysOfStays
<1>4. dirty' = dirty \cup (Marks(e) \cap live) /\ lookups' = lookups \cup LookupsOf(e)
  BY DEF HandleEvent
<1>5. SUFFICES ASSUME NEW d \in changed, ~Warned(d), d \notin takenAway PROVE d \in Due'
  BY <1>1, <1>2 DEF UnwarnedDocsFollow
<1>6. d \in Due /\ d \in live
  BY <1>5 DEF UnwarnedDocsFollow, TypeOK
<1>7. CASE d \in dirty
  BY <1>4, <1>7, DuePartsNext
<1>8. ASSUME NEW k \in lookups \cup LookupsOf(e), d \in KeysOf(k) PROVE d \in Due'
  BY <1>3, <1>4, <1>8, DueByLookup
<1>9. CASE d \in Derived(e)
  BY <1>4, <1>6, <1>8, <1>9, DerivedParts, DuePartsNext
<1>10. ASSUME NEW i \in DOMAIN stream, d \in Derived(stream[i]) PROVE d \in Due'
  <2> DEFINE s == stream
  <2>1. s \in Seq(Event) /\ s # << >> /\ stream' = Tail(s) /\ i \in 1 .. Len(s) /\ e = s[1]
    BY <1>1 DEF HandleEvent, TypeOK
  <2>2. CASE i = 1
    BY <1>9, <1>10, <2>1, <2>2
  <2>3. CASE i # 1
    <3> HIDE DEF s
    <3>1. Len(Tail(s)) = Len(s) - 1 /\ \A j \in 1 .. Len(Tail(s)) : Tail(s)[j] = s[j + 1]
      BY <2>1, HeadTailProperties
    <3>2. i - 1 \in 1 .. Len(Tail(s)) /\ Tail(s)[i - 1] = s[i] /\ Tail(s) \in Seq(Event)
      BY <2>1, <2>3, <3>1, HeadTailProperties, LenProperties
    <3>3. i - 1 \in DOMAIN stream' /\ stream'[i - 1] = s[i]
      BY <2>1, <3>2, LenProperties
    <3>4. PICK u : u = s[i]
      OBVIOUS
    <3>5. d \in Derived(u)
      BY <1>10, <3>4 DEF s
    <3>6. d \in Derived(u)'
      BY <1>3, <3>5, DerivedParts, DerivedNext
    <3> QED
      BY <3>3, <3>4, <3>6, DueByEvent
  <2> QED
    BY <2>2, <2>3
<1> QED
  BY <1>6, <1>7, <1>8, <1>10, DueParts

(* A step that leaves the rows and the stream alone, and the lookups but   *)
(* one whose docs it marks.                                                *)
LEMMA WorkKeeps ==
  ASSUME TypeOK, UnwarnedDocsFollow, UNCHANGED <<identity, rows, stream>>,
         changed' \subseteq changed, takenAway \cap changed' \subseteq takenAway',
         \A d \in changed' : d \in dirty => d \in dirty',
         \A k \in lookups : k \in lookups' \/ KeysOf(k) \cap live \subseteq dirty'
  PROVE  UnwarnedDocsFollow'
<1>1. \A d : Warned(d)' <=> Warned(d)
  BY WarnedStays
<1>2. \A k : KeysOf(k)' = KeysOf(k)
  BY KeysOfStays
<1>3. SUFFICES ASSUME NEW d \in changed', ~Warned(d), d \notin takenAway' PROVE d \in Due'
  BY <1>1 DEF UnwarnedDocsFollow
<1>4. d \in Due /\ d \in live
  BY <1>3 DEF UnwarnedDocsFollow, TypeOK
<1>5. CASE d \in dirty
  BY <1>5, DuePartsNext
<1>6. ASSUME NEW k \in lookups, d \in KeysOf(k) PROVE d \in Due'
  BY <1>2, <1>4, <1>6, DuePartsNext, DueByLookup
<1>7. ASSUME NEW i \in DOMAIN stream, d \in Derived(stream[i]) PROVE d \in Due'
  <2>1. PICK u : u = stream[i]
    OBVIOUS
  <2>2. d \in Derived(u)'
    BY <1>2, <1>7, <2>1, DerivedParts, DerivedNext
  <2>3. i \in DOMAIN stream' /\ u = stream'[i]
    BY <2>1
  <2> QED
    BY <2>2, <2>3, DueByEvent
<1> QED
  BY <1>4, <1>5, <1>6, <1>7, DueParts

LEMMA FollowInit == Init => UnwarnedDocsFollow
BY DEF Init, UnwarnedDocsFollow

LEMMA FollowNext == TypeOK /\ UnwarnedDocsFollow /\ [Next]_vars => UnwarnedDocsFollow'
<1> SUFFICES ASSUME TypeOK, UnwarnedDocsFollow, [Next]_vars PROVE UnwarnedDocsFollow'
  OBVIOUS
<1>1. ASSUME NEW t \in Tables, NEW id \in Ids[t], NEW newId \in Ids[t], NEW ref \in Refs[t],
             Insert(t, id, ref) \/ Update(t, id, newId, ref)
      PROVE  UnwarnedDocsFollow'
  <2>1. CASE t = "comments"
    BY <1>1, <2>1, IdsOf, CommentInsert, CommentUpdate
  <2>2. CASE t = "posts"
    BY <1>1, <2>2, IdsOf, PostInsert, PostUpdate
  <2>3. CASE t = "tags"
    BY <1>1, <2>3, TagSteps
  <2> QED
    BY <2>1, <2>2, <2>3 DEF Tables
<1>2. ASSUME NEW t \in Tables, NEW id \in Ids[t], Delete(t, id) PROVE UnwarnedDocsFollow'
  <2>1. CASE t = "comments"
    BY <1>2, <2>1, IdsOf, CommentDelete
  <2>2. CASE t = "posts"
    BY <1>2, <2>2, IdsOf, PostDelete
  <2>3. CASE t = "tags"
    BY <1>2, <2>3, TagSteps
  <2> QED
    BY <2>1, <2>2, <2>3 DEF Tables
<1>3. ASSUME NEW t \in Tables, Truncate(t) PROVE UnwarnedDocsFollow'
  BY <1>3, CommentTruncate, PostTruncate, TagSteps DEF Tables
<1>4. CASE HandleEvent
  BY <1>4, HandleEventKeeps
<1>5. ASSUME NEW lookup \in lookups, RunLookup(lookup) PROVE UnwarnedDocsFollow'
  <2>1. /\ UNCHANGED <<identity, rows, stream>> /\ changed' \subseteq changed
        /\ takenAway \cap changed' \subseteq takenAway'
        /\ \A d \in changed' : d \in dirty => d \in dirty'
        /\ \A k \in lookups : k \in lookups' \/ KeysOf(k) \cap live \subseteq dirty'
    BY <1>5 DEF RunLookup
  <2> QED
    BY <2>1, WorkKeeps
<1>6. ASSUME NEW doc \in dirty, Compute(doc) PROVE UnwarnedDocsFollow'
  <2>1. /\ UNCHANGED <<identity, rows, stream>> /\ changed' \subseteq changed
        /\ takenAway \cap changed' \subseteq takenAway'
        /\ \A d \in changed' : d \in dirty => d \in dirty'
        /\ \A k \in lookups : k \in lookups' \/ KeysOf(k) \cap live \subseteq dirty'
    BY <1>6 DEF Compute
  <2> QED
    BY <2>1, WorkKeeps
<1>7. CASE UNCHANGED vars
  <2>1. /\ UNCHANGED <<identity, rows, stream>> /\ changed' \subseteq changed
        /\ takenAway \cap changed' \subseteq takenAway'
        /\ \A d \in changed' : d \in dirty => d \in dirty'
        /\ \A k \in lookups : k \in lookups' \/ KeysOf(k) \cap live \subseteq dirty'
    BY <1>7 DEF vars
  <2> QED
    BY <2>1, WorkKeeps
<1> QED
  BY <1>1, <1>2, <1>3, <1>4, <1>5, <1>6, <1>7 DEF Next

(* Every doc a change alters is recomputed or was warned about, for any    *)
(* rows and replica identities, but for those a row went from unseen: both *)
(* row images key the column mappings, and a reverse index that runs late  *)
(* still finds the docs, or the event of the statement that hid them does  *)
(* (engine.go:266-269, 394-425; replident.go:15-22).                       *)
THEOREM UnwarnedDocsFollowHolds == Spec => []UnwarnedDocsFollow
<1>1. Init => TypeOK /\ UnwarnedDocsFollow
  BY KeysTypeInit, FollowInit
<1>2. TypeOK /\ UnwarnedDocsFollow /\ [Next]_vars => (TypeOK /\ UnwarnedDocsFollow)'
  BY KeysTypeNext, FollowNext
<1> QED
  BY <1>1, <1>2, PTL DEF Spec
=============================================================================
