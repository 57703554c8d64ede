----------------------------- MODULE ReaderProofs -----------------------------
(***************************************************************************)
(* What the reader acknowledges has reached the engine: the typing of      *)
(* Reader, the inductive invariant behind AckedIsCovered, and its proof.   *)
(***************************************************************************)
EXTENDS Reader, FiniteSetTheorems, SequenceTheorems, WellFoundedInduction, TLAPS

-----------------------------------------------------------------------------
(* A set of records in the order of the log.                               *)

InOrder(s) == \A m, n \in DOMAIN s : m < n => s[m] < s[n]

Below == {pair \in Nat \X Nat : pair[1] < pair[2]}

LEMMA LeastNat ==
  ASSUME NEW T \in SUBSET Nat, T # {} PROVE \E x \in T : \A y \in T : x <= y
<1>1. IsWellFoundedOn(Below, Nat)
  BY NatLessThanWellFounded DEF OpToRel, Below
<1>2. PICK x \in T : \A y \in T : <<y, x>> \notin Below
  BY <1>1, WFMin
<1>3. ASSUME NEW y \in T PROVE x <= y
  <2>1. x \in Nat /\ y \in Nat /\ ~(y < x)
    BY <1>2, <1>3 DEF Below
  <2> QED
    BY <2>1
<1> QED
  BY <1>3

Enumerable(S) == \E s \in [1 .. Cardinality(S) -> S] : InOrder(s)

LEMMA PositionsFinite ==
  ASSUME NEW b \in Nat, NEW S \in SUBSET (1 .. b)
  PROVE  IsFiniteSet(S) /\ Cardinality(S) \in Nat
<1>1. 1 \in Int /\ b \in Int
  OBVIOUS
<1> QED
  BY <1>1, FS_Interval, FS_Subset, FS_CardinalityType

LEMMA EnumerableStep ==
  ASSUME NEW b \in Nat, \A R \in SUBSET (1 .. b) : Enumerable(R),
         NEW S \in SUBSET (1 .. b + 1)
  PROVE  Enumerable(S)
<1>1. CASE b + 1 \notin S
  <2>1. S \in SUBSET (1 .. b)
    BY <1>1
  <2> QED
    BY <2>1
<1>2. CASE b + 1 \in S
  <2> DEFINE R == S \ {b + 1}
             n == Cardinality(R)
  <2>1. R \in SUBSET (1 .. b)
    OBVIOUS
  <2>2. n \in Nat /\ Cardinality(S) = n + 1
    <3>1. IsFiniteSet(R) /\ n \in Nat
      BY <2>1, PositionsFinite
    <3>2. S = R \cup {b + 1} /\ b + 1 \notin R
      BY <1>2
    <3> HIDE DEF R
    <3> QED
      BY <3>1, <3>2, FS_AddElement
  <2>3. PICK r \in [1 .. n -> R] : InOrder(r)
    BY <2>1 DEF Enumerable
  <2> DEFINE s == [k \in 1 .. n + 1 |-> IF k = n + 1 THEN b + 1 ELSE r[k]]
  <2> HIDE DEF n
  <2>4. \A k \in 1 .. n : k # n + 1 /\ k \in 1 .. n + 1 /\ r[k] \in R
    BY <2>2, <2>3
  <2>5. \A k \in 1 .. n : s[k] = r[k] /\ s[k] \in S /\ s[k] \in Nat /\ s[k] < b + 1
    <3>1. \A i \in R : i \in S /\ i \in Nat /\ i < b + 1
      BY <2>1
    <3>2. \A k \in 1 .. n : s[k] = r[k]
      BY <2>4
    <3> HIDE DEF R, s
    <3> QED
      BY <2>4, <3>1, <3>2
  <2>6. s[n + 1] = b + 1 /\ \A k \in 1 .. n + 1 : k = n + 1 \/ k \in 1 .. n
    BY <2>2
  <2>7. s \in [1 .. n + 1 -> S]
    BY <1>2, <2>5, <2>6
  <2>8. ASSUME NEW k \in 1 .. n + 1, NEW l \in 1 .. n + 1, k < l
        PROVE  s[k] < s[l]
    <3>1. k \in 1 .. n
      BY <2>2, <2>8
    <3>2. CASE l = n + 1
      BY <2>5, <2>6, <3>1, <3>2
    <3>3. CASE l \in 1 .. n
      <4>1. r[k] < r[l]
        BY <2>3, <2>8, <3>1, <3>3 DEF InOrder
      <4> QED
        BY <2>5, <3>1, <3>3, <4>1
    <3> QED
      BY <2>6, <3>2, <3>3
  <2>9. InOrder(s)
    <3>1. DOMAIN s = 1 .. n + 1
      OBVIOUS
    <3> HIDE DEF s
    <3> QED
      BY <2>8, <3>1 DEF InOrder
  <2> HIDE DEF s
  <2> QED
    BY <2>2, <2>7, <2>9 DEF Enumerable
<1> QED
  BY <1>1, <1>2

(* Among the bounds that fail there would be a least one.                  *)
LEMMA EnumerableUpTo ==
  \A b \in Nat : \A S \in SUBSET (1 .. b) : Enumerable(S)
<1> DEFINE Good(b) == \A S \in SUBSET (1 .. b) : Enumerable(S)
           Bad == {b \in Nat : ~Good(b)}
<1> SUFFICES ASSUME Bad # {} PROVE FALSE
  OBVIOUS
<1>1. Good(0)
  <2> SUFFICES Enumerable({})
    <3>1. \A S \in SUBSET (1 .. 0) : S = {}
      OBVIOUS
    <3> QED
      BY <3>1
  <2>1. Cardinality({}) = 0
    BY FS_EmptySet
  <2>2. <<>> \in [1 .. 0 -> {}] /\ InOrder(<<>>)
    BY DEF InOrder
  <2> QED
    BY <2>1, <2>2 DEF Enumerable
<1>2. \A b \in Nat : Good(b) => Good(b + 1)
  BY EnumerableStep
<1> HIDE DEF Good
<1>3. PICK b \in Bad : \A c \in Bad : b <= c
  <2>1. Bad \in SUBSET Nat
    OBVIOUS
  <2> HIDE DEF Bad
  <2> QED
    BY <2>1, LeastNat
<1>4. b \in Nat /\ ~Good(b)
  OBVIOUS
<1>5. b - 1 \in Nat /\ (b - 1) + 1 = b
  BY <1>1, <1>4
<1>6. Good(b - 1)
  <2>1. ~(b <= b - 1)
    BY <1>4
  <2> QED
    BY <1>3, <1>5, <2>1
<1>7. Good((b - 1) + 1)
  BY <1>2, <1>5, <1>6
<1> QED
  BY <1>4, <1>5, <1>7

LEMMA InLogOrderProperties ==
  ASSUME NEW b \in Nat, NEW S \in SUBSET (1 .. b)
  PROVE  /\ Cardinality(S) \in Nat
         /\ InLogOrder(S) \in [1 .. Cardinality(S) -> S]
         /\ \A i \in S : \E n \in 1 .. Cardinality(S) : InLogOrder(S)[n] = i
<1> DEFINE c == Cardinality(S)
           s == InLogOrder(S)
<1>1. IsFiniteSet(S) /\ c \in Nat
  BY PositionsFinite
<1>2. s \in [1 .. c -> S] /\ InOrder(s)
  <2>1. \E r \in [1 .. c -> S] : InOrder(r)
    BY EnumerableUpTo DEF Enumerable
  <2> QED
    BY <2>1 DEF InLogOrder, InOrder
<1>3. \A m, n \in 1 .. c : m < n => s[m] < s[n]
  <2>1. DOMAIN s = 1 .. c
    BY <1>2
  <2> HIDE DEF s, c
  <2> QED
    BY <1>2, <2>1 DEF InOrder
<1>4. \A n \in 1 .. c : s[n] \in S /\ s[n] \in Nat /\ n \in Nat
  <2>1. \A n \in 1 .. c : s[n] \in S /\ n \in Nat
    BY <1>1, <1>2
  <2>2. \A i \in S : i \in Nat
    OBVIOUS
  <2> HIDE DEF s, c
  <2> QED
    BY <2>1, <2>2
<1> HIDE DEF c, s
<1>5. ASSUME NEW i \in S, \A n \in 1 .. c : s[n] # i PROVE FALSE
  <2>1. s \in [1 .. c -> S \ {i}]
    BY <1>2, <1>5
  <2>2. IsFiniteSet(S \ {i}) /\ Cardinality(S \ {i}) = c - 1
    BY <1>1, <1>5, FS_RemoveElement DEF c
  <2>3. IsFiniteSet(1 .. c) /\ Cardinality(1 .. c) = c
    <3>1. 1 \in Int /\ c \in Int
      BY <1>1
    <3> QED
      BY <1>1, <3>1, FS_Interval
  <2>4. Cardinality(S \ {i}) < Cardinality(1 .. c)
    BY <1>1, <2>2, <2>3
  <2>5. \E m, n \in 1 .. c : m # n /\ s[m] = s[n]
    <3> DEFINE D == 1 .. c
               T == S \ {i}
    <3>1. IsFiniteSet(D) /\ IsFiniteSet(T) /\ Cardinality(T) < Cardinality(D) /\ s \in [D -> T]
      BY <2>1, <2>2, <2>3, <2>4
    <3> HIDE DEF D, T
    <3>2. \E m, n \in D : m # n /\ s[m] = s[n]
      BY <3>1, FS_PigeonHole
    <3> QED
      BY <3>2 DEF D
  <2> QED
    BY <1>3, <1>4, <2>5
<1> QED
  BY <1>1, <1>2, <1>5 DEF c, s

-----------------------------------------------------------------------------
(***************************************************************************)
(* The inductive invariant.                                                *)
(***************************************************************************)

(* A transaction's commit or abort is the last of its records.             *)
EndsLast ==
  \A i, j \in DOMAIN wal :
    wal[i].kind # "change" /\ wal[j].tx = wal[i].tx => j <= i

(* The commits of transactions that are sent as a whole.                   *)
WholeCommits ==
  {p \in DOMAIN wal : wal[p].kind = "commit" /\ wal[p].tx \notin Streamed}

Reached(p) == p <= refreshed \/ Changes(wal[p].tx) \subseteq current

ReachedTo(lsn) == \A p \in WholeCommits : p <= lsn => Reached(p)

(* What the phases know: where the session starts, and that nothing of an  *)
(* earlier one is in flight, in the decoder included.                      *)
SessionInv ==
  /\ slot
  /\ phase \in {"setup", "starting"} => ~inStream
  /\ phase = "starting" => clientLSN = confirmed
  /\ phase = "streaming" => clientLSN <= decoded
  /\ phase # "streaming" => queue = <<>>

(* Only what may be streamed is.                                           *)
FlushedInv == \A i \in flushed : i \in DOMAIN wal /\ wal[i].tx \in Streamed

(* Where the decoder is before a message and after it.                     *)
Expects(m) == m.kind = "streamStop" \/ (m.kind = "change" /\ m.framed)
Leaves(m)  == m.kind = "streamStart" \/ (m.kind = "change" /\ m.framed)

(* Every message finds the decoder where the sender thinks it is.          *)
Framed(q, inside) ==
  /\ q = <<>> => ~inside
  /\ q # <<>> => (Expects(q[1]) <=> inside) /\ ~Leaves(q[Len(q)])
  /\ \A n \in 1 .. Len(q) - 1 : Leaves(q[n]) <=> Expects(q[n + 1])

(* The commit at p is in flight, behind every change not yet handled, and  *)
(* nothing before it moves the position as far.                            *)
BehindAt(q, p, k) ==
  /\ q[k].lsn = p
  /\ \A j \in 1 .. k - 1 : q[j].lsn < p
  /\ \A i \in Changes(wal[p].tx) \ current :
       \E j \in 1 .. k - 1 : q[j] = Msg("change", i, i - 1, FALSE)

Underway(p) == \E k \in DOMAIN queue : BehindAt(queue, p, k)

FlightInv ==
  phase = "streaming" =>
    /\ Framed(queue, inStream)
    /\ \A n \in DOMAIN queue : queue[n].lsn <= decoded
    /\ \A p \in WholeCommits : clientLSN < p /\ p <= decoded => Underway(p)

(* What is acknowledged, or noted to be, has been reached.                 *)
ReachedInv ==
  /\ phase # "boot" => ReachedTo(confirmed)
  /\ phase = "streaming" => ReachedTo(clientLSN)

ReaderInv ==
  /\ TypeOK
  /\ EndsLast
  /\ SessionInv
  /\ FlushedInv
  /\ FlightInv
  /\ ReachedInv

-----------------------------------------------------------------------------
(* The messages the sender puts together.                                  *)

LEMMA ShortSequences ==
  ASSUME NEW M, NEW m \in M
  PROVE  << >> \in Seq(M) /\ <<m>> \in Seq(M) /\ Len(<<m>>) = 1 /\ <<m>>[1] = m
BY EmptySeq

(* A message that carries no change.                                       *)
LEMMA BareMessage ==
  ASSUME wal \in Seq(Record), NEW lsn \in Positions,
         NEW kind \in {"commit", "abort", "keepalive", "streamStart", "streamStop"}
  PROVE  LET m == Msg(kind, 0, lsn, FALSE) IN
         m \in Message /\ m.kind = kind /\ m.lsn = lsn
BY LenProperties DEF Msg, Message, Positions

LEMMA RecordsOfType ==
  ASSUME wal \in Seq(Record), NEW t, NEW kind
  PROVE  /\ DOMAIN wal = 1 .. Len(wal) /\ Len(wal) \in Nat
         /\ RecordsOf(t, kind) \in SUBSET (1 .. Len(wal))
         /\ \A i \in RecordsOf(t, kind) :
              wal[i].tx = t /\ wal[i].kind = kind /\ i \in Nat /\ i >= 1
BY LenProperties DEF RecordsOf

LEMMA ChangeMsgsProperties ==
  ASSUME wal \in Seq(Record), NEW S \in SUBSET (1 .. Len(wal)), NEW framed \in BOOLEAN
  PROVE  LET q == ChangeMsgs(S, framed) IN
         /\ q \in Seq(Message)
         /\ \A n \in 1 .. Len(q) :
              \E i \in S : q[n] = Msg("change", i, i - 1, framed)
         /\ \A i \in S :
              \E n \in 1 .. Len(q) : q[n] = Msg("change", i, i - 1, framed)
<1> DEFINE c == Cardinality(S)
           s == InLogOrder(S)
           q == [n \in 1 .. c |-> Msg("change", s[n], s[n] - 1, framed)]
<1>1. Len(wal) \in Nat
  BY LenProperties
<1>2. c \in Nat /\ s \in [1 .. c -> S] /\ \A i \in S : \E n \in 1 .. c : s[n] = i
  BY <1>1, InLogOrderProperties
<1>3. \A i \in S : Msg("change", i, i - 1, framed) \in Message
  BY <1>1 DEF Msg, Message, Positions
<1> HIDE DEF c, s
<1>4. \A n \in 1 .. c : s[n] \in S /\ q[n] = Msg("change", s[n], s[n] - 1, framed)
  BY <1>2
<1>5. q \in [1 .. c -> Message]
  BY <1>3, <1>4
<1>6. q \in Seq(Message) /\ Len(q) = c
  BY <1>2, <1>5
<1>7. ChangeMsgs(S, framed) = q
  BY DEF ChangeMsgs, c, s
<1>8. \A n \in 1 .. Len(q) : \E i \in S : q[n] = Msg("change", i, i - 1, framed)
  BY <1>4, <1>6
<1>9. \A i \in S : \E n \in 1 .. Len(q) : q[n] = Msg("change", i, i - 1, framed)
  BY <1>2, <1>4, <1>6
<1> HIDE DEF q
<1> QED
  BY <1>6, <1>7, <1>8, <1>9

LEMMA ChunkType ==
  ASSUME wal \in Seq(Record), NEW S \in SUBSET (1 .. Len(wal)), NEW lsn \in Positions
  PROVE  Chunk(S, lsn) \in Seq(Message)
<1>1. ChangeMsgs(S, TRUE) \in Seq(Message)
  BY ChangeMsgsProperties
<1>2. Msg("streamStart", 0, 0, FALSE) \in Message /\ Msg("streamStop", 0, lsn, FALSE) \in Message
  BY LenProperties DEF Msg, Message, Positions
<1>3. <<Msg("streamStart", 0, 0, FALSE)>> \in Seq(Message) /\ <<Msg("streamStop", 0, lsn, FALSE)>> \in Seq(Message)
  BY <1>2, ShortSequences
<1>4. <<Msg("streamStart", 0, 0, FALSE)>> \o ChangeMsgs(S, TRUE) \in Seq(Message)
  BY <1>1, <1>3, ConcatProperties
<1>5. (<<Msg("streamStart", 0, 0, FALSE)>> \o ChangeMsgs(S, TRUE)) \o <<Msg("streamStop", 0, lsn, FALSE)>> \in Seq(Message)
  BY <1>3, <1>4, ConcatProperties
<1>6. << >> \in Seq(Message)
  BY EmptySeq
<1> QED
  BY <1>5, <1>6 DEF Chunk

-----------------------------------------------------------------------------
(* Typing, action by action.                                               *)

LEMMA TypeInit == Init => TypeOK
<1> SUFFICES ASSUME Init PROVE TypeOK
  OBVIOUS
<1>1. << >> \in Seq(Record) /\ << >> \in Seq(Message) /\ Len(<< >>) = 0
  BY EmptySeq
<1>2. wal = << >> /\ queue = << >>
  BY DEF Init
<1>3. Positions = {0}
  BY <1>1, <1>2 DEF Positions
<1>4. wal \in Seq(Record) /\ queue \in Seq(Message)
  BY <1>1, <1>2
<1>5. slot \in BOOLEAN /\ inStream \in BOOLEAN
  BY ConstantsType DEF ConstantsType, Init
<1>6. faults \in 0 .. MaxFaults
  BY ConstantsType DEF ConstantsType, Init
<1> QED
  BY <1>3, <1>4, <1>5, <1>6 DEF Init, TypeOK, Phases

(* A longer log has more positions.                                        *)
LEMMA TypeLog ==
  ASSUME TypeOK, NEW t \in Txs, NEW kind \in Kinds, Log(t, kind)
  PROVE  TypeOK'
<1>1. wal' \in Seq(Record) /\ Len(wal') = Len(wal) + 1 /\ Len(wal) \in Nat
  BY AppendProperties, LenProperties DEF TypeOK, Log, Record
<1>2. Positions \subseteq Positions'
  BY <1>1 DEF Positions
<1>3. queue \in Seq(Message')
  <2>1. Message \subseteq Message'
    BY <1>2 DEF Message
  <2> QED
    BY <2>1, SeqMonotonic DEF TypeOK
<1> QED
  BY <1>1, <1>2, <1>3 DEF TypeOK, Log, Record, senderVars, clientVars, engineVars

LEMMA TypeDatabase ==
  ASSUME TypeOK, Database PROVE TypeOK'
<1>1. PICK t \in Txs : ChangeRow(t) \/ End(t)
  BY DEF Database
<1>2. \E kind \in Kinds : Log(t, kind)
  BY <1>1 DEF ChangeRow, End, Kinds
<1> QED
  BY <1>2, TypeLog

(* What every reading step leaves to show.                                 *)
LEMMA TypeReads ==
  ASSUME TypeOK, NEW t \in Txs, NEW kind, Reads(t, kind),
         queue' \in Seq(Message), flushed' \subseteq Positions
  PROVE  TypeOK'
<1>1. Pos \in Positions
  BY LenProperties DEF TypeOK, Reads, Pos, Positions
<1>2. wal' = wal /\ Positions' = Positions /\ Message' = Message
  BY DEF Reads, serverVars, Positions, Message
<1> QED
  BY <1>1, <1>2 DEF TypeOK, Reads, serverVars, clientVars, engineVars

LEMMA TypeWalsender ==
  ASSUME TypeOK, Walsender PROVE TypeOK'
<1> DEFINE T == Seq(Message)
<1>0. /\ wal \in Seq(Record) /\ queue \in T /\ flushed \subseteq Positions
      /\ decoded \in Positions /\ 0 \in Positions
  BY LenProperties DEF TypeOK, Positions
<1>1. \A t \in Txs : Changes(t) \in SUBSET (1 .. Len(wal)) /\ Unsent(t) \in SUBSET (1 .. Len(wal))
  BY <1>0, RecordsOfType DEF Changes, Unsent
<1>2. \A t \in Txs : Changes(t) \subseteq Positions /\ Unsent(t) \subseteq Positions
  BY <1>0, <1>1, LenProperties DEF Positions
<1>3. ASSUME NEW t \in Txs, NEW kind, Reads(t, kind)
      PROVE  /\ <<Msg("commit", 0, Pos, FALSE)>> \in T
             /\ Append(queue, Msg("abort", 0, Pos, FALSE)) \in T
  <2>1. Pos \in Positions
    BY <1>0, <1>3, LenProperties DEF Reads, Pos, Positions
  <2>2. Msg("commit", 0, Pos, FALSE) \in Message /\ Msg("abort", 0, Pos, FALSE) \in Message
    BY <1>0, <2>1 DEF Msg, Message
  <2> QED
    BY <1>0, <2>2, AppendProperties, ShortSequences
<1>4. \A t \in Txs : Chunk(Unsent(t), decoded) \in T /\ ChangeMsgs(Changes(t), FALSE) \in T
  BY <1>0, <1>1, ChunkType, ChangeMsgsProperties
<1>5. ASSUME NEW t \in Txs, ReadChange(t) PROVE TypeOK'
  <2>1. queue' \in T /\ flushed' \subseteq Positions
    BY <1>0, <1>2, <1>4, <1>5, ConcatProperties DEF ReadChange
  <2> QED
    BY <1>5, <2>1, TypeReads DEF ReadChange
<1>6. ASSUME NEW t \in Txs, SendWhole(t) PROVE TypeOK'
  <2>1. Reads(t, "commit") /\ flushed' = flushed
    BY <1>6 DEF SendWhole
  <2>2. queue \o ChangeMsgs(Changes(t), FALSE) \in T
    BY <1>0, <1>4, ConcatProperties
  <2>3. queue' \in T
    BY <1>3, <1>6, <2>1, <2>2, ConcatProperties DEF SendWhole
  <2> QED
    BY <1>0, <2>1, <2>3, TypeReads
<1>7. ASSUME NEW t \in Txs, StreamRest(t) PROVE TypeOK'
  <2>1. Reads(t, "commit") /\ flushed' \subseteq Positions
    BY <1>0, <1>2, <1>7 DEF StreamRest
  <2>2. queue \o Chunk(Unsent(t), decoded) \in T
    BY <1>0, <1>4, ConcatProperties
  <2>3. queue' \in T
    BY <1>3, <1>7, <2>1, <2>2, ConcatProperties DEF StreamRest
  <2> QED
    BY <2>1, <2>3, TypeReads
<1>8. ASSUME NEW t \in Txs, ReadAbort(t) PROVE TypeOK'
  <2>1. Reads(t, "abort") /\ flushed' = flushed /\ queue' \in T
    BY <1>0, <1>3, <1>8 DEF ReadAbort
  <2> QED
    BY <1>0, <2>1, TypeReads
<1>9. CASE Keepalive
  <2>1. Msg("keepalive", 0, decoded, FALSE) \in Message
    BY <1>0 DEF Msg, Message
  <2>2. queue' \in T
    BY <1>9, <2>1, ShortSequences DEF Keepalive
  <2> QED
    BY <1>9, <2>2
    DEF Keepalive, TypeOK, Positions, Message, serverVars, senderVars, clientVars, engineVars
<1> QED
  BY <1>5, <1>6, <1>7, <1>8, <1>9 DEF Walsender

LEMMA TypeProcess ==
  ASSUME TypeOK, Setup \/ StreamLoop \/ Fault PROVE TypeOK'
<1> USE DEF TypeOK, serverVars, senderVars, clientVars, engineVars
<1>0. Len(wal) \in Positions /\ 0 \in Positions /\ \A M : << >> \in Seq(M)
  BY LenProperties, EmptySeq DEF Positions
<1>1. CASE StartupPoll
  BY <1>0, <1>1 DEF StartupPoll, Positions, Message, Phases
<1>2. CASE Connect
  BY <1>2 DEF Connect, Positions, Message, Phases
<1>3. CASE EnsureReplicationSlot
  BY <1>0, <1>3 DEF EnsureReplicationSlot, Positions, Message, Phases
<1>4. CASE StartReplication
  BY <1>4 DEF StartReplication, Positions, Message, Phases
<1>5. CASE Receive
  <2> DEFINE m == Head(queue)
  <2>1. m \in Message /\ Tail(queue) \in Seq(Message)
    BY <1>5, HeadTailProperties DEF Receive
  <2>2. m.at \in Positions /\ m.lsn \in Positions
    BY <2>1 DEF Message
  <2>3. Events(m) \subseteq Positions /\ Advance(m) \in Positions /\ InStreamAfter(m) \in BOOLEAN
    BY <2>2 DEF Events, Advance, InStreamAfter
  <2>4. wal' = wal /\ Positions' = Positions /\ Message' = Message
    BY <1>5 DEF Receive, Positions, Message
  <2>5. current' \subseteq Positions /\ clientLSN' \in Positions /\ inStream' \in BOOLEAN /\ queue' \in Seq(Message)
    BY <1>5, <2>1, <2>3 DEF Receive
  <2> QED
    BY <1>5, <2>4, <2>5 DEF Receive
<1>6. CASE SendStandbyStatus
  BY <1>6 DEF SendStandbyStatus, Positions, Message
<1>7. CASE Disconnect
  BY <1>0, <1>7, ConstantsType DEF ConstantsType, Disconnect, NoSession, Positions, Message, Phases
<1>8. CASE Crash
  <2>1. wal' = wal /\ Positions' = Positions /\ Message' = Message /\ queue' \in Seq(Message)
    BY <1>0, <1>8 DEF Crash, NoSession, Positions, Message
  <2>2. faults' \in 0 .. MaxFaults
    BY <1>8, ConstantsType DEF ConstantsType, Crash
  <2> QED
    BY <1>0, <1>8, <2>1, <2>2 DEF Crash, NoSession, Phases
<1> QED
  BY <1>1, <1>2, <1>3, <1>4, <1>5, <1>6, <1>7, <1>8 DEF Setup, StreamLoop, Fault

LEMMA TypeNext == TypeOK /\ [Next]_vars => TypeOK'
<1> SUFFICES ASSUME TypeOK, [Next]_vars PROVE TypeOK'
  OBVIOUS
<1>1. CASE UNCHANGED vars
  BY <1>1 DEF vars, serverVars, senderVars, clientVars, engineVars, TypeOK, Positions, Message
<1> QED
  BY <1>1, TypeDatabase, TypeWalsender, TypeProcess DEF Next

(***************************************************************************)
(* The reader's variables keep to their types: positions within the log,   *)
(* messages of records the log has (reader.go:600-635, decoder.go:34-61).  *)
(***************************************************************************)
THEOREM ReaderTypeOK == Spec => []TypeOK
BY TypeInit, TypeNext, PTL DEF Spec

-----------------------------------------------------------------------------
(* Framing.                                                                *)

LEMMA ConcatParts ==
  ASSUME NEW M, NEW q \in Seq(M), NEW r \in Seq(M)
  PROVE  /\ Len(q) \in Nat /\ Len(r) \in Nat
         /\ q \o r \in Seq(M) /\ Len(q \o r) = Len(q) + Len(r)
         /\ \A n \in 1 .. Len(q) : (q \o r)[n] = q[n]
         /\ \A n \in 1 .. Len(r) : (q \o r)[Len(q) + n] = r[n]
BY ConcatProperties, LenProperties

LEMMA FramedConcat ==
  ASSUME NEW M, NEW q \in Seq(M), NEW r \in Seq(M), NEW inside \in BOOLEAN,
         Framed(q, inside), Framed(r, FALSE)
  PROVE  Framed(q \o r, inside)
<1> DEFINE c == q \o r
<1>1. /\ Len(q) \in Nat /\ Len(r) \in Nat
      /\ c \in Seq(M) /\ Len(c) = Len(q) + Len(r)
      /\ \A n \in 1 .. Len(q) : c[n] = q[n]
      /\ \A n \in 1 .. Len(r) : c[Len(q) + n] = r[n]
  BY ConcatParts
<1>2. CASE q = << >>
  BY <1>2, ConcatEmptySeq DEF Framed
<1>3. CASE r = << >>
  BY <1>3, ConcatEmptySeq
<1>4. CASE q # << >> /\ r # << >>
  <2>1. Len(q) >= 1 /\ Len(r) >= 1 /\ c # << >>
    BY <1>1, <1>4, EmptySeq
  <2>2. c[1] = q[1] /\ c[Len(c)] = r[Len(r)] /\ c[Len(q)] = q[Len(q)] /\ c[Len(q) + 1] = r[1]
    <3>1. 1 \in 1 .. Len(q) /\ Len(q) \in 1 .. Len(q) /\ 1 \in 1 .. Len(r) /\ Len(r) \in 1 .. Len(r)
      BY <1>1, <2>1
    <3> HIDE DEF c
    <3> QED
      BY <1>1, <3>1
  <2>3. ASSUME NEW n \in 1 .. Len(c) - 1 PROVE Leaves(c[n]) <=> Expects(c[n + 1])
    <3> HIDE DEF c
    <3>1. CASE n < Len(q)
      <4>1. n \in 1 .. Len(q) - 1 /\ c[n] = q[n] /\ c[n + 1] = q[n + 1]
        BY <1>1, <3>1
      <4> QED
        BY <4>1 DEF Framed
    <3>2. CASE n = Len(q)
      BY <1>4, <2>2, <3>2 DEF Framed
    <3>3. CASE n > Len(q)
      <4> DEFINE k == n - Len(q)
      <4>1. k \in 1 .. Len(r) - 1 /\ k + 1 \in 1 .. Len(r) /\ k \in 1 .. Len(r) /\ n = Len(q) + k /\ n + 1 = Len(q) + (k + 1)
        BY <1>1, <3>3
      <4> HIDE DEF k
      <4>2. c[n] = r[k] /\ c[n + 1] = r[k + 1]
        BY <1>1, <4>1
      <4> QED
        BY <4>1, <4>2 DEF Framed
    <3> QED
      BY <1>1, <3>1, <3>2, <3>3
  <2> HIDE DEF c
  <2>4. Framed(c, inside)
    BY <1>4, <2>1, <2>2, <2>3 DEF Framed
  <2> QED
    BY <2>4 DEF c
<1> QED
  BY <1>2, <1>3, <1>4

LEMMA FramedTail ==
  ASSUME NEW M, NEW q \in Seq(M), q # << >>, NEW inside, Framed(q, inside)
  PROVE  Framed(Tail(q), Leaves(q[1]))
<1> DEFINE r == Tail(q)
<1>1. /\ Len(q) \in Nat /\ Len(q) >= 1 /\ r \in Seq(M) /\ Len(r) = Len(q) - 1
      /\ \A n \in 1 .. Len(r) : r[n] = q[n + 1]
  BY HeadTailProperties, LenProperties, EmptySeq
<1> HIDE DEF r
<1>2. CASE r = << >>
  <2>1. Len(q) = 1
    BY <1>1, <1>2, EmptySeq
  <2> QED
    BY <1>2, <2>1 DEF Framed, r
<1>3. CASE r # << >>
  <2>1. Len(r) \in Nat /\ Len(r) >= 1
    BY <1>1, <1>3, EmptySeq
  <2>2. r[1] = q[2] /\ r[Len(r)] = q[Len(q)]
    BY <1>1, <2>1
  <2>3. Leaves(q[1]) <=> Expects(q[2])
    <3>1. 1 \in 1 .. Len(q) - 1
      BY <1>1, <2>1
    <3> QED
      BY <3>1 DEF Framed
  <2>4. ASSUME NEW n \in 1 .. Len(r) - 1 PROVE Leaves(r[n]) <=> Expects(r[n + 1])
    <3>1. n + 1 \in 1 .. Len(q) - 1 /\ r[n] = q[n + 1] /\ r[n + 1] = q[(n + 1) + 1]
      BY <1>1
    <3> QED
      BY <3>1 DEF Framed
  <2>5. ~Leaves(q[Len(q)])
    BY DEF Framed
  <2> QED
    BY <1>3, <2>2, <2>3, <2>4, <2>5 DEF Framed, r
<1> QED
  BY <1>2, <1>3

LEMMA FramedPlain ==
  ASSUME NEW M, NEW q \in Seq(M),
         \A n \in 1 .. Len(q) : ~Expects(q[n]) /\ ~Leaves(q[n])
  PROVE  Framed(q, FALSE)
<1>1. Len(q) \in Nat /\ (q # << >> => Len(q) >= 1)
  BY LenProperties, EmptySeq
<1>2. q # << >> => 1 \in 1 .. Len(q) /\ Len(q) \in 1 .. Len(q)
  BY <1>1
<1>3. \A n \in 1 .. Len(q) - 1 : n \in 1 .. Len(q) /\ n + 1 \in 1 .. Len(q)
  BY <1>1
<1> QED
  BY <1>2, <1>3 DEF Framed

LEMMA ChunkProperties ==
  ASSUME wal \in Seq(Record), NEW S \in SUBSET (1 .. Len(wal)), NEW lsn \in Positions
  PROVE  LET q == Chunk(S, lsn) IN
         /\ Framed(q, FALSE)
         /\ \A n \in 1 .. Len(q) : q[n].lsn \in {0, lsn} \cup {i - 1 : i \in S}
<1> DEFINE a == <<Msg("streamStart", 0, 0, FALSE)>>
           b == ChangeMsgs(S, TRUE)
           z == <<Msg("streamStop", 0, lsn, FALSE)>>
           q == a \o b \o z
<1>1. Msg("streamStart", 0, 0, FALSE) \in Message /\ Msg("streamStop", 0, lsn, FALSE) \in Message
  BY LenProperties DEF Msg, Message, Positions
<1>2. /\ a \in Seq(Message) /\ Len(a) = 1 /\ a[1] = Msg("streamStart", 0, 0, FALSE)
      /\ z \in Seq(Message) /\ Len(z) = 1 /\ z[1] = Msg("streamStop", 0, lsn, FALSE)
  BY <1>1, ShortSequences
<1>3. /\ b \in Seq(Message) /\ Len(b) \in Nat
      /\ \A n \in 1 .. Len(b) : \E i \in S : b[n] = Msg("change", i, i - 1, TRUE)
  BY ChangeMsgsProperties, LenProperties
<1> HIDE DEF a, b, z
<1> DEFINE ab == a \o b
<1>4. /\ ab \in Seq(Message) /\ Len(ab) = Len(a) + Len(b)
      /\ \A n \in 1 .. Len(a) : ab[n] = a[n]
      /\ \A n \in 1 .. Len(b) : ab[Len(a) + n] = b[n]
  <2>1. a \in Seq(Message) /\ b \in Seq(Message)
    BY <1>2, <1>3
  <2> QED
    BY <2>1, ConcatParts
<1>5. /\ q \in Seq(Message) /\ Len(q) = Len(ab) + Len(z)
      /\ \A n \in 1 .. Len(ab) : q[n] = ab[n]
      /\ \A n \in 1 .. Len(z) : q[Len(ab) + n] = z[n]
  BY <1>2, <1>4, ConcatParts
<1> HIDE DEF ab, q
<1>6. /\ Len(q) = Len(b) + 2
      /\ q[1] = a[1] /\ q[Len(q)] = z[1]
      /\ \A n \in 1 .. Len(b) : q[1 + n] = b[n]
  <2>1. Len(ab) = 1 + Len(b) /\ Len(q) = (1 + Len(b)) + 1
    BY <1>2, <1>3, <1>4, <1>5
  <2>2. 1 \in 1 .. Len(a) /\ 1 \in 1 .. Len(ab) /\ 1 \in 1 .. Len(z)
    BY <1>2, <1>3, <2>1
  <2>3. \A n \in 1 .. Len(b) : 1 + n \in 1 .. Len(ab) /\ ab[1 + n] = b[n]
    BY <1>2, <1>3, <1>4, <2>1
  <2>4. \A n \in 1 .. Len(b) : q[1 + n] = b[n]
    BY <1>5, <2>3
  <2>5. q[1] = a[1]
    BY <1>4, <1>5, <2>2
  <2>6. q[Len(q)] = z[1]
    BY <1>2, <1>5, <2>2
  <2>7. Len(q) = Len(b) + 2
    BY <1>3, <2>1
  <2> QED
    BY <2>4, <2>5, <2>6, <2>7
<1>7. ~Expects(q[1]) /\ Leaves(q[1]) /\ q[1].lsn = 0
  BY <1>2, <1>6 DEF Msg, Expects, Leaves
<1>8. Expects(q[Len(q)]) /\ ~Leaves(q[Len(q)]) /\ q[Len(q)].lsn = lsn
  BY <1>2, <1>6 DEF Msg, Expects, Leaves
<1>9. ASSUME NEW n \in 1 .. Len(q), n # 1, n # Len(q)
      PROVE  Expects(q[n]) /\ Leaves(q[n]) /\ q[n].lsn \in {i - 1 : i \in S}
  <2>1. n - 1 \in 1 .. Len(b) /\ 1 + (n - 1) = n
    BY <1>3, <1>6, <1>9
  <2>2. PICK i \in S : q[n] = Msg("change", i, i - 1, TRUE)
    BY <1>3, <1>6, <2>1
  <2> QED
    BY <2>2 DEF Msg, Expects, Leaves
<1>10. \A n \in 1 .. Len(q) : q[n].lsn \in {0, lsn} \cup {i - 1 : i \in S}
  BY <1>7, <1>8, <1>9
<1>11. Framed(q, FALSE)
  <2>1. q # << >>
    BY <1>3, <1>6, EmptySeq
  <2>2. ASSUME NEW n \in 1 .. Len(q) - 1 PROVE Leaves(q[n]) /\ Expects(q[n + 1])
    <3>1. n \in 1 .. Len(q) /\ n # Len(q) /\ n + 1 \in 1 .. Len(q) /\ n + 1 # 1
      BY <1>3, <1>6
    <3> QED
      BY <1>7, <1>8, <1>9, <3>1
  <2> QED
    BY <1>7, <1>8, <2>1, <2>2 DEF Framed
<1>12. CASE S = {}
  <2>1. Chunk(S, lsn) = << >> /\ Len(<< >>) = 0
    BY <1>12, EmptySeq DEF Chunk
  <2>2. << >> \in Seq(Message) /\ \A n \in 1 .. Len(<< >>) : FALSE
    BY <2>1, EmptySeq
  <2>3. Framed(<< >>, FALSE)
    BY <2>2, FramedPlain
  <2> QED
    BY <2>1, <2>2, <2>3
<1>13. CASE S # {}
  <2>1. Chunk(S, lsn) = q
    BY <1>13 DEF Chunk, q, ab, a, b, z
  <2> QED
    BY <1>10, <1>11, <2>1
<1> QED
  BY <1>12, <1>13

-----------------------------------------------------------------------------
(* The log grows.                                                          *)

(* A record is added for a transaction that has not ended; the others have *)
(* the records they had.                                                   *)
LEMMA LogAppends ==
  ASSUME TypeOK, NEW t \in Txs, NEW kind \in Kinds, Log(t, kind)
  PROVE  /\ DOMAIN wal = 1 .. Len(wal) /\ Len(wal) \in Nat
         /\ Len(wal') = Len(wal) + 1 /\ DOMAIN wal' = 1 .. Len(wal')
         /\ \A i \in DOMAIN wal : i \in DOMAIN wal' /\ i # Len(wal') /\ wal'[i] = wal[i]
         /\ wal'[Len(wal')] = [tx |-> t, kind |-> kind]
         /\ \A i \in DOMAIN wal : wal[i].tx = t => wal[i].kind = "change"
         /\ \A i \in DOMAIN wal' :
              i \in Nat /\ i <= Len(wal') /\ (i = Len(wal') \/ i \in DOMAIN wal)
         /\ \A u : u # t => Changes(u)' = Changes(u)
<1>1. /\ DOMAIN wal = 1 .. Len(wal) /\ Len(wal) \in Nat /\ wal \in Seq(Record)
      /\ wal' = Append(wal, [tx |-> t, kind |-> kind]) /\ ~Ended(t)
  BY LenProperties DEF TypeOK, Log
<1>2. /\ wal' \in Seq(Record) /\ Len(wal') = Len(wal) + 1
      /\ \A i \in 1 .. Len(wal) : wal'[i] = wal[i]
      /\ wal'[Len(wal) + 1] = [tx |-> t, kind |-> kind]
  BY <1>1, AppendProperties DEF Record
<1>3. DOMAIN wal' = 1 .. Len(wal')
  BY <1>2, LenProperties
<1>4. \A i \in 1 .. Len(wal) : i \in 1 .. Len(wal') /\ i # Len(wal')
  BY <1>1, <1>2
<1>5. \A i \in DOMAIN wal' : i \in Nat /\ i <= Len(wal') /\ (i = Len(wal') \/ i \in DOMAIN wal)
  BY <1>1, <1>2, <1>3
<1>6. ASSUME NEW i \in DOMAIN wal, wal[i].tx = t PROVE wal[i].kind = "change"
  <2>1. wal[i] \in Record
    BY <1>1
  <2>2. wal[i] = [tx |-> t, kind |-> wal[i].kind] /\ wal[i].kind \in Kinds
    BY <1>6, <2>1 DEF Record
  <2> QED
    BY <1>1, <2>2 DEF Ended, Committed, Logged, Kinds
<1>7. ASSUME NEW u, u # t PROVE Changes(u)' = Changes(u)
  <2>1. wal'[Len(wal')] # [tx |-> u, kind |-> "change"]
    BY <1>2, <1>7
  <2>2. \A i : i \in 1 .. Len(wal') <=> (i \in 1 .. Len(wal) \/ i = Len(wal'))
    BY <1>1, <1>2
  <2> QED
    BY <1>2, <2>1, <2>2 DEF Changes, RecordsOf
<1> QED
  BY <1>1, <1>2, <1>3, <1>4, <1>5, <1>6, <1>7

LEMMA LogCommits ==
  ASSUME TypeOK, NEW t \in Txs, NEW kind \in Kinds, Log(t, kind), NEW p \in WholeCommits'
  PROVE  \/ p = Len(wal')
         \/ /\ p \in WholeCommits /\ wal'[p] = wal[p]
            /\ Changes(wal[p].tx)' = Changes(wal[p].tx)
<1>1. p \in DOMAIN wal' /\ wal'[p].kind = "commit" /\ wal'[p].tx \notin Streamed
  BY DEF WholeCommits
<1>2. CASE p # Len(wal')
  <2>1. p \in DOMAIN wal
    BY <1>1, <1>2, LogAppends
  <2>2. wal'[p] = wal[p] /\ p \in WholeCommits
    BY <1>1, <2>1, LogAppends DEF WholeCommits
  <2>3. wal[p].tx # t
    BY <1>1, <2>1, <2>2, LogAppends
  <2>4. Changes(wal[p].tx)' = Changes(wal[p].tx)
    <3>1. \A u : u # t => Changes(u)' = Changes(u)
      BY LogAppends
    <3>2. Changes(wal[p].tx)' = Changes(wal[p].tx)
      BY <2>2, <2>3, <3>1
    <3> QED
      BY <3>2
  <2> QED
    BY <2>2, <2>4
<1> QED
  BY <1>2

LEMMA LogEndsLast ==
  ASSUME TypeOK, EndsLast, NEW t \in Txs, NEW kind \in Kinds, Log(t, kind)
  PROVE  EndsLast'
<1> SUFFICES ASSUME NEW i \in DOMAIN wal', NEW j \in DOMAIN wal',
                    wal'[i].kind # "change", wal'[j].tx = wal'[i].tx
             PROVE  j <= i
  BY DEF EndsLast
<1>1. /\ i \in DOMAIN wal \/ i = Len(wal')
      /\ j \in DOMAIN wal \/ j = Len(wal')
      /\ i \in Nat /\ j \in Nat /\ j <= Len(wal')
  BY LogAppends
<1>2. CASE i = Len(wal')
  BY <1>1, <1>2
<1>3. CASE i \in DOMAIN wal /\ j \in DOMAIN wal
  BY <1>3, LogAppends DEF EndsLast
<1>4. CASE i \in DOMAIN wal /\ j = Len(wal')
  BY <1>4, LogAppends
<1> QED
  BY <1>1, <1>2, <1>3, <1>4

LEMMA LogKeeps ==
  ASSUME ReaderInv, NEW t \in Txs, NEW kind \in Kinds, Log(t, kind) PROVE ReaderInv'
<1>0. TypeOK /\ EndsLast /\ SessionInv /\ FlushedInv /\ FlightInv /\ ReachedInv
  BY DEF ReaderInv
<1>1. /\ slot' = slot /\ confirmed' = confirmed /\ decoded' = decoded /\ flushed' = flushed
      /\ queue' = queue /\ phase' = phase /\ clientLSN' = clientLSN /\ inStream' = inStream
      /\ current' = current /\ refreshed' = refreshed
  BY DEF Log, senderVars, clientVars, engineVars
<1>2. /\ Len(wal') = Len(wal) + 1 /\ Len(wal) \in Nat
      /\ \A i \in DOMAIN wal : i \in DOMAIN wal' /\ wal'[i] = wal[i]
  BY <1>0, LogAppends
<1>3. confirmed < Len(wal') /\ clientLSN < Len(wal') /\ decoded < Len(wal')
  BY <1>0, <1>1, <1>2 DEF TypeOK, Positions
<1>4. TypeOK' /\ EndsLast'
  BY <1>0, TypeLog, LogEndsLast
<1>5. SessionInv' /\ FlushedInv'
  BY <1>0, <1>1, <1>2 DEF SessionInv, FlushedInv
<1>6. \A p \in WholeCommits' : p = Len(wal') \/ (p \in WholeCommits /\ Changes(wal[p].tx)' = Changes(wal[p].tx))
  BY <1>0, LogCommits
<1>7. FlightInv'
  <2> SUFFICES ASSUME phase = "streaming", NEW p \in WholeCommits', clientLSN < p, p <= decoded
               PROVE  Underway(p)'
    BY <1>0, <1>1 DEF FlightInv, Framed, Expects, Leaves
  <2>1. p \in WholeCommits /\ Changes(wal[p].tx)' = Changes(wal[p].tx)
    <3>1. p # Len(wal')
      BY <1>3, <1>2, <1>0 DEF TypeOK, Positions
    <3> QED
      BY <1>6, <3>1
  <2>2. PICK k \in DOMAIN queue : BehindAt(queue, p, k)
    BY <1>0, <2>1 DEF FlightInv, Underway
  <2>3. BehindAt(queue, p, k)'
    BY <1>1, <2>1, <2>2 DEF BehindAt, Msg
  <2> QED
    BY <1>1, <2>3 DEF Underway
<1>8. ReachedInv'
  <2>1. ASSUME NEW lsn, lsn < Len(wal'), lsn \in Nat, ReachedTo(lsn) PROVE ReachedTo(lsn)'
    <3> SUFFICES ASSUME NEW p \in WholeCommits', p <= lsn PROVE Reached(p)'
      BY DEF ReachedTo
    <3>1. p # Len(wal')
      BY <1>2, <2>1
    <3>2. p \in WholeCommits /\ Changes(wal[p].tx)' = Changes(wal[p].tx)
      BY <1>6, <3>1
    <3> QED
      BY <1>1, <2>1, <3>2 DEF ReachedTo, Reached
  <2>2. confirmed \in Nat /\ clientLSN \in Nat
    BY <1>0 DEF TypeOK, Positions
  <2> QED
    BY <1>0, <1>1, <1>3, <2>1, <2>2 DEF ReachedInv
<1> QED
  BY <1>4, <1>5, <1>7, <1>8 DEF ReaderInv

-----------------------------------------------------------------------------
(* The sender reads a record and puts r in flight.                         *)

LEMMA SendKeeps ==
  ASSUME ReaderInv, NEW t \in Txs, NEW kind, Reads(t, kind), TypeOK',
         NEW r \in Seq(Message), queue' = queue \o r,
         Framed(r, FALSE), \A n \in 1 .. Len(r) : r[n].lsn <= Pos,
         FlushedInv',
         Pos \in WholeCommits => \E k \in DOMAIN r : BehindAt(r, Pos, k)
  PROVE  ReaderInv'
<1>0. TypeOK /\ EndsLast /\ SessionInv /\ FlightInv /\ ReachedInv
  BY DEF ReaderInv
<1>1. /\ wal' = wal /\ slot' = slot /\ confirmed' = confirmed /\ phase' = phase
      /\ clientLSN' = clientLSN /\ inStream' = inStream
      /\ current' = current /\ refreshed' = refreshed
      /\ phase = "streaming" /\ decoded' = Pos
  BY DEF Reads, serverVars, clientVars, engineVars
<1>2. EndsLast' /\ ReachedInv'
  BY <1>0, <1>1 DEF EndsLast, ReachedInv, ReachedTo, Reached, WholeCommits, Changes, RecordsOf
<1>3. decoded \in Nat /\ clientLSN \in Nat /\ Pos \in Nat /\ Pos = decoded + 1
  BY <1>0 DEF TypeOK, Positions, Pos
<1>4. SessionInv'
  BY <1>0, <1>1, <1>3 DEF SessionInv
<1> DEFINE c == queue \o r
<1>5. /\ Len(queue) \in Nat /\ Len(r) \in Nat /\ queue \in Seq(Message)
      /\ c \in Seq(Message) /\ Len(c) = Len(queue) + Len(r) /\ DOMAIN c = 1 .. Len(c)
      /\ DOMAIN queue = 1 .. Len(queue) /\ DOMAIN r = 1 .. Len(r)
      /\ \A n \in 1 .. Len(queue) : c[n] = queue[n]
      /\ \A n \in 1 .. Len(r) : c[Len(queue) + n] = r[n]
  <2>1. queue \in Seq(Message)
    BY <1>0 DEF TypeOK
  <2> QED
    BY <2>1, ConcatParts, LenProperties
<1>6. Framed(c, inStream)
  <2>1. inStream \in BOOLEAN /\ queue \in Seq(Message) /\ Framed(queue, inStream)
    BY <1>0, <1>1 DEF TypeOK, FlightInv
  <2> QED
    BY <2>1, FramedConcat
<1> HIDE DEF c
<1>7. \A n \in 1 .. Len(queue) : queue[n].lsn <= decoded /\ queue[n].lsn \in Nat
  <2>1. \A n \in 1 .. Len(queue) : queue[n] \in Message /\ queue[n].lsn <= decoded
    BY <1>0, <1>1, <1>5 DEF FlightInv
  <2> QED
    BY <2>1 DEF Message, Positions
<1>8. ASSUME NEW n \in 1 .. Len(c) PROVE c[n].lsn <= Pos
  <2>1. CASE n \in 1 .. Len(queue)
    BY <1>3, <1>5, <1>7, <2>1
  <2>2. CASE n \notin 1 .. Len(queue)
    <3>1. n - Len(queue) \in 1 .. Len(r) /\ Len(queue) + (n - Len(queue)) = n
      BY <1>5, <2>2
    <3> QED
      BY <1>5, <3>1
  <2> QED
    BY <2>1, <2>2
<1>9. ASSUME NEW p \in WholeCommits, clientLSN < p, p <= Pos
      PROVE  \E k \in 1 .. Len(c) : BehindAt(c, p, k)
  <2>1. CASE p <= decoded
    <3>1. PICK k \in 1 .. Len(queue) : BehindAt(queue, p, k)
      BY <1>0, <1>1, <1>5, <1>9, <2>1 DEF FlightInv, Underway
    <3>2. k \in 1 .. Len(c) /\ \A j \in 1 .. k - 1 : j \in 1 .. Len(queue)
      BY <1>5
    <3>3. BehindAt(c, p, k)
      BY <1>5, <3>1, <3>2 DEF BehindAt
    <3> QED
      BY <3>2, <3>3
  <2>2. CASE ~(p <= decoded)
    <3>1. p = Pos
      BY <1>3, <1>9, <2>2, <1>0, LenProperties DEF WholeCommits, TypeOK
    <3>2. PICK k \in 1 .. Len(r) : BehindAt(r, p, k)
      BY <1>5, <3>1
    <3> DEFINE l == Len(queue) + k
    <3>3. l \in 1 .. Len(c) /\ l \in Nat
      BY <1>5
    <3>4. c[l].lsn = p
      BY <1>5, <3>2 DEF BehindAt
    <3>5. ASSUME NEW j \in 1 .. l - 1 PROVE c[j].lsn < p
      <4>1. CASE j \in 1 .. Len(queue)
        BY <1>3, <1>5, <1>7, <3>1, <4>1
      <4>2. CASE j \notin 1 .. Len(queue)
        <5>1. j - Len(queue) \in 1 .. k - 1 /\ Len(queue) + (j - Len(queue)) = j /\ j - Len(queue) \in 1 .. Len(r)
          BY <1>5, <4>2
        <5>2. c[j] = r[j - Len(queue)]
          BY <1>5, <5>1
        <5> QED
          BY <3>2, <5>1, <5>2 DEF BehindAt
      <4> QED
        BY <4>1, <4>2
    <3>6. ASSUME NEW i \in Changes(wal[p].tx) \ current
          PROVE  \E j \in 1 .. l - 1 : c[j] = Msg("change", i, i - 1, FALSE)
      <4>1. PICK j \in 1 .. k - 1 : r[j] = Msg("change", i, i - 1, FALSE)
        BY <3>2 DEF BehindAt
      <4>2. Len(queue) + j \in 1 .. l - 1 /\ j \in 1 .. Len(r)
        BY <1>5
      <4> DEFINE h == Len(queue) + j
      <4>3. c[h] = Msg("change", i, i - 1, FALSE)
        BY <1>5, <4>1, <4>2
      <4> HIDE DEF h
      <4> QED
        BY <4>2, <4>3 DEF h
    <3> HIDE DEF l
    <3>7. BehindAt(c, p, l)
      BY <3>4, <3>5, <3>6 DEF BehindAt
    <3> QED
      BY <3>3, <3>7
  <2> QED
    BY <2>1, <2>2
<1>10. FlightInv'
  <2>1. queue' = c /\ WholeCommits' = WholeCommits
    BY <1>1 DEF c, WholeCommits
  <2>2. Framed(queue, inStream)'
    BY <1>1, <1>6, <2>1 DEF Framed, Expects, Leaves
  <2>3. \A n \in DOMAIN queue' : queue'[n].lsn <= decoded'
    BY <1>1, <1>5, <1>8, <2>1
  <2>4. ASSUME NEW p \in WholeCommits', clientLSN' < p, p <= decoded' PROVE Underway(p)'
    <3>1. PICK k \in 1 .. Len(c) : BehindAt(c, p, k)
      BY <1>1, <1>9, <2>1, <2>4
    <3>2. BehindAt(queue, p, k)'
      BY <1>1, <2>1, <3>1 DEF BehindAt, Changes, RecordsOf, Msg
    <3> QED
      BY <1>5, <2>1, <3>1, <3>2 DEF Underway
  <2> QED
    BY <2>2, <2>3, <2>4 DEF FlightInv
<1> QED
  BY <1>2, <1>4, <1>10 DEF ReaderInv

(* What is sent with a record is about records up to it.                   *)
LEMMA ReadsAt ==
  ASSUME ReaderInv, NEW t \in Txs, NEW kind \in Kinds, Reads(t, kind)
  PROVE  /\ wal \in Seq(Record) /\ queue \in Seq(Message) /\ decoded \in Positions
         /\ Pos \in DOMAIN wal /\ Pos \in Positions /\ Pos \in Nat /\ decoded <= Pos /\ 0 <= Pos
         /\ wal[Pos].tx = t /\ wal[Pos].kind = kind
         /\ Changes(t) \in SUBSET (1 .. Len(wal)) /\ Unsent(t) \in SUBSET (1 .. Len(wal))
         /\ \A i \in Changes(t) : wal[i].tx = t
         /\ \A i \in Unsent(t) : i - 1 <= Pos
         /\ kind # "change" => \A i \in Changes(t) : i - 1 < Pos /\ i \in Nat
<1>1. TypeOK /\ EndsLast
  BY DEF ReaderInv
<1>2. wal \in Seq(Record) /\ queue \in Seq(Message) /\ decoded \in Positions /\ DOMAIN wal = 1 .. Len(wal) /\ Len(wal) \in Nat
  BY <1>1, LenProperties DEF TypeOK
<1>3. Pos \in DOMAIN wal /\ Pos \in Positions /\ Pos \in Nat /\ decoded <= Pos /\ 0 <= Pos
  BY <1>2 DEF Reads, Pos, Positions
<1>4. wal[Pos].tx = t /\ wal[Pos].kind = kind
  BY DEF Reads
<1>5. Changes(t) \in SUBSET (1 .. Len(wal)) /\ Unsent(t) \in SUBSET (1 .. Len(wal)) /\ \A i \in Changes(t) : wal[i].tx = t
  BY <1>2, RecordsOfType DEF Changes, Unsent
<1>6. \A i \in Unsent(t) : i - 1 <= Pos
  BY <1>2, <1>3, <1>5 DEF Unsent
<1>7. ASSUME kind # "change", NEW i \in Changes(t) PROVE i - 1 < Pos /\ i \in Nat
  <2>1. i \in DOMAIN wal /\ wal[i].tx = t /\ i \in Nat
    BY <1>2, <1>5, <1>7
  <2>2. i <= Pos
    BY <1>1, <1>3, <1>4, <1>7, <2>1 DEF EndsLast
  <2> QED
    BY <1>3, <2>1, <2>2
<1> QED
  BY <1>2, <1>3, <1>4, <1>5, <1>6, <1>7

LEMMA ChunkSent ==
  ASSUME ReaderInv, NEW t \in Txs, NEW kind \in Kinds, Reads(t, kind)
  PROVE  LET r == Chunk(Unsent(t), decoded) IN
         r \in Seq(Message) /\ Framed(r, FALSE) /\ \A n \in 1 .. Len(r) : r[n].lsn <= Pos
<1> DEFINE r == Chunk(Unsent(t), decoded)
<1>1. r \in Seq(Message) /\ Framed(r, FALSE) /\ \A n \in 1 .. Len(r) : r[n].lsn \in {0, decoded} \cup {i - 1 : i \in Unsent(t)}
  BY ReadsAt, ChunkType, ChunkProperties
<1> HIDE DEF r
<1>2. ASSUME NEW n \in 1 .. Len(r) PROVE r[n].lsn <= Pos
  BY <1>1, ReadsAt
<1> QED
  BY <1>1, <1>2 DEF r

LEMMA PlainMessage ==
  ASSUME NEW m \in Message, m.kind \in {"commit", "abort", "keepalive"}
  PROVE  /\ <<m>> \in Seq(Message) /\ Len(<<m>>) = 1 /\ <<m>>[1] = m
         /\ Framed(<<m>>, FALSE)
<1>1. <<m>> \in Seq(Message) /\ Len(<<m>>) = 1 /\ <<m>>[1] = m
  BY ShortSequences
<1>2. ~Expects(m) /\ ~Leaves(m)
  BY DEF Expects, Leaves
<1>3. \A n \in 1 .. Len(<<m>>) : <<m>>[n] = m
  BY <1>1
<1>4. Framed(<<m>>, FALSE)
  BY <1>1, <1>2, <1>3, FramedPlain
<1> QED
  BY <1>1, <1>4

LEMMA ReadChangeKeeps ==
  ASSUME ReaderInv, NEW t \in Txs, ReadChange(t) PROVE ReaderInv'
<1>0. TypeOK /\ FlushedInv
  BY DEF ReaderInv
<1>1. Reads(t, "change") /\ "change" \in Kinds /\ wal' = wal
  BY DEF ReadChange, Reads, Kinds, serverVars
<1>2. TypeOK'
  BY <1>0, TypeWalsender DEF Walsender
<1>3. Pos \notin WholeCommits
  BY <1>1, ReadsAt DEF WholeCommits
<1>4. CASE UNCHANGED <<flushed, queue>>
  <2>1. << >> \in Seq(Message) /\ Len(<< >>) = 0 /\ queue' = queue \o << >>
    BY <1>0, <1>4, EmptySeq, ConcatEmptySeq DEF TypeOK
  <2>2. \A n \in 1 .. Len(<< >>) : FALSE
    BY <2>1
  <2>3. Framed(<< >>, FALSE)
    BY <2>1, <2>2, FramedPlain
  <2>4. FlushedInv'
    BY <1>0, <1>1, <1>4 DEF FlushedInv
  <2> QED
    BY <1>1, <1>2, <1>3, <2>1, <2>2, <2>3, <2>4, SendKeeps
<1>5. CASE /\ t \in Streamed
           /\ queue' = queue \o Chunk(Unsent(t), decoded)
           /\ flushed' = flushed \cup Unsent(t)
  <2>1. FlushedInv'
    BY <1>0, <1>1, <1>5, ReadsAt DEF FlushedInv, Unsent
  <2>2. LET r == Chunk(Unsent(t), decoded) IN
        r \in Seq(Message) /\ Framed(r, FALSE) /\ \A n \in 1 .. Len(r) : r[n].lsn <= Pos
    BY <1>1, ChunkSent
  <2> QED
    BY <1>1, <1>2, <1>3, <1>5, <2>1, <2>2, SendKeeps
<1> QED
  BY <1>4, <1>5 DEF ReadChange

LEMMA SendWholeKeeps ==
  ASSUME ReaderInv, NEW t \in Txs, SendWhole(t) PROVE ReaderInv'
<1> DEFINE m == Msg("commit", 0, Pos, FALSE)
           a == ChangeMsgs(Changes(t), FALSE)
           r == a \o <<m>>
<1>0. TypeOK /\ FlushedInv
  BY DEF ReaderInv
<1>1. Reads(t, "commit") /\ "commit" \in Kinds /\ wal' = wal /\ flushed' = flushed
  BY DEF SendWhole, Reads, Kinds, serverVars
<1>2. TypeOK'
  BY <1>0, TypeWalsender DEF Walsender
<1>3. FlushedInv'
  BY <1>0, <1>1 DEF FlushedInv
<1>4. /\ a \in Seq(Message)
      /\ \A n \in 1 .. Len(a) : \E i \in Changes(t) : a[n] = Msg("change", i, i - 1, FALSE)
      /\ \A i \in Changes(t) : \E n \in 1 .. Len(a) : a[n] = Msg("change", i, i - 1, FALSE)
  BY <1>1, ReadsAt, ChangeMsgsProperties
<1>5. \A n \in 1 .. Len(a) : a[n].lsn < Pos /\ ~Expects(a[n]) /\ ~Leaves(a[n])
  <2> SUFFICES ASSUME NEW n \in 1 .. Len(a) PROVE a[n].lsn < Pos /\ ~Expects(a[n]) /\ ~Leaves(a[n])
    OBVIOUS
  <2>1. PICK i \in Changes(t) : a[n] = Msg("change", i, i - 1, FALSE)
    BY <1>4
  <2>2. i - 1 < Pos
    BY <1>1, ReadsAt
  <2> HIDE DEF a
  <2> QED
    BY <2>1, <2>2 DEF Msg, Expects, Leaves
<1>6. m \in Message /\ m.kind = "commit" /\ m.lsn = Pos
  BY <1>1, ReadsAt, BareMessage
<1> HIDE DEF a, m
<1>7. /\ <<m>> \in Seq(Message) /\ Len(<<m>>) = 1 /\ <<m>>[1] = m /\ Framed(<<m>>, FALSE)
  BY <1>6, PlainMessage
<1>8. /\ r \in Seq(Message) /\ Len(r) = Len(a) + 1 /\ Len(a) \in Nat /\ DOMAIN r = 1 .. Len(r)
      /\ \A n \in 1 .. Len(a) : r[n] = a[n]
      /\ r[Len(a) + 1] = m
  <2>1. /\ Len(a) \in Nat /\ r \in Seq(Message) /\ Len(r) = Len(a) + Len(<<m>>)
        /\ \A n \in 1 .. Len(a) : r[n] = a[n]
        /\ \A n \in 1 .. Len(<<m>>) : r[Len(a) + n] = <<m>>[n]
    BY <1>4, <1>7, ConcatParts
  <2>2. DOMAIN r = 1 .. Len(r)
    BY <2>1, LenProperties
  <2> HIDE DEF r
  <2> QED
    BY <1>7, <2>1, <2>2
<1>9. queue' = queue \o r
  <2>1. queue \in Seq(Message)
    BY <1>0 DEF TypeOK
  <2>2. (queue \o a) \o <<m>> = queue \o (a \o <<m>>)
    BY <1>4, <1>7, <2>1, ConcatAssociative
  <2> QED
    BY <2>2 DEF SendWhole, a, m
<1>10. Framed(r, FALSE)
  <2>1. Framed(a, FALSE)
    BY <1>4, <1>5, FramedPlain
  <2> QED
    BY <1>4, <1>7, <2>1, FramedConcat
<1> HIDE DEF r
<1>11. \A n \in 1 .. Len(r) : n \in 1 .. Len(a) \/ n = Len(a) + 1
  BY <1>8
<1>12. Pos \in Nat /\ \A n \in 1 .. Len(a) : a[n].lsn <= Pos
  <2>1. \A n \in 1 .. Len(a) : a[n].lsn \in Nat
    <3>1. \A n \in 1 .. Len(a) : a[n] \in Message
      BY <1>4
    <3> QED
      BY <3>1 DEF Message, Positions
  <2> QED
    BY <1>1, <1>5, <2>1, ReadsAt
<1>13. \A n \in 1 .. Len(r) : r[n].lsn <= Pos
  BY <1>6, <1>8, <1>11, <1>12
<1>14. BehindAt(r, Pos, Len(a) + 1) /\ Len(a) + 1 \in DOMAIN r
  <2>1. wal[Pos].tx = t
    BY <1>1, ReadsAt
  <2>2. (Len(a) + 1) - 1 = Len(a) /\ Len(a) + 1 \in 1 .. Len(r)
    BY <1>8
  <2>3. ASSUME NEW i \in Changes(t)
        PROVE  \E j \in 1 .. Len(a) : r[j] = Msg("change", i, i - 1, FALSE)
    <3>1. PICK j \in 1 .. Len(a) : a[j] = Msg("change", i, i - 1, FALSE)
      BY <1>4
    <3> QED
      BY <1>8, <3>1
  <2>4. \A j \in 1 .. Len(a) : r[j].lsn < Pos
    BY <1>5, <1>8
  <2>5. r[Len(a) + 1].lsn = Pos
    BY <1>6, <1>8
  <2> QED
    BY <1>8, <2>1, <2>2, <2>3, <2>4, <2>5 DEF BehindAt
<1> QED
  BY <1>1, <1>2, <1>3, <1>8, <1>9, <1>10, <1>13, <1>14, SendKeeps

LEMMA StreamRestKeeps ==
  ASSUME ReaderInv, NEW t \in Txs, StreamRest(t) PROVE ReaderInv'
<1> DEFINE m == Msg("commit", 0, Pos, FALSE)
           a == Chunk(Unsent(t), decoded)
           r == a \o <<m>>
<1>0. TypeOK /\ FlushedInv
  BY DEF ReaderInv
<1>1. Reads(t, "commit") /\ "commit" \in Kinds /\ wal' = wal
  BY DEF StreamRest, Reads, Kinds, serverVars
<1>2. TypeOK'
  BY <1>0, TypeWalsender DEF Walsender
<1>3. t \in Streamed
  <2>1. PICK i \in Changes(t) : i \in flushed
    BY DEF StreamRest
  <2> QED
    BY <1>0, <1>1, <2>1, ReadsAt DEF FlushedInv
<1>4. FlushedInv'
  BY <1>0, <1>1, <1>3, ReadsAt, LenProperties DEF FlushedInv, StreamRest
<1>5. Pos \notin WholeCommits
  BY <1>1, <1>3, ReadsAt DEF WholeCommits
<1>6. a \in Seq(Message) /\ Framed(a, FALSE) /\ \A n \in 1 .. Len(a) : a[n].lsn <= Pos
  BY <1>1, ChunkSent
<1>7. m \in Message /\ m.kind = "commit" /\ m.lsn = Pos
  BY <1>1, ReadsAt, BareMessage
<1> HIDE DEF a, m
<1>8. /\ <<m>> \in Seq(Message) /\ Len(<<m>>) = 1 /\ <<m>>[1] = m /\ Framed(<<m>>, FALSE)
  BY <1>7, PlainMessage
<1>9. queue' = queue \o r
  <2>1. queue \in Seq(Message)
    BY <1>0 DEF TypeOK
  <2>2. (queue \o a) \o <<m>> = queue \o (a \o <<m>>)
    BY <1>6, <1>8, <2>1, ConcatAssociative
  <2> QED
    BY <2>2 DEF StreamRest, a, m
<1>10. Framed(r, FALSE) /\ r \in Seq(Message)
  BY <1>6, <1>8, FramedConcat, ConcatParts
<1>11. \A n \in 1 .. Len(r) : r[n].lsn <= Pos
  <2>1. /\ Len(a) \in Nat /\ Len(r) = Len(a) + Len(<<m>>)
        /\ \A n \in 1 .. Len(a) : r[n] = a[n]
        /\ \A n \in 1 .. Len(<<m>>) : r[Len(a) + n] = <<m>>[n]
    BY <1>6, <1>8, ConcatParts
  <2> HIDE DEF r
  <2>2. r[Len(a) + 1] = m /\ Len(r) = Len(a) + 1
    BY <1>8, <2>1
  <2>3. \A n \in 1 .. Len(r) : n \in 1 .. Len(a) \/ n = Len(a) + 1
    BY <2>1, <2>2
  <2>4. Pos <= Pos
    BY <1>1, ReadsAt
  <2> QED
    BY <1>6, <1>7, <2>1, <2>2, <2>3, <2>4
<1> HIDE DEF r
<1> QED
  BY <1>1, <1>2, <1>4, <1>5, <1>9, <1>10, <1>11, SendKeeps

LEMMA ReadAbortKeeps ==
  ASSUME ReaderInv, NEW t \in Txs, ReadAbort(t) PROVE ReaderInv'
<1> DEFINE m == Msg("abort", 0, Pos, FALSE)
<1>0. TypeOK /\ FlushedInv
  BY DEF ReaderInv
<1>1. Reads(t, "abort") /\ "abort" \in Kinds /\ wal' = wal /\ flushed' = flushed
  BY DEF ReadAbort, Reads, Kinds, serverVars
<1>2. TypeOK' /\ FlushedInv'
  BY <1>0, <1>1, TypeWalsender DEF Walsender, FlushedInv
<1>3. Pos \notin WholeCommits
  BY <1>1, ReadsAt DEF WholeCommits
<1>4. CASE queue' = queue
  <2>1. << >> \in Seq(Message) /\ Len(<< >>) = 0 /\ queue' = queue \o << >>
    BY <1>0, <1>4, EmptySeq, ConcatEmptySeq DEF TypeOK
  <2>2. \A n \in 1 .. Len(<< >>) : FALSE
    BY <2>1
  <2>3. Framed(<< >>, FALSE)
    BY <2>1, <2>2, FramedPlain
  <2> QED
    BY <1>1, <1>2, <1>3, <2>1, <2>2, <2>3, SendKeeps
<1>5. CASE queue' = Append(queue, m)
  <2>1. m \in Message /\ m.kind = "abort" /\ m.lsn = Pos
    BY <1>1, ReadsAt, BareMessage
  <2> HIDE DEF m
  <2>2. /\ <<m>> \in Seq(Message) /\ Len(<<m>>) = 1 /\ <<m>>[1] = m /\ Framed(<<m>>, FALSE)
    BY <2>1, PlainMessage
  <2>3. queue' = queue \o <<m>>
    BY <1>0, <1>5, <2>1, AppendIsConcat DEF TypeOK
  <2>4. \A n \in 1 .. Len(<<m>>) : <<m>>[n].lsn <= Pos
    <3>1. \A n \in 1 .. Len(<<m>>) : <<m>>[n] = m
      BY <2>2
    <3>2. Pos <= Pos
      BY <1>1, ReadsAt
    <3> QED
      BY <2>1, <3>1, <3>2
  <2> QED
    BY <1>1, <1>2, <1>3, <2>2, <2>3, <2>4, SendKeeps
<1> QED
  BY <1>4, <1>5 DEF ReadAbort

LEMMA KeepaliveKeeps ==
  ASSUME ReaderInv, Keepalive PROVE ReaderInv'
<1> DEFINE m == Msg("keepalive", 0, decoded, FALSE)
<1>0. TypeOK /\ EndsLast /\ SessionInv /\ FlushedInv /\ FlightInv /\ ReachedInv
  BY DEF ReaderInv
<1>1. /\ wal' = wal /\ slot' = slot /\ confirmed' = confirmed /\ decoded' = decoded
      /\ flushed' = flushed /\ phase' = phase /\ clientLSN' = clientLSN /\ inStream' = inStream
      /\ current' = current /\ refreshed' = refreshed
      /\ phase = "streaming" /\ queue = << >> /\ queue' = <<m>>
  BY DEF Keepalive, serverVars, senderVars, clientVars, engineVars
<1>2. TypeOK'
  BY <1>0, TypeWalsender DEF Walsender
<1>3. EndsLast' /\ ReachedInv' /\ FlushedInv'
  BY <1>0, <1>1 DEF EndsLast, ReachedInv, ReachedTo, Reached, WholeCommits, Changes, RecordsOf, FlushedInv
<1>4. SessionInv'
  BY <1>0, <1>1 DEF SessionInv
<1>5. m \in Message /\ m.kind = "keepalive" /\ m.lsn = decoded /\ decoded \in Nat
  BY <1>0, LenProperties DEF TypeOK, Msg, Message, Positions
<1> HIDE DEF m
<1>6. Framed(<<m>>, FALSE) /\ Len(<<m>>) = 1 /\ <<m>>[1] = m /\ <<m>> \in Seq(Message)
  BY <1>5, PlainMessage
<1>7. ~inStream
  BY <1>0, <1>1 DEF FlightInv, Framed
<1>8. \A p \in WholeCommits : ~(clientLSN < p /\ p <= decoded)
  <2>1. DOMAIN queue = {}
    <3>1. Len(queue) = 0 /\ DOMAIN queue = 1 .. Len(queue)
      BY <1>0, <1>1, EmptySeq, LenProperties DEF TypeOK
    <3> QED
      BY <3>1
  <2> QED
    BY <1>0, <1>1, <2>1 DEF FlightInv, Underway
<1>9. FlightInv'
  <2>1. Framed(queue, inStream)'
    BY <1>1, <1>6, <1>7 DEF Framed, Expects, Leaves
  <2>2. \A n \in DOMAIN queue' : queue'[n].lsn <= decoded'
    <3>1. DOMAIN <<m>> = 1 .. 1
      BY <1>6, LenProperties
    <3> QED
      BY <1>1, <1>5, <1>6, <3>1
  <2>3. WholeCommits' = WholeCommits
    BY <1>1 DEF WholeCommits
  <2> QED
    BY <1>1, <1>8, <2>1, <2>2, <2>3 DEF FlightInv
<1> QED
  BY <1>2, <1>3, <1>4, <1>9 DEF ReaderInv

-----------------------------------------------------------------------------
(* The reader takes a message.                                             *)

LEMMA CommitOf ==
  ASSUME TypeOK, NEW p \in WholeCommits
  PROVE  /\ Committed(wal[p].tx) /\ p \in Nat /\ wal[p].tx \in Txs
         /\ \A i \in Changes(wal[p].tx) : wal[i].tx = wal[p].tx
<1>1. wal \in Seq(Record) /\ DOMAIN wal = 1 .. Len(wal) /\ p \in DOMAIN wal /\ wal[p].kind = "commit"
  BY LenProperties DEF TypeOK, WholeCommits
<1>2. wal[p] \in Record /\ p \in Nat
  BY <1>1
<1>3. wal[p] = [tx |-> wal[p].tx, kind |-> "commit"] /\ wal[p].tx \in Txs
  BY <1>1, <1>2 DEF Record
<1>4. \A i \in Changes(wal[p].tx) : wal[i].tx = wal[p].tx
  BY DEF Changes, RecordsOf
<1> QED
  BY <1>1, <1>2, <1>3, <1>4 DEF Committed, Logged

LEMMA ReceiveKeeps ==
  ASSUME ReaderInv, Receive PROVE ReaderInv'
<1> DEFINE m == queue[1]
           r == Tail(queue)
<1>0. TypeOK /\ EndsLast /\ SessionInv /\ FlushedInv /\ FlightInv /\ ReachedInv
  BY DEF ReaderInv
<1>1. /\ wal' = wal /\ slot' = slot /\ confirmed' = confirmed /\ decoded' = decoded
      /\ flushed' = flushed /\ phase' = phase /\ refreshed' = refreshed
      /\ phase = "streaming" /\ queue # << >> /\ queue' = r
  BY DEF Receive, serverVars, senderVars
<1>2. TypeOK'
  BY <1>0, TypeProcess DEF StreamLoop
<1>3. /\ queue \in Seq(Message) /\ Head(queue) = m /\ m \in Message
      /\ Len(queue) \in Nat /\ Len(queue) >= 1 /\ DOMAIN queue = 1 .. Len(queue)
      /\ r \in Seq(Message) /\ Len(r) = Len(queue) - 1 /\ DOMAIN r = 1 .. Len(r)
      /\ \A n \in 1 .. Len(r) : n + 1 \in 1 .. Len(queue) /\ r[n] = queue[n + 1]
  <2>1. queue \in Seq(Message)
    BY <1>0 DEF TypeOK
  <2> QED
    BY <1>1, <2>1, HeadTailProperties, LenProperties, EmptySeq
<1>4. /\ inStream' = InStreamAfter(m) /\ clientLSN' = Advance(m)
      /\ current' = current \cup {i \in Events(m) : Committed(wal[i].tx)}
  BY <1>3 DEF Receive
<1>5. /\ clientLSN \in Nat /\ decoded \in Nat /\ confirmed \in Nat /\ m.lsn \in Nat
      /\ m.lsn <= decoded /\ clientLSN <= decoded /\ inStream \in BOOLEAN
  <2>1. m.lsn <= decoded
    <3>1. 1 \in DOMAIN queue
      BY <1>3
    <3> QED
      BY <1>0, <1>1, <3>1 DEF FlightInv
  <2> QED
    BY <1>0, <1>1, <1>3, <2>1 DEF TypeOK, Positions, SessionInv, Message
<1>6. clientLSN <= clientLSN' /\ m.lsn <= clientLSN' /\ clientLSN' \in {clientLSN, m.lsn}
  BY <1>4, <1>5 DEF Advance
<1>7. /\ Framed(queue, inStream) /\ (Expects(m) <=> inStream)
  BY <1>0, <1>1 DEF FlightInv, Framed
<1>8. inStream' <=> Leaves(m)
  BY <1>4, <1>7 DEF InStreamAfter, Expects, Leaves
<1>9. WholeCommits' = WholeCommits /\ current \subseteq current'
  BY <1>1, <1>4 DEF WholeCommits
(* A plain change of a committed transaction is handled.                   *)
<1>10. ASSUME NEW p \in WholeCommits, NEW i \in Changes(wal[p].tx), m = Msg("change", i, i - 1, FALSE)
       PROVE  i \in current'
  <2>1. ~inStream
    BY <1>7, <1>10 DEF Expects, Msg
  <2>2. Events(m) = {i}
    <3>1. inStream = FALSE
      BY <1>5, <2>1
    <3>2. m.kind = "change" /\ m.framed = FALSE /\ m.at = i
      BY <1>10 DEF Msg
    <3> HIDE DEF m
    <3> QED
      BY <3>1, <3>2 DEF Events
  <2>3. Committed(wal[i].tx)
    BY <1>0, CommitOf
  <2> QED
    BY <1>4, <2>2, <2>3
(* The commit the position is moved past is the head, and all its changes  *)
(* came before.                                                            *)
<1>11. ASSUME NEW p \in WholeCommits, clientLSN < p, p <= clientLSN'
       PROVE  Changes(wal[p].tx) \subseteq current
  <2>1. p <= m.lsn /\ p <= decoded /\ p \in Nat
    BY <1>0, <1>5, <1>6, <1>11, CommitOf
  <2>2. PICK k \in 1 .. Len(queue) : BehindAt(queue, p, k)
    BY <1>0, <1>1, <1>3, <1>11, <2>1 DEF FlightInv, Underway
  <2>3. k = 1
    <3>1. 1 \notin 1 .. k - 1
      BY <1>5, <2>1, <2>2 DEF BehindAt
    <3> QED
      BY <3>1
  <2> QED
    BY <2>2, <2>3 DEF BehindAt
<1>12. ASSUME NEW p \in WholeCommits, clientLSN' < p, p <= decoded
       PROVE  \E k \in 1 .. Len(r) :
                /\ r[k].lsn = p
                /\ \A j \in 1 .. k - 1 : r[j].lsn < p
                /\ \A i \in Changes(wal[p].tx) \ current' :
                     \E j \in 1 .. k - 1 : r[j] = Msg("change", i, i - 1, FALSE)
  <2>1. clientLSN < p /\ p \in Nat
    BY <1>0, <1>5, <1>6, <1>12, CommitOf
  <2>2. PICK k \in 1 .. Len(queue) : BehindAt(queue, p, k)
    BY <1>0, <1>1, <1>3, <1>12, <2>1 DEF FlightInv, Underway
  <2>3. k # 1
    BY <1>5, <1>6, <1>12, <2>1, <2>2 DEF BehindAt
  <2>4. k - 1 \in 1 .. Len(r) /\ k \in Nat /\ (k - 1) + 1 = k
    BY <1>3, <2>3
  <2>5. r[k - 1].lsn = p
    BY <1>3, <2>2, <2>4 DEF BehindAt
  <2>6. ASSUME NEW j \in 1 .. (k - 1) - 1 PROVE r[j] = queue[j + 1] /\ j + 1 \in 1 .. k - 1
    <3>1. j \in 1 .. Len(r) /\ j + 1 \in 1 .. k - 1
      BY <2>4
    <3> QED
      BY <1>3, <3>1
  <2>7. \A j \in 1 .. (k - 1) - 1 : r[j].lsn < p
    BY <2>2, <2>6 DEF BehindAt
  <2>8. ASSUME NEW i \in Changes(wal[p].tx) \ current'
        PROVE  \E j \in 1 .. (k - 1) - 1 : r[j] = Msg("change", i, i - 1, FALSE)
    <3>1. i \in Changes(wal[p].tx) \ current
      BY <1>9, <2>8
    <3>2. PICK j \in 1 .. k - 1 : queue[j] = Msg("change", i, i - 1, FALSE)
      BY <2>2, <3>1 DEF BehindAt
    <3>3. j # 1
      BY <1>10, <2>8, <3>2
    <3>4. j - 1 \in 1 .. (k - 1) - 1 /\ (j - 1) + 1 = j
      BY <2>4, <3>3
    <3>5. r[j - 1] = queue[j]
      BY <2>6, <3>4
    <3> QED
      BY <3>2, <3>4, <3>5
  <2> QED
    BY <2>4, <2>5, <2>7, <2>8
<1>13. \A p \in WholeCommits : Reached(p) => Reached(p)'
  <2>1. \A t : Changes(t)' = Changes(t)
    BY <1>1 DEF Changes, RecordsOf
  <2>2. \A p : Changes(wal[p].tx)' = Changes(wal[p].tx)
    BY <1>1, <2>1
  <2> QED
    BY <1>1, <1>9, <2>2 DEF Reached
<1>14. ReachedInv'
  <2>1. ReachedTo(confirmed)'
    BY <1>0, <1>1, <1>9, <1>13 DEF ReachedInv, ReachedTo
  <2>2. ASSUME NEW p \in WholeCommits, p <= clientLSN' PROVE Reached(p)'
    <3>1. CASE p <= clientLSN
      BY <1>0, <1>1, <1>13, <3>1 DEF ReachedInv, ReachedTo
    <3>2. CASE clientLSN < p
      BY <1>11, <1>13, <2>2, <3>2 DEF Reached
    <3> QED
      BY <1>0, <1>5, <3>1, <3>2, CommitOf
  <2> QED
    BY <1>1, <1>9, <2>1, <2>2 DEF ReachedInv, ReachedTo
<1> HIDE DEF r
<1>15. Framed(queue, inStream)'
  <2>1. Framed(r, Leaves(m))
    BY <1>1, <1>3, <1>7, FramedTail DEF r
  <2> HIDE DEF m
  <2> QED
    BY <1>1, <1>8, <2>1 DEF Framed, Expects, Leaves
<1>16. \A n \in DOMAIN queue' : queue'[n].lsn <= decoded'
  <2>1. \A n \in 1 .. Len(r) : r[n].lsn <= decoded
    BY <1>0, <1>1, <1>3 DEF FlightInv
  <2> QED
    BY <1>1, <1>3, <2>1
<1>17. ASSUME NEW p \in WholeCommits, clientLSN' < p, p <= decoded PROVE Underway(p)'
  <2>1. PICK k \in 1 .. Len(r) :
          /\ r[k].lsn = p
          /\ \A j \in 1 .. k - 1 : r[j].lsn < p
          /\ \A i \in Changes(wal[p].tx) \ current' :
               \E j \in 1 .. k - 1 : r[j] = Msg("change", i, i - 1, FALSE)
    BY <1>12, <1>17
  <2>2. \A t : Changes(t)' = Changes(t)
    BY <1>1 DEF Changes, RecordsOf
  <2>3. Changes(wal[p].tx)' = Changes(wal[p].tx)
    BY <1>1, <2>2
  <2>4. BehindAt(queue, p, k)'
    BY <1>1, <2>1, <2>3 DEF BehindAt, Msg
  <2> QED
    BY <1>1, <1>3, <2>1, <2>4 DEF Underway
<1>18. FlightInv'
  BY <1>1, <1>9, <1>15, <1>16, <1>17 DEF FlightInv
<1>19. EndsLast' /\ FlushedInv'
  BY <1>0, <1>1 DEF EndsLast, FlushedInv
<1>20. SessionInv'
  BY <1>0, <1>1, <1>5, <1>6 DEF SessionInv
<1> QED
  BY <1>2, <1>14, <1>18, <1>19, <1>20 DEF ReaderInv

-----------------------------------------------------------------------------
(* The rest of the process.                                                *)

(* Nothing of what these steps leave alone can break.                      *)
LEMMA LogStays ==
  ASSUME wal' = wal
  PROVE  /\ EndsLast => EndsLast'
         /\ WholeCommits' = WholeCommits
         /\ \A t : Changes(t)' = Changes(t)
         /\ \A p : Changes(wal[p].tx)' = Changes(wal[p].tx)
<1>1. \A t : Changes(t)' = Changes(t)
  BY DEF Changes, RecordsOf
<1>2. \A p : Changes(wal[p].tx)' = Changes(wal[p].tx)
  BY <1>1
<1> QED
  BY <1>1, <1>2 DEF EndsLast, WholeCommits

LEMMA ReachedStays ==
  ASSUME wal' = wal, refreshed' = refreshed, current' = current
  PROVE  \A lsn : ReachedTo(lsn) => ReachedTo(lsn)'
BY LogStays DEF ReachedTo, Reached

LEMMA FlightStays ==
  ASSUME wal' = wal, queue' = queue, inStream' = inStream, current' = current,
         clientLSN' = clientLSN, decoded' = decoded, phase' = phase, FlightInv
  PROVE  FlightInv'
<1>1. \A p, k : BehindAt(queue, p, k) => BehindAt(queue, p, k)'
  BY LogStays DEF BehindAt, Msg
<1>2. \A p : Underway(p) => Underway(p)'
  BY <1>1 DEF Underway
<1>3. Framed(queue, inStream) => Framed(queue, inStream)'
  BY DEF Framed, Expects, Leaves
<1> QED
  BY <1>2, <1>3, LogStays DEF FlightInv

LEMMA SetupKeeps ==
  ASSUME ReaderInv, Setup PROVE ReaderInv'
<1>0. TypeOK /\ EndsLast /\ SessionInv /\ FlushedInv /\ FlightInv /\ ReachedInv
  BY DEF ReaderInv
<1>1. TypeOK' /\ wal' = wal
  BY <1>0, TypeProcess
  DEF Setup, StartupPoll, Connect, EnsureReplicationSlot, StartReplication, serverVars
<1>2. EndsLast'
  BY <1>0, <1>1, LogStays
<1>3. CASE StartupPoll
  <2>1. FlushedInv' /\ SessionInv' /\ FlightInv'
    BY <1>0, <1>3
    DEF StartupPoll, FlushedInv, SessionInv, FlightInv, serverVars, senderVars, clientVars
  <2>2. \A p \in WholeCommits : p <= Len(wal)
    BY <1>0, LenProperties DEF WholeCommits, TypeOK
  <2>3. ReachedTo(confirmed)'
    BY <1>1, <1>3, <2>2, LogStays DEF ReachedTo, Reached, StartupPoll
  <2> QED
    BY <1>1, <1>2, <1>3, <2>1, <2>3 DEF ReaderInv, ReachedInv, StartupPoll
<1>4. CASE Connect
  <2>1. FlushedInv' /\ SessionInv' /\ FlightInv'
    BY <1>0, <1>4 DEF Connect, FlushedInv, SessionInv, FlightInv, serverVars, senderVars
  <2>2. ReachedInv'
    BY <1>0, <1>4, ReachedStays DEF Connect, ReachedInv, serverVars, engineVars
  <2> QED
    BY <1>1, <1>2, <2>1, <2>2 DEF ReaderInv
<1>5. CASE EnsureReplicationSlot
  <2>1. confirmed' = confirmed
    BY <1>0, <1>5 DEF EnsureReplicationSlot, SessionInv
  <2>2. FlushedInv' /\ SessionInv' /\ FlightInv'
    BY <1>0, <1>5 DEF EnsureReplicationSlot, FlushedInv, SessionInv, FlightInv, senderVars
  <2>3. ReachedTo(confirmed)'
    BY <1>0, <1>5, <2>1, ReachedStays DEF EnsureReplicationSlot, ReachedInv, engineVars
  <2> QED
    BY <1>1, <1>2, <1>5, <2>2, <2>3 DEF ReaderInv, ReachedInv, EnsureReplicationSlot
<1>6. CASE StartReplication
  <2>1. FlushedInv' /\ SessionInv'
    BY <1>0, <1>6
    DEF StartReplication, FlushedInv, SessionInv, TypeOK, Positions, serverVars, clientVars
  <2>2. FlightInv'
    <3>1. queue' = << >> /\ ~inStream'
      BY <1>0, <1>6 DEF StartReplication, SessionInv, clientVars
    <3>2. \A inside : ~inside => Framed(<< >>, inside)
      <4>1. \A n \in 1 .. Len(<< >>) - 1 : FALSE
        <5>1. Len(<< >>) = 0
          BY EmptySeq
        <5> QED
          BY <5>1
      <4> QED
        BY <4>1 DEF Framed
    <3>3. DOMAIN << >> = {}
      OBVIOUS
    <3>4. clientLSN' = clientLSN /\ decoded' = clientLSN /\ clientLSN \in Nat
      BY <1>0, <1>6 DEF StartReplication, clientVars, TypeOK, Positions
    <3>5. \A p \in WholeCommits' : ~(clientLSN' < p /\ p <= decoded')
      BY <1>0, <1>1, <3>4, LogStays, CommitOf
    <3>6. Framed(queue, inStream)'
      BY <3>1, <3>2 DEF Framed, Expects, Leaves
    <3>7. \A n \in DOMAIN queue' : queue'[n].lsn <= decoded'
      BY <3>1, <3>3
    <3> QED
      BY <3>5, <3>6, <3>7 DEF FlightInv
  <2>3. ReachedInv'
    BY <1>0, <1>6, ReachedStays
    DEF StartReplication, SessionInv, ReachedInv, serverVars, clientVars, engineVars
  <2> QED
    BY <1>1, <1>2, <2>1, <2>2, <2>3 DEF ReaderInv
<1> QED
  BY <1>3, <1>4, <1>5, <1>6 DEF Setup

LEMMA SendStandbyStatusKeeps ==
  ASSUME ReaderInv, SendStandbyStatus PROVE ReaderInv'
<1>0. TypeOK /\ EndsLast /\ SessionInv /\ FlushedInv /\ FlightInv /\ ReachedInv
  BY DEF ReaderInv
<1>1. /\ wal' = wal /\ slot' = slot /\ decoded' = decoded /\ flushed' = flushed
      /\ queue' = queue /\ phase' = phase /\ clientLSN' = clientLSN /\ inStream' = inStream
      /\ current' = current /\ refreshed' = refreshed
      /\ phase = "streaming" /\ confirmed' = clientLSN
  BY DEF SendStandbyStatus, senderVars, clientVars, engineVars
<1>2. TypeOK' /\ EndsLast' /\ FlushedInv' /\ SessionInv'
  BY <1>0, <1>1, TypeProcess, LogStays DEF StreamLoop, FlushedInv, SessionInv
<1>3. FlightInv'
  BY <1>0, <1>1, FlightStays
<1>4. ReachedInv'
  BY <1>0, <1>1, ReachedStays DEF ReachedInv
<1> QED
  BY <1>2, <1>3, <1>4 DEF ReaderInv

LEMMA FaultKeeps ==
  ASSUME ReaderInv, Fault PROVE ReaderInv'
<1>0. TypeOK /\ EndsLast /\ SessionInv /\ FlushedInv /\ FlightInv /\ ReachedInv
  BY DEF ReaderInv
<1>1. /\ wal' = wal /\ slot' = slot /\ confirmed' = confirmed /\ flushed' = {}
      /\ queue' = << >> /\ phase' \in {"down", "boot"}
  BY DEF Fault, Disconnect, Crash, NoSession, serverVars
<1>2. TypeOK' /\ EndsLast'
  BY <1>0, <1>1, TypeProcess, LogStays
<1>3. FlushedInv' /\ SessionInv' /\ FlightInv'
  BY <1>0, <1>1 DEF FlushedInv, SessionInv, FlightInv
<1>4. ReachedInv'
  <2>1. CASE phase' = "boot"
    BY <2>1 DEF ReachedInv
  <2>2. CASE Disconnect
    BY <1>0, <1>1, <2>2, ReachedStays DEF Disconnect, ReachedInv, engineVars
  <2> QED
    BY <2>1, <2>2 DEF Fault, Crash
<1> QED
  BY <1>2, <1>3, <1>4 DEF ReaderInv

-----------------------------------------------------------------------------
LEMMA ReaderInvInit == SlotAtStart /\ Init => ReaderInv
<1> SUFFICES ASSUME SlotAtStart, Init PROVE ReaderInv
  OBVIOUS
<1>1. DOMAIN wal = {}
  BY DEF Init
<1>2. EndsLast /\ SessionInv /\ FlushedInv /\ FlightInv /\ ReachedInv
  BY <1>1 DEF Init, EndsLast, SessionInv, FlushedInv, FlightInv, ReachedInv
<1> QED
  BY <1>2, TypeInit DEF ReaderInv

(* A fault of which the reader sees nothing, or no step at all.            *)
LEMMA IdleKeeps ==
  ASSUME ReaderInv, faults' \in 0 .. MaxFaults,
         UNCHANGED <<serverVars, senderVars, queue, phase, clientVars, engineVars>>
  PROVE  ReaderInv'
<1> USE DEF serverVars, senderVars, clientVars, engineVars, ReaderInv
<1>1. TypeOK'
  BY DEF TypeOK, Positions, Message
<1>2. FlightInv'
  BY FlightStays
<1>3. ReachedInv'
  BY ReachedStays DEF ReachedInv
<1> QED
  BY <1>1, <1>2, <1>3, LogStays DEF SessionInv, FlushedInv

LEMMA ReaderInvNext == ReaderInv /\ [Next]_vars => ReaderInv'
<1> SUFFICES ASSUME ReaderInv, [Next]_vars PROVE ReaderInv'
  OBVIOUS
<1>1. CASE Database
  <2>1. PICK t \in Txs : ChangeRow(t) \/ End(t)
    BY <1>1 DEF Database
  <2>2. \E kind \in Kinds : Log(t, kind)
    BY <2>1 DEF ChangeRow, End, Kinds
  <2> QED
    BY <2>2, LogKeeps
<1>2. CASE Walsender
  BY <1>2, ReadChangeKeeps, SendWholeKeeps, StreamRestKeeps, ReadAbortKeeps, KeepaliveKeeps
  DEF Walsender
<1>3. CASE StreamLoop
  BY <1>3, ReceiveKeeps, SendStandbyStatusKeeps DEF StreamLoop
<1>4. CASE UNCHANGED vars
  BY <1>4, IdleKeeps DEF vars, ReaderInv, TypeOK
<1> QED
  BY <1>1, <1>2, <1>3, <1>4, SetupKeeps, FaultKeeps DEF Next

(* A transaction sent as a whole is covered once its commit is reached.    *)
LEMMA ReachedIsCovered ==
  ASSUME ReaderInv, NEW t \in Txs \ Streamed, NEW lsn, ReachedTo(lsn),
         Committed(t), CommitLSN(t) <= lsn
  PROVE  Covered(t)
<1> DEFINE p == CommitLSN(t)
<1>1. p \in RecordsOf(t, "commit") /\ p <= lsn
  BY DEF Committed, Logged, CommitLSN, RecordsOf
<1> HIDE DEF p
<1>2. p \in WholeCommits /\ wal[p].tx = t
  BY <1>1, RecordsOfType DEF WholeCommits, ReaderInv, TypeOK
<1>3. Reached(p)
  BY <1>1, <1>2 DEF ReachedTo
<1> QED
  BY <1>2, <1>3 DEF Reached, Covered, p

LEMMA ReaderInvSafe == ReaderInv => AckedIsCovered
BY ReachedIsCovered DEF ReaderInv, ReachedInv, AckedIsCovered, Acked

(***************************************************************************)
(* What the slot will not send again has reached the engine, for any       *)
(* number of transactions interleaved in any way, however often the        *)
(* connection or the process dies (reader.go:625-633, agent.go:159-164):   *)
(* of every transaction that is sent at its commit, when the slot exists   *)
(* before the agent first starts.                                          *)
(***************************************************************************)
THEOREM AckedIsCoveredHolds == ASSUME SlotAtStart PROVE Spec => []AckedIsCovered
BY ReaderInvInit, ReaderInvNext, ReaderInvSafe, PTL DEF Spec

(***************************************************************************)
(* Where the server streams no transaction before its commit and the agent *)
(* starts with its slot, every acknowledged change counts: the two things  *)
(* assumed are the only ones that stand between the code and the promise   *)
(* of README.md:8-9 (decoder.go:134-141, agent.go:72-102).                 *)
(***************************************************************************)
THEOREM EveryChangeCountsUnstreamed ==
  ASSUME SlotAtStart, Streamed = {} PROVE Spec => []EveryChangeCounts
<1>1. AckedIsCovered => EveryChangeCounts
  BY DEF AckedIsCovered, EveryChangeCounts
<1> QED
  BY <1>1, AckedIsCoveredHolds, PTL
=============================================================================
