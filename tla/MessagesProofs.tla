---------------------------- MODULE MessagesProofs ----------------------------
(***************************************************************************)
(* Theorems about MessagesRoute, for every answer, cut, resend and call:   *)
(* each of the three handlers ends once and with the outcome its client is *)
(* told (EndInv), the events of a streamed message are those of the        *)
(* Anthropic API (MessageInv), and a client gets the calls of the answer   *)
(* (CallsInv) or is told that one is rejected (TellInv), if the answer is  *)
(* one the handlers can tell from resends of it (Calm).                    *)
(***************************************************************************)
EXTENDS MessagesRoute, CommonLemmas

-----------------------------------------------------------------------------
(* Sequences of events *)

\* FlattenSeq of triples.
LEMMA Triples ==
  ASSUME NEW S, NEW q
  PROVE  q \in Seq(Seq(S)) /\ (\A i \in 1..Len(q) : Len(q[i]) = 3) =>
           /\ FlattenSeq(q) \in Seq(S)
           /\ Len(FlattenSeq(q)) = 3 * Len(q)
           /\ \A k \in 1..Len(q), j \in 1..3 : FlattenSeq(q)[3 * (k - 1) + j] = q[k][j]
  <1> DEFINE n == Len(q)
             v == FlattenSeq(q)
  <1>1. SUFFICES ASSUME q \in Seq(Seq(S)), \A i \in 1..n : Len(q[i]) = 3
                 PROVE  /\ v \in Seq(S) /\ Len(v) = 3 * n
                        /\ \A k \in 1..n, j \in 1..3 : v[3 * (k - 1) + j] = q[k][j]
    OBVIOUS
  <1>2. n \in Nat /\ q \in [1..n -> Seq(S)]
    BY <1>1, ElementOfSeq, LenProperties
  <1>3. v \in Seq(S) /\ \E b : Flat(q, n, v, b)
    <2> HIDE DEF n
    <2>1. QED
      BY <1>2, Flattens
  <1> HIDE DEF n, v
  <1>4. PICK b : Flat(q, n, v, b)
    BY <1>3
  <1> DEFINE T == {i \in 0..n : b[i] = 3 * i}
  <1>5. 0 \in T
    BY <1>2, <1>4 DEF Flat, Growing
  <1>6. ASSUME NEW i \in 0..n - 1, i \in T PROVE i + 1 \in T
    <2>1. i + 1 \in 1..n /\ (i + 1) - 1 = i /\ i + 1 \in 0..n /\ i \in Nat
      BY <1>2
    <2>2. b[i + 1] = b[i] + 3 /\ b[i] = 3 * i
      BY <1>1, <1>4, <1>6, <2>1 DEF Flat
    <2>3. QED
      BY <2>1, <2>2
  <1>7. 0..n \subseteq T
    <2> HIDE DEF T
    <2>1. QED
      BY <1>2, <1>5, <1>6, InductionUpTo
  <1>8. Len(v) = 3 * n
    BY <1>2, <1>4, <1>7 DEF Flat
  <1>9. ASSUME NEW k \in 1..n, NEW j \in 1..3 PROVE v[3 * (k - 1) + j] = q[k][j]
    <2>1. k - 1 \in 0..n /\ b[k - 1] = 3 * (k - 1)
      BY <1>2, <1>7
    <2>2. j \in 1..Len(q[k])
      BY <1>1
    <2>3. v[b[k - 1] + j] = q[k][j]
      BY <1>4, <2>2 DEF Flat
    <2>4. QED
      BY <2>1, <2>3
  <1>10. QED
    BY <1>3, <1>8, <1>9

\* The places at which an increasing sequence is below its i-th value.
LEMMA Numbered ==
  ASSUME NEW m \in Nat, NEW s \in [0..m - 1 -> Nat],
         \A i, j \in 0..m - 1 : i < j => s[i] < s[j],
         NEW i \in 0..m - 1
  PROVE  Cardinality({x \in {s[j] : j \in 0..m - 1} : x < s[i]}) = i
  <1> DEFINE B == {x \in {s[j] : j \in 0..m - 1} : x < s[i]}
             f == [j \in 0..i - 1 |-> s[j]]
  <1>1. i \in Nat /\ \A j \in 0..i - 1 : j \in 0..m - 1 /\ j < i
    OBVIOUS
  <1>2. \A j \in 0..m - 1 : s[j] < s[i] <=> j < i
    BY <1>1
  <1>3. f \in Bijection(0..i - 1, B)
    <2>1. \A j \in 0..i - 1 : f[j] \in B
      BY <1>1, <1>2
    <2>2. \A j, k \in 0..i - 1 : f[j] = f[k] => j = k
      BY <1>1
    <2>3. \A x \in B : \E j \in 0..i - 1 : f[j] = x
      BY <1>1, <1>2
    <2>4. QED
      BY <2>1, <2>2, <2>3 DEF Bijection, Injection, Surjection, IsInjective
  <1>4. IsFiniteSet(0..i - 1) /\ Cardinality(0..i - 1) = i
    <2>1. 0 \in Int /\ i - 1 \in Int
      BY <1>1
    <2>2. /\ IsFiniteSet(0..i - 1)
          /\ Cardinality(0..i - 1) = IF 0 > i - 1 THEN 0 ELSE (i - 1) - 0 + 1
      BY <2>1, FS_Interval
    <2>3. QED
      BY <1>1, <2>2
  <1>5. ExistsBijection(0..i - 1, B)
    BY <1>3 DEF ExistsBijection
  <1> HIDE DEF B
  <1>6. Cardinality(B) = i
    BY <1>4, <1>5, FS_Bijection
  <1>7. QED
    BY <1>6 DEF B

LEMMA Thirds == \A t \in Nat : \E c \in Nat, r \in 0..2 : t = 3 * c + r
  <1> DEFINE S == {t \in Nat : \E c \in Nat, r \in 0..2 : t = 3 * c + r}
  <1>1. 0 \in S
    BY 0 = 3 * 0 + 0
  <1>2. ASSUME NEW t \in S PROVE t + 1 \in S
    <2>1. PICK c \in Nat, r \in 0..2 : t = 3 * c + r
      OBVIOUS
    <2>2. CASE r = 2
      <3>1. c + 1 \in Nat /\ t + 1 = 3 * (c + 1) + 0
        BY <2>1, <2>2
      <3>2. \E d \in Nat, u \in 0..2 : t + 1 = 3 * d + u
        BY <3>1, 0 \in 0..2
      <3>3. QED
        BY <3>2
    <2>3. CASE r # 2
      <3>1. r + 1 \in 0..2 /\ t + 1 = 3 * c + (r + 1)
        BY <2>1, <2>3
      <3>2. QED
        BY <3>1
    <2>4. QED
      BY <2>2, <2>3
  <1> HIDE DEF S
  <1>3. S = Nat
    <2>1. S \in SUBSET Nat
      BY DEF S
    <2>2. QED
      BY <1>1, <1>2, <2>1, Induction
  <1>4. QED
    BY <1>3 DEF S

\* The events v of a message that ends: those so far, the end of a block, the tool
\* blocks, and two events more.
Layout(v, S, w, x, q, y, z) ==
    LET n == Len(q)
        p == Len(w) + 1
    IN  /\ v \in Seq(S) /\ Len(v) = p + 3 * n + 2
        /\ \A i \in 1..Len(w) : v[i] = w[i]
        /\ v[p] = x
        /\ \A k \in 1..n, j \in 1..3 : v[p + 3 * (k - 1) + j] = q[k][j]
        /\ v[p + 3 * n + 1] = y /\ v[p + 3 * n + 2] = z
        /\ \A i \in p + 1..p + 3 * n : \E k \in 1..n, j \in 1..3 : i = p + 3 * (k - 1) + j

LEMMA EndEvents ==
  ASSUME NEW S, NEW w, NEW x, NEW q, NEW y, NEW z
  PROVE  w \in Seq(S) /\ x \in S /\ y \in S /\ z \in S
           /\ q \in Seq(Seq(S)) /\ (\A i \in 1..Len(q) : Len(q[i]) = 3) =>
         Layout(((w \o <<x>>) \o FlattenSeq(q)) \o <<y, z>>, S, w, x, q, y, z)
  <1> DEFINE n == Len(q)
             p == Len(w) + 1
             f == FlattenSeq(q)
             a == w \o <<x>>
             b == a \o f
             v == b \o <<y, z>>
  <1>1. SUFFICES ASSUME w \in Seq(S), x \in S, y \in S, z \in S,
                        q \in Seq(Seq(S)), \A i \in 1..Len(q) : Len(q[i]) = 3
                 PROVE  Layout(v, S, w, x, q, y, z)
    OBVIOUS
  <1>2. Len(w) \in Nat /\ n \in Nat /\ p \in Nat /\ p = Len(w) + 1
    BY <1>1, LenProperties
  <1>3. /\ f \in Seq(S) /\ Len(f) = 3 * n
        /\ \A k \in 1..n, j \in 1..3 : f[3 * (k - 1) + j] = q[k][j]
    BY <1>1, Triples
  <1>4. /\ a \in Seq(S) /\ Len(a) = p
        /\ \A i \in 1..Len(w) : a[i] = w[i]
        /\ a[p] = x
    <2>1. <<x>> \in Seq(S) /\ Len(<<x>>) = 1 /\ <<x>>[1] = x
      BY <1>1
    <2>2. /\ a \in Seq(S) /\ Len(a) = Len(w) + 1
          /\ \A i \in 1..Len(w) + 1 : a[i] = IF i <= Len(w) THEN w[i] ELSE <<x>>[i - Len(w)]
      BY <1>1, <2>1, ConcatProperties
    <2> HIDE DEF a
    <2>3. QED
      BY <1>2, <2>1, <2>2
  <1> HIDE DEF a, f, n, p
  <1>5. /\ b \in Seq(S) /\ Len(b) = p + 3 * n
        /\ \A i \in 1..p : b[i] = a[i]
        /\ \A i \in 1..3 * n : b[p + i] = f[i]
    <2>1. /\ b \in Seq(S) /\ Len(b) = p + 3 * n
          /\ \A i \in 1..p + 3 * n : b[i] = IF i <= p THEN a[i] ELSE f[i - p]
      <3>1. /\ b \in Seq(S) /\ Len(b) = Len(a) + Len(f)
            /\ \A i \in 1..Len(a) + Len(f) : b[i] = IF i <= Len(a) THEN a[i] ELSE f[i - Len(a)]
        BY <1>3, <1>4, ConcatProperties
      <3> HIDE DEF b
      <3>2. Len(a) = p /\ Len(f) = 3 * n
        BY <1>3, <1>4
      <3>3. QED
        BY <3>1, <3>2
    <2> HIDE DEF b
    <2>2. QED
      BY <1>2, <2>1
  <1> HIDE DEF b
  <1>6. /\ v \in Seq(S) /\ Len(v) = p + 3 * n + 2
        /\ \A i \in 1..p + 3 * n : v[i] = b[i]
        /\ v[p + 3 * n + 1] = y /\ v[p + 3 * n + 2] = z
    <2>1. <<y, z>> \in Seq(S) /\ Len(<<y, z>>) = 2 /\ <<y, z>>[1] = y /\ <<y, z>>[2] = z
      BY <1>1
    <2>2. /\ v \in Seq(S) /\ Len(v) = p + 3 * n + 2
          /\ \A i \in 1..p + 3 * n + 2 :
               v[i] = IF i <= p + 3 * n THEN b[i] ELSE <<y, z>>[i - (p + 3 * n)]
      BY <1>5, <2>1, ConcatProperties
    <2> HIDE DEF v
    <2>3. QED
      BY <1>2, <2>1, <2>2
  <1> HIDE DEF v
  <1>7. \A i \in 1..Len(w) : v[i] = w[i]
    BY <1>2, <1>4, <1>5, <1>6
  <1>8. v[p] = x
    BY <1>2, <1>4, <1>5, <1>6
  <1>9. ASSUME NEW k \in 1..n, NEW j \in 1..3
        PROVE  v[p + 3 * (k - 1) + j] = q[k][j]
    <2> DEFINE t == 3 * (k - 1) + j
    <2>1. t \in 1..3 * n /\ p + t \in 1..p + 3 * n /\ p + 3 * (k - 1) + j = p + t
      BY <1>2
    <2>2. f[t] = q[k][j]
      BY <1>3
    <2> HIDE DEF t
    <2>3. QED
      BY <1>5, <1>6, <2>1, <2>2
  <1>10. ASSUME NEW i \in p + 1..p + 3 * n
         PROVE  \E k \in 1..n, j \in 1..3 : i = p + 3 * (k - 1) + j
    <2> DEFINE t == i - p - 1
    <2>1. t \in 0..3 * n - 1
      BY <1>2
    <2>2. PICK c \in Nat, r \in 0..2 : t = 3 * c + r
      <3>1. t \in Nat
        BY <2>1
      <3> HIDE DEF t
      <3>2. QED
        BY <3>1, Thirds
    <2>3. c + 1 \in 1..n /\ r + 1 \in 1..3 /\ i = p + 3 * ((c + 1) - 1) + (r + 1)
      BY <1>2, <2>1, <2>2
    <2>4. QED
      BY <2>3
  <1>11. QED
    BY <1>6, <1>7, <1>8, <1>9, <1>10 DEF Layout, n, p

-----------------------------------------------------------------------------
(* Types, and how a handler ends *)

EventKinds == {"message_start", "block_start", "delta", "block_stop", "message_delta",
               "message_stop", "error", "[DONE]"}
Data == Seq(STRING) \cup {<<"thinking">>, <<"text">>, <<"tool_use">>, <<"thought">>, <<"end_turn">>}
EventSet == [kind : EventKinds, index : Nat, data : Data]

\* The part of the types that the theorems need.
MessageTypes ==
    /\ text \in Texts /\ sent \in 0..Len(text)
    /\ thoughts \in {"none", "first", "late"}
    /\ locals \in Seq(LocalCalls)
    /\ route \in {"chat", "messages", "stream"}
    /\ over \in BOOLEAN /\ success \in BOOLEAN
    /\ log \in [failed : BOOLEAN, finalized : 0..2]
    /\ ms \in [started : BOOLEAN, thinking : BOOLEAN, text : BOOLEAN,
               index : Nat, full : Seq(STRING)]
    /\ written \in Seq(EventSet)

NoError == \A i \in 1..Len(written) : written[i].kind # "error"

\* While a handler reads, its client has been told of no end; afterwards the
\* outcome of the release is the one it was told.
EndInv ==
    /\ MessageTypes
    /\ released = IF over THEN 1 ELSE 0
    /\ Streaming => response.kind = "none"
    /\ ~Streaming => written = <<>>
    /\ ~over => /\ response.kind = "none" /\ NoError
                /\ log.finalized = 0 /\ ~success
    /\ over => /\ log.finalized >= 1
               /\ log.finalized = 2 => response.kind = "rejected"
               /\ success <=> (response.kind # "timeout" /\ NoError)

-----------------------------------------------------------------------------

LEMMA EventType ==
  ASSUME NEW k \in EventKinds, NEW i \in Nat, NEW data \in Data
  PROVE  /\ Event(k, i, data) \in EventSet
         /\ Event(k, i, data).kind = k /\ Event(k, i, data).index = i
         /\ Event(k, i, data).data = data
  BY DEF Event, EventSet

LEMMA ArtifactsGoneType ==
  ASSUME NEW t \in Seq(STRING)
  PROVE  ArtifactsGone(t) \in Seq(STRING)
  <1> DEFINE in == Inside(t)
             u == At(t, {i \in 1..Len(t) :
                           /\ ~in[i] /\ ~in[i - 1]
                           /\ i < Len(t) => ~in[i + 1]})
             untagged[s \in Seq(STRING)] == At(s, 1..Len(s) \ TagsIn(s))
  <1>1. u \in Seq(STRING)
    BY AtType
  <1>2. ArtifactsGone(t) = untagged[u]
    BY DEF ArtifactsGone
  <1> HIDE DEF u
  <1>3. untagged[u] = At(u, 1..Len(u) \ TagsIn(u))
    BY <1>1
  <1>4. QED
    BY <1>1, <1>2, <1>3, AtType

\* The chunks that may come are texts, which end in the answer.
LEMMA ChunkTypes ==
  ASSUME MessageTypes, NEW c \in Chunks
  PROVE  c.v \in Seq(STRING) /\ c.end \in 1..Len(text)
  <1>1. text \in Seq(STRING) /\ Len(text) \in Nat /\ sent \in 0..Len(text)
    BY FeedAssumption, LenProperties DEF MessageTypes
  <1>2. \A i \in Nat \ {0}, n \in 0..Len(text) : SubSeq(text, i, n) \in Seq(STRING)
    <2>1. ASSUME NEW i \in Nat \ {0}, NEW n \in 0..Len(text) PROVE SubSeq(text, i, n) \in Seq(STRING)
      <3>1. \A j \in i..n : text[j] \in STRING
        BY <1>1, ElementOfSeq
      <3>2. QED
        BY <1>1, <3>1, SubSeqProperties
    <2>2. QED
      BY <2>1
  <1>3. CASE \E n \in sent + 1..Len(text), again \in Resends :
               c = [end |-> n, v |-> SubSeq(text, IF again THEN 1 ELSE sent + 1, n)]
    <2>1. PICK n \in sent + 1..Len(text), again \in Resends :
                 c = [end |-> n, v |-> SubSeq(text, IF again THEN 1 ELSE sent + 1, n)]
      BY <1>3
    <2> DEFINE k == IF again THEN 1 ELSE sent + 1
    <2>2. n \in 1..Len(text) /\ n \in 0..Len(text) /\ k \in Nat \ {0}
      BY <1>1
    <2>3. c.end = n /\ c.v = SubSeq(text, k, n)
      BY <2>1
    <2> HIDE DEF k
    <2>4. QED
      BY <1>2, <2>2, <2>3
  <1>4. CASE sent > 0 /\ c = [end |-> sent, v |-> Received]
    BY <1>1, <1>2, <1>4 DEF Received
  <1>5. QED
    BY <1>3, <1>4 DEF Chunks

\* The calls a stream ends with.
LEMMA ValidCallsType ==
  ASSUME MessageTypes
  PROVE  ValidCalls \in Seq(Seq(STRING))
  <1>1. ms.full \in Seq(STRING) /\ locals \in Seq(LocalCalls)
    BY DEF MessageTypes
  <1>2. ToolCalls(ms.full) \in Seq(Seq(STRING))
    BY <1>1, ToolCallsAre
  <1>3. locals \in Seq(Seq(STRING))
    <2>1. Len(locals) \in Nat /\ DOMAIN locals = 1..Len(locals)
          /\ \A i \in 1..Len(locals) : locals[i] \in Seq(STRING)
      BY <1>1, LenProperties, ElementOfSeq, FeedAssumption
    <2>2. QED
      BY <1>1, FeedAssumption, SeqDef
  <1>4. AllCalls \in Seq(Seq(STRING))
    BY <1>2, <1>3, ConcatProperties DEF AllCalls
  <1>5. QED
    BY <1>4, AtType DEF ValidCalls, CompleteOf

\* The events of the tool blocks of a stream.
ToolBlocks == [i \in 1..Len(ValidCalls) |-> ToolBlock(ValidCalls[i], FirstToolIndex + i - 1)]

LEMMA ToolBlocksAre ==
  ASSUME MessageTypes
  PROVE  /\ FirstToolIndex \in Nat /\ Len(ValidCalls) \in Nat
         /\ ToolBlocks \in Seq(Seq(EventSet)) /\ Len(ToolBlocks) = Len(ValidCalls)
         /\ \A i \in 1..Len(ToolBlocks) :
              /\ Len(ToolBlocks[i]) = 3
              /\ ToolBlocks[i][1] = Event("block_start", FirstToolIndex + i - 1, <<"tool_use">>)
              /\ ToolBlocks[i][2] = Event("delta", FirstToolIndex + i - 1, ValidCalls[i])
              /\ ToolBlocks[i][3] = Event("block_stop", FirstToolIndex + i - 1, <<>>)
  <1> DEFINE n == Len(ValidCalls)
  <1>1. n \in Nat /\ \A i \in 1..n : ValidCalls[i] \in Seq(STRING)
    BY ValidCallsType, LenProperties, ElementOfSeq
  <1>2. FirstToolIndex \in Nat
    BY DEF FirstToolIndex, MessageTypes
  <1>3. \A i \in 1..n : FirstToolIndex + i - 1 \in Nat
    BY <1>1, <1>2
  <1>4. <<"tool_use">> \in Data /\ <<>> \in Data /\ Seq(STRING) \subseteq Data
    BY EmptySeq DEF Data
  <1>5. \A c \in Seq(STRING), k \in Nat :
          /\ ToolBlock(c, k) \in Seq(EventSet) /\ Len(ToolBlock(c, k)) = 3
          /\ ToolBlock(c, k)[1] = Event("block_start", k, <<"tool_use">>)
          /\ ToolBlock(c, k)[2] = Event("delta", k, c)
          /\ ToolBlock(c, k)[3] = Event("block_stop", k, <<>>)
    <2>1. ASSUME NEW c \in Seq(STRING), NEW k \in Nat
          PROVE  /\ Event("block_start", k, <<"tool_use">>) \in EventSet
                 /\ Event("delta", k, c) \in EventSet
                 /\ Event("block_stop", k, <<>>) \in EventSet
      <3>1. "block_start" \in EventKinds /\ "delta" \in EventKinds /\ "block_stop" \in EventKinds
        BY DEF EventKinds
      <3>2. c \in Data
        BY <1>4, <2>1
      <3>3. QED
        BY <1>4, <2>1, <3>1, <3>2, EventType, Zenon
    <2>2. \A a, b, d \in EventSet : /\ <<a, b, d>> \in Seq(EventSet) /\ Len(<<a, b, d>>) = 3
                                   /\ <<a, b, d>>[1] = a /\ <<a, b, d>>[2] = b /\ <<a, b, d>>[3] = d
      OBVIOUS
    <2>3. QED
      BY <2>1, <2>2 DEF ToolBlock
  <1> HIDE DEF n
  <1>6. ToolBlocks = [i \in 1..n |-> ToolBlock(ValidCalls[i], FirstToolIndex + i - 1)]
    BY DEF ToolBlocks, n
  <1>7. \A i \in 1..n : ToolBlocks[i] = ToolBlock(ValidCalls[i], FirstToolIndex + i - 1)
    BY <1>6
  <1>8. ToolBlocks \in Seq(Seq(EventSet)) /\ Len(ToolBlocks) = n
    <2>1. \A i \in 1..n : ToolBlock(ValidCalls[i], FirstToolIndex + i - 1) \in Seq(EventSet)
      BY <1>1, <1>3, <1>5
    <2>2. ToolBlocks \in [1..n -> Seq(EventSet)]
      BY <1>6, <2>1
    <2>3. QED
      BY <1>1, <2>2, SeqDef, LenProperties
  <1>9. QED
    BY <1>1, <1>2, <1>3, <1>5, <1>7, <1>8 DEF n

-----------------------------------------------------------------------------
(* Each handler ends once *)

PlainEvents == {e \in EventSet : e.kind # "error"}

LEMMA PlainType ==
  ASSUME NEW k \in EventKinds \ {"error"}, NEW i \in Nat, NEW data \in Data
  PROVE  Event(k, i, data) \in PlainEvents
  BY EventType DEF PlainEvents

LEMMA PlainIs ==
  ASSUME NEW w \in Seq(EventSet)
  PROVE  w \in Seq(PlainEvents) <=> \A i \in 1..Len(w) : w[i].kind # "error"
  <1>1. Len(w) \in Nat /\ w \in [1..Len(w) -> EventSet]
    BY LenProperties
  <1>2. ASSUME w \in Seq(PlainEvents), NEW i \in 1..Len(w) PROVE w[i].kind # "error"
    <2>1. w[i] \in PlainEvents
      BY <1>2, ElementOfSeq
    <2>2. QED
      BY <2>1 DEF PlainEvents
  <1>3. ASSUME \A i \in 1..Len(w) : w[i].kind # "error" PROVE w \in Seq(PlainEvents)
    <2>1. w \in [1..Len(w) -> PlainEvents]
      BY <1>1, <1>3 DEF PlainEvents
    <2>2. QED
      BY <1>1, <2>1, SeqDef
  <1>4. QED
    BY <1>2, <1>3

LEMMA WhenType ==
  ASSUME NEW S, NEW c, NEW e \in S
  PROVE  When(c, <<e>>) \in Seq(S)
  BY DEF When

\* An increment is a text.
LEMMA IncrementIs ==
  ASSUME ms.full \in Seq(STRING), NEW v \in Seq(STRING)
  PROVE  Increment(v) \in Seq(STRING)
  <1>1. CASE ms.full # <<>> /\ IsPrefix(ms.full, v) /\ Len(v) > Len(ms.full)
    <2>1. Len(ms.full) \in Nat /\ Len(v) \in Nat /\ Len(v) > Len(ms.full)
      BY <1>1, LenProperties
    <2>2. \A j \in Len(ms.full) + 1..Len(v) : v[j] \in STRING
      BY <2>1, ElementOfSeq
    <2>3. SubSeq(v, Len(ms.full) + 1, Len(v)) \in Seq(STRING)
      BY <2>1, <2>2, SubSeqProperties
    <2>4. QED
      BY <1>1, <2>3 DEF Increment
  <1>2. CASE ~(ms.full # <<>> /\ IsPrefix(ms.full, v) /\ Len(v) > Len(ms.full))
    BY <1>2 DEF Increment
  <1>3. QED
    BY <1>1, <1>2

LEMMA PlainBlocks ==
  ASSUME MessageTypes
  PROVE  /\ ToolBlocks \in Seq(Seq(PlainEvents))
         /\ \A i \in 1..Len(ToolBlocks) : Len(ToolBlocks[i]) = 3
  <1>1. /\ Len(ToolBlocks) \in Nat /\ ToolBlocks \in Seq(Seq(EventSet))
        /\ \A i \in 1..Len(ToolBlocks) : ToolBlocks[i] \in Seq(EventSet)
    BY ToolBlocksAre, LenProperties, ElementOfSeq
  <1>2. ASSUME NEW i \in 1..Len(ToolBlocks)
        PROVE  ToolBlocks[i] \in Seq(PlainEvents) /\ Len(ToolBlocks[i]) = 3
    <2>1. /\ FirstToolIndex + i - 1 \in Nat /\ ValidCalls[i] \in Data
          /\ <<"tool_use">> \in Data /\ <<>> \in Data
      <3>1. FirstToolIndex \in Nat /\ i \in Nat /\ i >= 1 /\ i \in 1..Len(ValidCalls)
        BY <1>1, ToolBlocksAre
      <3>2. ValidCalls[i] \in Seq(STRING)
        BY <3>1, ValidCallsType, ElementOfSeq
      <3>3. QED
        BY <3>1, <3>2, EmptySeq DEF Data
    <2>2. {"block_start", "delta", "block_stop"} \subseteq EventKinds
      BY DEF EventKinds
    <2>3. /\ ToolBlocks[i][1].kind = "block_start" /\ ToolBlocks[i][2].kind = "delta"
          /\ ToolBlocks[i][3].kind = "block_stop"
      BY <2>1, <2>2, ToolBlocksAre, EventType
    <2>4. Len(ToolBlocks[i]) = 3 /\ \A j \in 1..3 : j = 1 \/ j = 2 \/ j = 3
      BY ToolBlocksAre
    <2>5. QED
      BY <1>1, <2>3, <2>4, PlainIs
  <1>3. ToolBlocks \in [1..Len(ToolBlocks) -> Seq(PlainEvents)]
    <2>1. ToolBlocks \in [1..Len(ToolBlocks) -> Seq(EventSet)]
      BY <1>1, LenProperties
    <2>2. QED
      BY <1>2, <2>1
  <1>4. QED
    BY <1>1, <1>2, <1>3, SeqDef

\* What the handler writes before its end is no error.
LEMMA ThoughtTypes ==
  ASSUME MessageTypes, written \in Seq(PlainEvents), WriteThought
  PROVE  /\ written' \in Seq(PlainEvents)
         /\ ms' \in [started : BOOLEAN, thinking : BOOLEAN, text : BOOLEAN,
                     index : Nat, full : Seq(STRING)]
  <1>1. /\ Event("message_start", 0, <<>>) \in PlainEvents
        /\ Event("block_start", 0, <<"thinking">>) \in PlainEvents
        /\ Event("delta", 0, <<"thought">>) \in PlainEvents
    <2>1. /\ {"message_start", "block_start", "delta"} \subseteq EventKinds \ {"error"}
          /\ 0 \in Nat /\ <<>> \in Data /\ <<"thinking">> \in Data /\ <<"thought">> \in Data
      BY EmptySeq DEF EventKinds, Data
    <2>2. QED
      BY <2>1, PlainType, Zenon
  <1>2. /\ When(~ms.started, <<Event("message_start", 0, <<>>)>>) \in Seq(PlainEvents)
        /\ When(~ms.thinking, <<Event("block_start", 0, <<"thinking">>)>>) \in Seq(PlainEvents)
        /\ <<Event("delta", 0, <<"thought">>)>> \in Seq(PlainEvents)
    BY <1>1, WhenType
  <1>3. written' \in Seq(PlainEvents)
    BY <1>2, ConcatProperties DEF WriteThought
  <1>4. QED
    BY <1>3 DEF WriteThought, MessageTypes

LEMMA TextTypes ==
  ASSUME MessageTypes, written \in Seq(PlainEvents), NEW v \in Seq(STRING), WriteText(v)
  PROVE  /\ written' \in Seq(PlainEvents)
         /\ ms' \in [started : BOOLEAN, thinking : BOOLEAN, text : BOOLEAN,
                     index : Nat, full : Seq(STRING)]
  <1>1. Increment(v) \in Seq(STRING)
    BY IncrementIs DEF MessageTypes
  <1>2. ms.index \in Nat /\ ms.full \in Seq(STRING)
    BY DEF MessageTypes
  <1>3. /\ Event("message_start", 0, <<>>) \in PlainEvents
        /\ Event("block_stop", 0, <<>>) \in PlainEvents
        /\ Event("block_start", ms.index, <<"text">>) \in PlainEvents
        /\ Event("delta", ms.index, ArtifactsGone(Increment(v))) \in PlainEvents
    <2>1. /\ {"message_start", "block_start", "block_stop", "delta"} \subseteq EventKinds \ {"error"}
          /\ 0 \in Nat /\ <<>> \in Data /\ <<"text">> \in Data
      BY EmptySeq DEF EventKinds, Data
    <2>2. ArtifactsGone(Increment(v)) \in Data
      BY <1>1, ArtifactsGoneType DEF Data
    <2>3. QED
      BY <1>2, <2>1, <2>2, PlainType, Zenon
  <1>4. /\ When(~ms.started, <<Event("message_start", 0, <<>>)>>) \in Seq(PlainEvents)
        /\ When(ClosesThinking, <<Event("block_stop", 0, <<>>)>>) \in Seq(PlainEvents)
        /\ When(~ms.text, <<Event("block_start", ms.index, <<"text">>)>>) \in Seq(PlainEvents)
        /\ <<Event("delta", ms.index, ArtifactsGone(Increment(v)))>> \in Seq(PlainEvents)
    BY <1>3, WhenType
  <1>5. written' \in Seq(PlainEvents)
    BY <1>4, ConcatProperties DEF WriteText
  <1>6. ms.full \o Increment(v) \in Seq(STRING)
    BY <1>1, <1>2, ConcatProperties
  <1>7. QED
    BY <1>5, <1>6 DEF WriteText, MessageTypes

LEMMA EndTypes ==
  ASSUME MessageTypes, written \in Seq(PlainEvents), WriteEnd
  PROVE  written' \in Seq(PlainEvents) /\ ms' = ms
  <1>1. /\ Event("block_stop", 0, <<>>) \in PlainEvents
        /\ Event("block_stop", ms.index, <<>>) \in PlainEvents
        /\ Event("message_delta", 0, <<StopReason>>) \in PlainEvents
        /\ Event("message_stop", 0, <<>>) \in PlainEvents
    <2>1. /\ {"message_delta", "block_stop", "message_stop"} \subseteq EventKinds \ {"error"}
          /\ 0 \in Nat /\ ms.index \in Nat /\ <<>> \in Data /\ <<StopReason>> \in Data
      BY EmptySeq DEF EventKinds, Data, StopReason, MessageTypes
    <2>2. QED
      BY <2>1, PlainType, Zenon
  <1>2. /\ When(ms.text, <<Event("block_stop", ms.index, <<>>)>>) \in Seq(PlainEvents)
        /\ When(ms.thinking /\ ~ms.text, <<Event("block_stop", 0, <<>>)>>) \in Seq(PlainEvents)
        /\ <<Event("message_delta", 0, <<StopReason>>), Event("message_stop", 0, <<>>)>>
             \in Seq(PlainEvents)
    <2>1. \A a, b \in PlainEvents : <<a, b>> \in Seq(PlainEvents)
      OBVIOUS
    <2>2. QED
      BY <1>1, <2>1, WhenType
  <1>3. FlattenSeq(ToolBlocks) \in Seq(PlainEvents)
    <2>1. ToolBlocks \in Seq(Seq(PlainEvents)) /\ \A i \in 1..Len(ToolBlocks) : Len(ToolBlocks[i]) = 3
      BY PlainBlocks
    <2>2. QED
      BY <2>1, Triples
  <1>4. written' = written
           \o When(ms.text, <<Event("block_stop", ms.index, <<>>)>>)
           \o When(ms.thinking /\ ~ms.text, <<Event("block_stop", 0, <<>>)>>)
           \o FlattenSeq(ToolBlocks)
           \o <<Event("message_delta", 0, <<StopReason>>), Event("message_stop", 0, <<>>)>>
    BY DEF WriteEnd, ToolBlocks
  <1>5. written' \in Seq(PlainEvents)
    BY <1>2, <1>3, <1>4, ConcatProperties
  <1>6. QED
    BY <1>5 DEF WriteEnd

LEMMA PlainAre ==
  ASSUME NEW w \in Seq(PlainEvents)
  PROVE  w \in Seq(EventSet) /\ \A i \in 1..Len(w) : w[i].kind # "error"
  <1>1. /\ Len(w) \in Nat /\ w \in [1..Len(w) -> PlainEvents]
        /\ PlainEvents \subseteq EventSet
    BY LenProperties DEF PlainEvents
  <1>2. w \in [1..Len(w) -> EventSet]
    BY <1>1
  <1>3. w \in Seq(EventSet)
    BY <1>1, <1>2, SeqDef
  <1>4. QED
    BY <1>3, PlainIs

LEMMA AddTwo ==
  ASSUME NEW S, NEW w \in Seq(S), NEW y \in S, NEW z \in S
  PROVE  /\ Len(w) \in Nat
         /\ w \o <<y, z>> \in Seq(S) /\ Len(w \o <<y, z>>) = Len(w) + 2
         /\ \A i \in 1..Len(w) : (w \o <<y, z>>)[i] = w[i]
         /\ (w \o <<y, z>>)[Len(w) + 1] = y /\ (w \o <<y, z>>)[Len(w) + 2] = z
  <1>1. /\ Len(w) \in Nat /\ <<y, z>> \in Seq(S) /\ Len(<<y, z>>) = 2
        /\ <<y, z>>[1] = y /\ <<y, z>>[2] = z
    BY LenProperties
  <1>2. /\ w \o <<y, z>> \in Seq(S) /\ Len(w \o <<y, z>>) = Len(w) + 2
        /\ \A i \in 1..Len(w) + 2 :
             (w \o <<y, z>>)[i] = IF i <= Len(w) THEN w[i] ELSE <<y, z>>[i - Len(w)]
    BY <1>1, ConcatProperties
  <1> DEFINE v == w \o <<y, z>>
  <1> HIDE DEF v
  <1>3. QED
    BY <1>1, <1>2 DEF v

LEMMA EndInit == Init => EndInv
  <1> SUFFICES ASSUME Init PROVE EndInv
    OBVIOUS
  <1> USE DEF Init, FeedInit, AnswerInit, MessageInit
  <1>1. MessageTypes
    <2>1. Len(text) \in Nat
      BY FeedAssumption, LenProperties
    <2>2. <<>> \in Seq(LocalCalls) /\ <<>> \in Seq(STRING) /\ <<>> \in Seq(EventSet)
      BY EmptySeq
    <2>3. 0 \in 0..Len(text) /\ 0 \in Nat /\ 0 \in 0..2
      BY <2>1
    <2>4. /\ [started |-> FALSE, thinking |-> FALSE, text |-> FALSE, index |-> 0, full |-> <<>>]
               \in [started : BOOLEAN, thinking : BOOLEAN, text : BOOLEAN,
                   index : Nat, full : Seq(STRING)]
          /\ [failed |-> FALSE, finalized |-> 0] \in [failed : BOOLEAN, finalized : 0..2]
      BY <2>2, <2>3
    <2>5. QED
      BY <2>2, <2>3, <2>4 DEF MessageTypes
  <1>2. Len(written) = 0 /\ NoError
    BY EmptySeq DEF NoError
  <1>3. QED
    BY <1>1, <1>2 DEF EndInv, Streaming

\* A chunk, a thought and a local call leave the handler reading.
LEMMA EndReads ==
  ASSUME EndInv, AnswerChunk \/ Thought \/ LocalTool \/ UpstreamError
  PROVE  EndInv'
  <1>1. /\ MessageTypes /\ written \in Seq(EventSet) /\ written \in Seq(PlainEvents)
        /\ ~over /\ over' = over /\ route' = route /\ released' = released
        /\ success' = success /\ response' = response /\ log'.finalized = log.finalized
        /\ log' \in [failed : BOOLEAN, finalized : 0..2]
    <2>1. MessageTypes /\ written \in Seq(EventSet) /\ ~over
      BY DEF EndInv, MessageTypes, AnswerChunk, Thought, LocalTool, UpstreamError, Reads
    <2>2. written \in Seq(PlainEvents)
      BY <2>1, PlainIs DEF EndInv, NoError
    <2>3. response' = response
      BY DEF AnswerChunk, Thought, LocalTool, UpstreamError, answerVars
    <2>4. /\ over' = over /\ route' = route /\ released' = released /\ success' = success
          /\ log'.finalized = log.finalized /\ log' \in [failed : BOOLEAN, finalized : 0..2]
      <3>1. CASE UpstreamError
        BY <2>1, <3>1 DEF UpstreamError, MessageTypes
      <3>2. CASE AnswerChunk \/ Thought \/ LocalTool
        BY <2>1, <3>2 DEF AnswerChunk, Thought, LocalTool, Reads, routeVars, MessageTypes
      <3>3. QED
        BY <3>1, <3>2
    <2>5. QED
      BY <2>1, <2>2, <2>3, <2>4
  <1>2. /\ text' = text /\ sent' \in 0..Len(text) /\ thoughts' \in {"none", "first", "late"}
        /\ locals' \in Seq(LocalCalls)
    <2>1. CASE AnswerChunk
      <3>1. PICK c \in Chunks : SendChunk(c)
        BY <2>1 DEF AnswerChunk
      <3>2. c.end \in 1..Len(text) /\ Len(text) \in Nat
        BY <1>1, ChunkTypes, FeedAssumption, LenProperties DEF MessageTypes
      <3>3. QED
        BY <1>1, <3>1, <3>2 DEF SendChunk, MessageTypes
    <2>2. CASE Thought
      BY <1>1, <2>2 DEF Thought, SendThought, MessageTypes
    <2>3. CASE LocalTool
      <3>1. PICK c \in LocalCalls : SendLocal(c)
        BY <2>3 DEF LocalTool
      <3>2. locals \in Seq(LocalCalls)
        BY <1>1 DEF MessageTypes
      <3>3. Append(locals, c) \in Seq(LocalCalls)
        BY <3>2, AppendProperties
      <3>4. QED
        BY <1>1, <3>1, <3>3 DEF SendLocal, MessageTypes
    <2>4. CASE UpstreamError
      BY <1>1, <2>4 DEF UpstreamError, feedVars, MessageTypes
    <2>5. QED
      BY <2>1, <2>2, <2>3, <2>4
  <1>3. /\ written' \in Seq(PlainEvents)
        /\ ms' \in [started : BOOLEAN, thinking : BOOLEAN, text : BOOLEAN,
                    index : Nat, full : Seq(STRING)]
        /\ ~Streaming => written' = written
    <2>1. CASE UNCHANGED messageVars
      BY <1>1, <2>1 DEF messageVars, MessageTypes
    <2>2. CASE AnswerChunk
      <3>1. PICK c \in Chunks : IF Streaming THEN WriteText(c.v) ELSE UNCHANGED messageVars
        BY <2>2 DEF AnswerChunk
      <3>2. CASE Streaming
        BY <1>1, <3>1, <3>2, ChunkTypes, TextTypes
      <3>3. QED
        BY <2>1, <3>1, <3>2
    <2>3. CASE Thought
      BY <1>1, <2>1, <2>3, ThoughtTypes DEF Thought
    <2>4. QED
      BY <2>1, <2>2, <2>3 DEF LocalTool, UpstreamError
  <1>4. written' \in Seq(EventSet) /\ NoError'
    <2>1. written' \in Seq(EventSet)
      <3>1. /\ Len(written') \in Nat /\ written' \in [1..Len(written') -> PlainEvents]
            /\ PlainEvents \subseteq EventSet
        BY <1>3, LenProperties DEF PlainEvents
      <3>2. written' \in [1..Len(written') -> EventSet]
        BY <3>1
      <3>3. QED
        BY <3>1, <3>2, SeqDef
    <2>2. QED
      BY <1>3, <2>1, PlainIs DEF NoError
  <1>5. MessageTypes'
    BY <1>1, <1>2, <1>3, <1>4 DEF MessageTypes
  <1>6. (Streaming <=> Streaming')
    BY <1>1 DEF Streaming
  <1>7. QED
    BY <1>1, <1>3, <1>4, <1>5, <1>6 DEF EndInv

\* The handler ends, with or without an error.
LEMMA EndEnds ==
  ASSUME EndInv, EndAnswer \/ EndStream \/ Document \/ ReadFails
  PROVE  EndInv'
  <1>1. /\ MessageTypes /\ written \in Seq(EventSet) /\ written \in Seq(PlainEvents)
        /\ ~over /\ over' = TRUE /\ route' = route /\ UNCHANGED feedVars
        /\ released = 0 /\ released' = 1
    <2>1. MessageTypes /\ written \in Seq(EventSet) /\ ~over /\ released = 0
      BY DEF EndInv, MessageTypes, EndAnswer, EndStream, Document, ReadFails
    <2>2. written \in Seq(PlainEvents)
      BY <2>1, PlainIs DEF EndInv, NoError
    <2>3. \E ok, failed, times : Closed(ok, failed, times)
      BY DEF EndAnswer, EndStream, Document, ReadFails
    <2>4. QED
      BY <2>1, <2>2, <2>3 DEF Closed
  <1>2. log.failed \in BOOLEAN /\ (Streaming => response.kind = "none") /\ (~Streaming => written = <<>>)
    BY <1>1 DEF EndInv, MessageTypes
  <1>3. /\ written' \in Seq(EventSet) /\ ms' = ms
        /\ log' \in [failed : BOOLEAN, finalized : 1..2]
        /\ log'.finalized = 2 => response'.kind = "rejected"
        /\ success' \in BOOLEAN
        /\ success' <=> (response'.kind # "timeout" /\ NoError')
        /\ Streaming => response'.kind = "none"
        /\ ~Streaming => written' = <<>>
    <2>1. CASE EndAnswer
      <3>1. PICK g \in {Flushed} :
              /\ Built(g)
              /\ Closed(TRUE, log.failed \/ g.rejected, IF g.rejected THEN 2 ELSE 1)
        BY <2>1 DEF EndAnswer
      <3>2. /\ response'.kind \in {"answer", "rejected"}
            /\ g.rejected => response'.kind = "rejected"
        BY <3>1 DEF Built, Reply
      <3>3. ~Streaming /\ written' = written /\ ms' = ms
        BY <2>1 DEF EndAnswer, messageVars
      <3>4. success' = TRUE /\ log' = [failed |-> log.failed \/ g.rejected,
                                       finalized |-> IF g.rejected THEN 2 ELSE 1]
        BY <3>1 DEF Closed
      <3>5. NoError'
        BY <1>2, <3>3, EmptySeq DEF NoError
      <3>6. QED
        BY <1>1, <1>2, <3>2, <3>3, <3>4, <3>5
    <2>2. CASE (EndStream \/ Document) /\ Streaming
      <3>1. WriteEnd /\ response' = response
        BY <2>2 DEF EndStream, Document, answerVars
      <3>2. success' = TRUE /\ log' = [failed |-> log.failed, finalized |-> 1]
        BY <2>2 DEF EndStream, Document, Closed
      <3>3. written' \in Seq(PlainEvents) /\ ms' = ms
        BY <1>1, <3>1, EndTypes
      <3>4. written' \in Seq(EventSet) /\ NoError'
        BY <3>3, PlainAre DEF NoError
      <3>5. QED
        BY <1>2, <2>2, <3>1, <3>2, <3>3, <3>4
    <2>3. CASE Document /\ ~Streaming
      <3>1. response'.kind = "document" /\ written' = written /\ ms' = ms
        BY <2>3 DEF Document, Reply, messageVars
      <3>2. success' = TRUE /\ log' = [failed |-> log.failed, finalized |-> 1]
        BY <2>3 DEF Document, Closed
      <3>3. NoError'
        BY <1>2, <2>3, <3>1, EmptySeq DEF NoError
      <3>4. QED
        BY <1>1, <1>2, <2>3, <3>1, <3>2, <3>3
    <2>4. CASE ReadFails
      <3>1. ~success' /\ success' \in BOOLEAN /\ log' = [failed |-> TRUE, finalized |-> 1]
        BY <2>4 DEF ReadFails, Closed
      <3>5. log' \in [failed : BOOLEAN, finalized : 1..2] /\ log'.finalized # 2
        BY <3>1
      <3>2. CASE Streaming
        <4>1. /\ response' = response /\ ms' = ms
              /\ written' = written \o <<Event("error", 0, <<>>), Event("[DONE]", 0, <<>>)>>
          BY <2>4, <3>2 DEF ReadFails, WriteError
        <4>2. Event("error", 0, <<>>) \in EventSet /\ Event("[DONE]", 0, <<>>) \in EventSet
              /\ Event("error", 0, <<>>).kind = "error"
          <5>1. "error" \in EventKinds /\ "[DONE]" \in EventKinds /\ <<>> \in Data /\ 0 \in Nat
            BY EmptySeq DEF EventKinds, Data
          <5>2. Event("error", 0, <<>>) \in EventSet /\ Event("error", 0, <<>>).kind = "error"
            BY <5>1, EventType
          <5>3. Event("[DONE]", 0, <<>>) \in EventSet
            BY <5>1, EventType
          <5>4. QED
            BY <5>2, <5>3
        <4>3. /\ written' \in Seq(EventSet) /\ Len(written') = Len(written) + 2
              /\ written'[Len(written) + 1] = Event("error", 0, <<>>)
              /\ Len(written) \in Nat
          BY <1>1, <4>1, <4>2, AddTwo
        <4>4. ~NoError'
          BY <4>2, <4>3 DEF NoError
        <4>5. QED
          BY <1>2, <3>1, <3>2, <3>5, <4>1, <4>3, <4>4
      <3>3. CASE ~Streaming
        <4>1. response'.kind = "timeout" /\ written' = written /\ ms' = ms
          BY <2>4, <3>3 DEF ReadFails, Reply, messageVars
        <4>2. QED
          BY <1>1, <1>2, <3>1, <3>3, <3>5, <4>1
      <3>4. QED
        BY <3>2, <3>3
    <2>5. QED
      BY <2>1, <2>2, <2>3, <2>4 DEF EndStream
  <1>4. MessageTypes'
    BY <1>1, <1>3 DEF MessageTypes, feedVars
  <1>5. Streaming <=> Streaming'
    BY <1>1 DEF Streaming
  <1>6. log'.finalized >= 1
    BY <1>3
  <1>7. QED
    BY <1>1, <1>3, <1>4, <1>5, <1>6 DEF EndInv

LEMMA EndNext == EndInv /\ [Next]_vars => EndInv'
  <1>1. CASE EndInv /\ UNCHANGED vars
    <2>1. /\ UNCHANGED <<text, sent, thoughts, locals, ms, written, route, over, log,
                         released, success, response>>
      BY <1>1 DEF vars, feedVars, answerVars, messageVars, routeVars
    <2>2. MessageTypes' /\ (Streaming <=> Streaming') /\ (NoError <=> NoError')
      BY <1>1, <2>1 DEF EndInv, MessageTypes, Streaming, NoError
    <2>3. QED
      BY <1>1, <2>1, <2>2 DEF EndInv
  <1>2. QED
    BY <1>1, EndReads, EndEnds DEF Next

THEOREM EndInvariant == Spec => []EndInv
  BY EndInit, EndNext, PTL DEF Spec

\* However it ends, a handler releases its conversation once, and as a success unless
\* its client got a timeout or an error: what the finally blocks of the three
\* handlers promise, for every answer and every bound.
THEOREM HandlersEndOnce == Spec => []EndsOnce
  <1>1. EndInv => EndsOnce
    <2> SUFFICES ASSUME EndInv PROVE EndsOnce
      OBVIOUS
    <2>1. written \in Seq(EventSet)
      BY DEF EndInv, MessageTypes
    <2>2. NoError <=> \A e \in ToSet(written) : e.kind # "error"
      BY <2>1, LenProperties DEF NoError, ToSet
    <2>3. QED
      BY <2>2 DEF EndInv, EndsOnce
  <1>2. QED
    BY <1>1, EndInvariant, PTL

-----------------------------------------------------------------------------
(* The events of a message that is over *)

StartsIn(v) == {i \in DOMAIN v : v[i].kind = "block_start"}
ClosesIn(v, i, j) == i < j /\ v[j].kind = "block_stop"
                       /\ \A k \in i + 1..j - 1 : v[k].kind = "delta"

\* What MessageWellFormed says of the events v of a message.
WellFormed(v, ok) ==
    /\ \A i \in DOMAIN v : i = 1 <=> v[i].kind = "message_start"
    /\ \A i \in StartsIn(v) :
         /\ v[i].index = Cardinality({j \in StartsIn(v) : j < i})
         /\ ok => \E j \in DOMAIN v :
              /\ ClosesIn(v, i, j)
              /\ \A k \in i..j : v[k].index = v[i].index
    /\ \A i, j \in StartsIn(v) : i < j => \E k \in i..j : ClosesIn(v, i, k)
    /\ \A i \in DOMAIN v : v[i].kind = "message_stop" =>
         /\ ok /\ i = Len(v)
         /\ v[i - 1].kind = "message_delta"
         /\ v[i - 1].data = <<"tool_use">> <=> \E b \in StartsIn(v) : v[b].data = <<"tool_use">>

LEMMA WellFormedIs ==
  MessageWellFormed <=>
    (Streaming /\ over /\ thoughts # "late" /\ ms.started => WellFormed(written, success))
  BY DEF MessageWellFormed, WellFormed, StartsIn, ClosesIn, Blocks, Closes

\* The events v hold m blocks, from s[j] to e[j] each; the first c are closed.
Framed(v, m, c, s, e) ==
    /\ v \in Seq(EventSet)
    /\ m \in Nat \ {0} /\ c \in m - 1..m
    /\ s \in [0..m - 1 -> Nat] /\ e \in [0..m - 1 -> Nat]
    /\ StartsIn(v) = {s[j] : j \in 0..m - 1}
    /\ \A j \in 0..m - 1 : v[s[j]].index = j /\ s[j] < e[j]
    /\ \A i, j \in 0..m - 1 : i < j => e[i] < s[j]
    /\ \A j \in 0..c - 1 :
         /\ e[j] \in 1..Len(v) /\ v[e[j]].kind = "block_stop" /\ v[e[j]].index = j
         /\ \A k \in s[j] + 1..e[j] - 1 : v[k].kind = "delta" /\ v[k].index = j

LEMMA FramedBlocks ==
  ASSUME NEW v, NEW m, NEW c, NEW s, NEW e, Framed(v, m, c, s, e), NEW ok \in BOOLEAN,
         ok => c = m
  PROVE  /\ \A i \in StartsIn(v) :
              /\ v[i].index = Cardinality({j \in StartsIn(v) : j < i})
              /\ ok => \E j \in DOMAIN v :
                   /\ ClosesIn(v, i, j)
                   /\ \A k \in i..j : v[k].index = v[i].index
         /\ \A i, j \in StartsIn(v) : i < j => \E k \in i..j : ClosesIn(v, i, k)
  <1>1. /\ v \in Seq(EventSet) /\ Len(v) \in Nat /\ DOMAIN v = 1..Len(v)
        /\ m \in Nat \ {0} /\ c \in m - 1..m /\ s \in [0..m - 1 -> Nat] /\ e \in [0..m - 1 -> Nat]
        /\ StartsIn(v) = {s[j] : j \in 0..m - 1}
        /\ \A j \in 0..m - 1 : v[s[j]].index = j /\ s[j] < e[j]
        /\ \A i, j \in 0..m - 1 : i < j => e[i] < s[j]
    BY LenProperties DEF Framed
  <1>2. \A j \in 0..m - 1 : s[j] \in Nat /\ e[j] \in Nat
    BY <1>1
  <1>3. \A i, j \in 0..m - 1 : i < j => s[i] < s[j]
    BY <1>1, <1>2
  <1>4. ASSUME NEW j \in 0..c - 1
        PROVE  /\ j \in 0..m - 1 /\ e[j] \in DOMAIN v /\ ClosesIn(v, s[j], e[j])
               /\ \A k \in s[j]..e[j] : v[k].index = j
    <2>1. j \in 0..m - 1
      BY <1>1
    <2>2. /\ e[j] \in 1..Len(v) /\ v[e[j]].kind = "block_stop" /\ v[e[j]].index = j
          /\ \A k \in s[j] + 1..e[j] - 1 : v[k].kind = "delta" /\ v[k].index = j
      BY <1>4 DEF Framed
    <2>3. \A k \in s[j]..e[j] : k = s[j] \/ k = e[j] \/ k \in s[j] + 1..e[j] - 1
      BY <1>2, <2>1
    <2>4. QED
      BY <1>1, <2>1, <2>2, <2>3 DEF ClosesIn
  <1>5. ASSUME NEW i \in StartsIn(v)
        PROVE  /\ v[i].index = Cardinality({j \in StartsIn(v) : j < i})
               /\ ok => \E j \in DOMAIN v :
                    /\ ClosesIn(v, i, j)
                    /\ \A k \in i..j : v[k].index = v[i].index
    <2>1. PICK j \in 0..m - 1 : i = s[j]
      BY <1>1
    <2>2. v[i].index = j
      BY <1>1, <2>1
    <2>3. Cardinality({x \in {s[k] : k \in 0..m - 1} : x < s[j]}) = j
      BY <1>1, <1>3, Numbered
    <2>4. Cardinality({k \in StartsIn(v) : k < i}) = j
      BY <1>1, <2>1, <2>3
    <2>5. ASSUME ok
          PROVE  \E d \in DOMAIN v : ClosesIn(v, i, d) /\ \A k \in i..d : v[k].index = v[i].index
      <3>1. j \in 0..c - 1
        BY <2>5, <1>1
      <3>2. e[j] \in DOMAIN v /\ ClosesIn(v, i, e[j]) /\ \A k \in i..e[j] : v[k].index = v[i].index
        BY <1>4, <2>1, <2>2, <3>1
      <3>3. QED
        BY <3>2
    <2>6. QED
      BY <2>2, <2>4, <2>5
  <1>6. ASSUME NEW i \in StartsIn(v), NEW j \in StartsIn(v), i < j
        PROVE  \E k \in i..j : ClosesIn(v, i, k)
    <2>1. PICK a \in 0..m - 1, b \in 0..m - 1 : i = s[a] /\ j = s[b]
      BY <1>1
    <2>2. a < b
      <3>1. a # b
        BY <1>2, <1>6, <2>1
      <3>2. ~(b < a)
        BY <1>2, <1>3, <1>6, <2>1
      <3>3. QED
        BY <3>1, <3>2
    <2>3. a \in 0..c - 1 /\ e[a] < s[b] /\ s[a] < e[a]
      BY <1>1, <2>2
    <2>4. e[a] \in i..j /\ ClosesIn(v, i, e[a])
      BY <1>2, <1>4, <2>1, <2>3
    <2>5. QED
      BY <2>4
  <1>7. QED
    BY <1>5, <1>6

\* The events w of a message that still goes on: a start, a block of three events
\* after which the second follows, and the deltas of the last block so far.
OpenMessage(w, m) ==
    /\ w \in Seq(EventSet) /\ m \in 1..2 /\ Len(w) >= 3 * m
    /\ w[1].kind = "message_start"
    /\ \A j \in 0..m - 1 : /\ w[3 * j + 2].kind = "block_start" /\ w[3 * j + 2].index = j
                           /\ w[3 * j + 2].data # <<"tool_use">>
    /\ m = 2 => /\ w[3].kind = "delta" /\ w[3].index = 0
                /\ w[4].kind = "block_stop" /\ w[4].index = 0
    /\ \A i \in 3 * m..Len(w) : w[i].kind = "delta" /\ w[i].index = m - 1

LEMMA OpenEvents ==
  ASSUME NEW w, NEW m, OpenMessage(w, m)
  PROVE  /\ Len(w) \in Nat
         /\ \A i \in 1..Len(w) :
              \/ i = 1 /\ w[i].kind = "message_start"
              \/ i = 2 /\ w[i].kind = "block_start"
              \/ i = 5 /\ m = 2 /\ w[i].kind = "block_start"
              \/ i = 3 /\ m = 2 /\ w[i].kind = "delta"
              \/ i = 4 /\ m = 2 /\ w[i].kind = "block_stop"
              \/ i \in 3 * m..Len(w) /\ w[i].kind = "delta"
  <1>1. w \in Seq(EventSet) /\ Len(w) \in Nat /\ m \in {1, 2} /\ Len(w) >= 3 * m
    BY LenProperties DEF OpenMessage
  <1>2. w[1].kind = "message_start" /\ w[2].kind = "block_start"
    <2>1. 0 \in 0..m - 1 /\ 3 * 0 + 2 = 2
      BY <1>1
    <2>2. QED
      BY <2>1 DEF OpenMessage
  <1>3. m = 2 => w[3].kind = "delta" /\ w[4].kind = "block_stop" /\ w[5].kind = "block_start"
    <2>1. m = 2 => 1 \in 0..m - 1 /\ 3 * 1 + 2 = 5
      BY <1>1
    <2>2. QED
      BY <2>1 DEF OpenMessage
  <1>4. \A i \in 3 * m..Len(w) : w[i].kind = "delta"
    BY DEF OpenMessage
  <1>5. QED
    BY <1>1, <1>2, <1>3, <1>4

\* The stream fails.
LEMMA FailedMessage ==
  ASSUME NEW w, NEW m, OpenMessage(w, m), NEW v \in Seq(EventSet),
         Len(v) = Len(w) + 2, \A i \in 1..Len(w) : v[i] = w[i],
         v[Len(w) + 1].kind = "error", v[Len(w) + 2].kind = "[DONE]"
  PROVE  WellFormed(v, FALSE)
  <1> DEFINE s == [j \in 0..m - 1 |-> 3 * j + 2]
             e == [j \in 0..m - 1 |-> 3 * j + 4]
  <1>1. /\ w \in Seq(EventSet) /\ Len(w) \in Nat /\ m \in {1, 2} /\ Len(w) >= 3 * m
        /\ DOMAIN v = 1..Len(w) + 2
    BY OpenEvents, LenProperties DEF OpenMessage
  <1>2. \A i \in DOMAIN v : i \in 1..Len(w) \/ i = Len(w) + 1 \/ i = Len(w) + 2
    BY <1>1
  <1>3. \A i \in DOMAIN v :
          /\ v[i].kind = "block_start" => i = 2 \/ (i = 5 /\ m = 2)
          /\ v[i].kind = "message_start" <=> i = 1
          /\ v[i].kind # "message_stop"
    <2>1. ASSUME NEW i \in 1..Len(w)
          PROVE  /\ v[i].kind = "block_start" => i = 2 \/ (i = 5 /\ m = 2)
                 /\ v[i].kind = "message_start" <=> i = 1
                 /\ v[i].kind # "message_stop"
      <3>1. v[i] = w[i]
        OBVIOUS
      <3>2. 3 * m > 1
        BY <1>1
      <3>3. \/ i = 1 /\ w[i].kind = "message_start"
            \/ i # 1 /\ i = 2 /\ w[i].kind = "block_start"
            \/ i # 1 /\ i = 5 /\ m = 2 /\ w[i].kind = "block_start"
            \/ i # 1 /\ w[i].kind = "delta"
            \/ i # 1 /\ w[i].kind = "block_stop"
        BY <1>1, <3>2, OpenEvents
      <3>4. v[i].kind = "block_start" => i = 2 \/ (i = 5 /\ m = 2)
        BY <3>1, <3>3
      <3>5. v[i].kind = "message_start" <=> i = 1
        BY <3>1, <3>3
      <3>6. v[i].kind # "message_stop"
        BY <3>1, <3>3
      <3>7. QED
        BY <3>4, <3>5, <3>6
    <2>2. Len(w) + 1 # 1 /\ Len(w) + 2 # 1
      BY <1>1
    <2>3. QED
      BY <1>2, <2>1, <2>2
  <1>4. StartsIn(v) = {s[j] : j \in 0..m - 1}
    <2>1. 2 \in 1..Len(w) /\ (m = 2 => 5 \in 1..Len(w))
      BY <1>1
    <2>2. w[2].kind = "block_start" /\ (m = 2 => w[5].kind = "block_start")
      <3>1. 0 \in 0..m - 1 /\ 3 * 0 + 2 = 2 /\ (m = 2 => 1 \in 0..m - 1 /\ 3 * 1 + 2 = 5)
        BY <1>1
      <3>2. QED
        BY <3>1 DEF OpenMessage
    <2>3. StartsIn(v) = IF m = 2 THEN {2, 5} ELSE {2}
      BY <1>1, <1>3, <2>1, <2>2 DEF StartsIn
    <2>4. {s[j] : j \in 0..m - 1} = IF m = 2 THEN {2, 5} ELSE {2}
      <3>1. CASE m = 1
        <4>1. 0..m - 1 = {0}
          BY <3>1
        <4>2. s[0] = 2
          BY <4>1
        <4> HIDE DEF s
        <4>3. QED
          BY <3>1, <4>1, <4>2
      <3>2. CASE m = 2
        <4>1. 0..m - 1 = {0, 1}
          BY <3>2
        <4>2. s[0] = 2 /\ s[1] = 5
          BY <4>1
        <4> HIDE DEF s
        <4>3. QED
          BY <3>2, <4>1, <4>2
      <3>3. QED
        BY <1>1, <3>1, <3>2
    <2>5. QED
      BY <2>3, <2>4
  <1>5. Framed(v, m, m - 1, s, e)
    <2>1. s \in [0..m - 1 -> Nat] /\ e \in [0..m - 1 -> Nat]
      BY <1>1
    <2>2. \A j \in 0..m - 1 : v[s[j]].index = j /\ s[j] < e[j]
      <3>1. \A j \in 0..m - 1 : 3 * j + 2 \in 1..Len(w)
        BY <1>1
      <3>2. QED
        BY <1>1, <3>1 DEF OpenMessage
    <2>3. \A i, j \in 0..m - 1 : i < j => e[i] < s[j]
      BY <1>1
    <2>4. ASSUME NEW j \in 0..(m - 1) - 1
          PROVE  /\ e[j] \in 1..Len(v) /\ v[e[j]].kind = "block_stop" /\ v[e[j]].index = j
                 /\ \A k \in s[j] + 1..e[j] - 1 : v[k].kind = "delta" /\ v[k].index = j
      <3>1. m = 2 /\ j = 0 /\ s[j] = 2 /\ e[j] = 4
        BY <1>1
      <3>2. \A k \in s[j] + 1..e[j] - 1 : k = 3
        BY <3>1
      <3>3. 3 \in 1..Len(w) /\ 4 \in 1..Len(w)
        BY <1>1, <3>1
      <3>4. QED
        BY <1>1, <3>1, <3>2, <3>3 DEF OpenMessage
    <2>5. m - 1 \in m - 1..m /\ m \in Nat \ {0}
      BY <1>1
    <2>6. QED
      BY <1>4, <2>1, <2>2, <2>3, <2>4, <2>5 DEF Framed
  <1> HIDE DEF s, e
  <1>6. QED
    BY <1>3, <1>5, FramedBlocks DEF WellFormed

\* The events v of a message that went on with w and ended with n tool blocks.
Ended(v, w, m, n) ==
    LET p == Len(w) + 1
    IN  /\ v \in Seq(EventSet) /\ n \in Nat /\ Len(v) = p + 3 * n + 2
        /\ \A i \in 1..Len(w) : v[i] = w[i]
        /\ v[p].kind = "block_stop" /\ v[p].index = m - 1
        /\ \A k \in 1..n :
             /\ v[p + 3 * (k - 1) + 1].kind = "block_start"
             /\ v[p + 3 * (k - 1) + 1].data = <<"tool_use">>
             /\ v[p + 3 * (k - 1) + 2].kind = "delta"
             /\ v[p + 3 * (k - 1) + 3].kind = "block_stop"
             /\ \A j \in 1..3 : v[p + 3 * (k - 1) + j].index = m + k - 1
        /\ v[p + 3 * n + 1].kind = "message_delta"
        /\ v[p + 3 * n + 1].data = <<"tool_use">> <=> n > 0
        /\ v[p + 3 * n + 2].kind = "message_stop"
        /\ \A i \in p + 1..p + 3 * n : \E k \in 1..n, j \in 1..3 : i = p + 3 * (k - 1) + j

LEMMA EndedMessage ==
  ASSUME NEW w, NEW m, OpenMessage(w, m), NEW n, NEW v, Ended(v, w, m, n)
  PROVE  WellFormed(v, TRUE)
  <1> DEFINE p == Len(w) + 1
             s == [j \in 0..m + n - 1 |-> IF j < m THEN 3 * j + 2 ELSE p + 3 * (j - m) + 1]
             e == [j \in 0..m + n - 1 |-> IF j < m - 1 THEN 3 * j + 4
                                          ELSE IF j < m THEN p ELSE p + 3 * (j - m) + 3]
  <1>1. /\ w \in Seq(EventSet) /\ Len(w) \in Nat /\ m \in {1, 2} /\ Len(w) >= 3 * m
        /\ v \in Seq(EventSet) /\ n \in Nat /\ Len(v) = p + 3 * n + 2
        /\ p \in Nat /\ p > 3 * m /\ p = Len(w) + 1
        /\ DOMAIN v = 1..p + 3 * n + 2
    BY OpenEvents, LenProperties DEF OpenMessage, Ended
  <1>2. /\ \A i \in 1..p - 1 : v[i] = w[i]
        /\ v[p].kind = "block_stop" /\ v[p].index = m - 1
        /\ v[p + 3 * n + 1].kind = "message_delta"
        /\ v[p + 3 * n + 1].data = <<"tool_use">> <=> n > 0
        /\ v[p + 3 * n + 2].kind = "message_stop"
    BY <1>1 DEF Ended
  <1>3. \A k \in 1..n :
          /\ v[p + 3 * (k - 1) + 1].kind = "block_start"
          /\ v[p + 3 * (k - 1) + 1].data = <<"tool_use">>
          /\ v[p + 3 * (k - 1) + 2].kind = "delta"
          /\ v[p + 3 * (k - 1) + 3].kind = "block_stop"
          /\ \A j \in 1..3 : v[p + 3 * (k - 1) + j].index = m + k - 1
    BY DEF Ended
  <1>4. \A i \in p + 1..p + 3 * n : \E k \in 1..n, j \in 1..3 : i = p + 3 * (k - 1) + j
    BY DEF Ended
  <1>5. /\ \A i \in 1..p - 1 : w[i].kind = "message_start" <=> i = 1
        /\ \A i \in 1..p - 1 : w[i].kind # "message_stop"
        /\ \A i \in 1..p - 1 : w[i].kind = "block_start" => \E j \in 0..m - 1 : i = 3 * j + 2
        /\ \A j \in 0..m - 1 : 3 * j + 2 \in 1..p - 1 /\ w[3 * j + 2].kind = "block_start"
                               /\ w[3 * j + 2].index = j /\ w[3 * j + 2].data # <<"tool_use">>
    <2>1. ASSUME NEW i \in 1..p - 1
          PROVE  /\ w[i].kind = "message_start" <=> i = 1
                 /\ w[i].kind # "message_stop"
                 /\ w[i].kind = "block_start" => \E j \in 0..m - 1 : i = 3 * j + 2
      <3>1. i \in 1..Len(w) /\ 3 * m > 1
        BY <1>1
      <3>2. \/ i = 1 /\ w[i].kind = "message_start"
            \/ i # 1 /\ i = 2 /\ w[i].kind = "block_start"
            \/ i # 1 /\ i = 5 /\ m = 2 /\ w[i].kind = "block_start"
            \/ i # 1 /\ w[i].kind = "delta"
            \/ i # 1 /\ w[i].kind = "block_stop"
        BY <1>1, <3>1, OpenEvents
      <3>3. w[i].kind = "block_start" => i = 2 \/ (i = 5 /\ m = 2)
        BY <3>2
      <3>4. w[i].kind = "block_start" => \E j \in 0..m - 1 : i = 3 * j + 2
        <4>1. i = 2 => 0 \in 0..m - 1 /\ i = 3 * 0 + 2
          BY <1>1
        <4>2. i = 5 /\ m = 2 => 1 \in 0..m - 1 /\ i = 3 * 1 + 2
          OBVIOUS
        <4>3. QED
          BY <3>3, <4>1, <4>2
      <3>5. w[i].kind = "message_start" <=> i = 1
        BY <3>2
      <3>6. w[i].kind # "message_stop"
        BY <3>2
      <3>7. QED
        BY <3>4, <3>5, <3>6
    <2>2. \A j \in 0..m - 1 : 3 * j + 2 \in 1..p - 1
      BY <1>1
    <2>3. QED
      BY <2>1, <2>2 DEF OpenMessage
  <1>6. \A i \in DOMAIN v : \/ i \in 1..p - 1 \/ i = p \/ i = p + 3 * n + 1 \/ i = p + 3 * n + 2
                            \/ i \in p + 1..p + 3 * n
    BY <1>1
  <1>7. \A k \in 1..n, j \in 1..3 : p + 3 * (k - 1) + j \in p + 1..p + 3 * n
    BY <1>1
  <1> HIDE DEF p
  <1>8. ASSUME NEW i \in p + 1..p + 3 * n
        PROVE  /\ v[i].kind \in {"block_start", "delta", "block_stop"}
               /\ v[i].kind = "block_start" => \E k \in 1..n : i = p + 3 * (k - 1) + 1
    <2>1. PICK k \in 1..n, j \in 1..3 : i = p + 3 * (k - 1) + j
      BY <1>4
    <2>2. j = 1 \/ j = 2 \/ j = 3
      OBVIOUS
    <2>3. CASE j = 1
      BY <1>3, <2>1, <2>3
    <2>4. CASE j = 2
      BY <1>3, <2>1, <2>4
    <2>5. CASE j = 3
      BY <1>3, <2>1, <2>5
    <2>6. QED
      BY <2>2, <2>3, <2>4, <2>5
  <1>9. ASSUME NEW i \in DOMAIN v
        PROVE  /\ i = 1 <=> v[i].kind = "message_start"
               /\ v[i].kind = "message_stop" => i = p + 3 * n + 2
               /\ v[i].kind = "block_start" => \/ \E j \in 0..m - 1 : i = 3 * j + 2
                                               \/ \E k \in 1..n : i = p + 3 * (k - 1) + 1
    <2>1. CASE i \in 1..p - 1
      <3>1. v[i] = w[i]
        BY <1>2, <2>1
      <3>2. QED
        BY <1>5, <2>1, <3>1
    <2>2. CASE i = p
      <3>1. i # 1
        BY <1>1, <2>2
      <3>2. QED
        BY <1>2, <2>2, <3>1
    <2>3. CASE i = p + 3 * n + 1
      <3>1. i # 1
        BY <1>1, <2>3
      <3>2. QED
        BY <1>2, <2>3, <3>1
    <2>4. CASE i = p + 3 * n + 2
      <3>1. i # 1
        BY <1>1, <2>4
      <3>2. QED
        BY <1>2, <2>4, <3>1
    <2>5. CASE i \in p + 1..p + 3 * n
      <3>1. i # 1
        BY <1>1, <2>5
      <3>2. QED
        BY <1>8, <2>5, <3>1
    <2>6. QED
      BY <1>6, <2>1, <2>2, <2>3, <2>4, <2>5
  <1>10. \A j \in 0..m + n - 1 :
           \/ j \in 0..m - 1 /\ s[j] = 3 * j + 2
           \/ j - m + 1 \in 1..n /\ s[j] = p + 3 * ((j - m + 1) - 1) + 1
    BY <1>1
  <1>11. ASSUME NEW j \in 0..m + n - 1
         PROVE  /\ s[j] \in DOMAIN v /\ v[s[j]].kind = "block_start" /\ v[s[j]].index = j
                /\ v[s[j]].data = <<"tool_use">> <=> j >= m
    <2>1. CASE j \in 0..m - 1
      <3>1. s[j] = 3 * j + 2 /\ 3 * j + 2 \in 1..p - 1 /\ v[s[j]] = w[3 * j + 2] /\ ~(j >= m)
        BY <1>1, <1>2, <1>5, <2>1
      <3>2. s[j] \in DOMAIN v
        BY <1>1, <3>1
      <3> HIDE DEF s
      <3>3. QED
        BY <1>5, <2>1, <3>1, <3>2
    <2>2. CASE j >= m
      <3> DEFINE k == j - m + 1
      <3>1. k \in 1..n /\ s[j] = p + 3 * (k - 1) + 1 /\ m + k - 1 = j
        BY <1>1, <2>2
      <3>2. s[j] \in DOMAIN v
        BY <1>1, <3>1
      <3> HIDE DEF s, k
      <3>3. v[s[j]].kind = "block_start" /\ v[s[j]].data = <<"tool_use">>
        BY <1>3, <3>1
      <3>4. v[s[j]].index = m + k - 1
        BY <1>3, <3>1, 1 \in 1..3
      <3>5. QED
        BY <2>2, <3>1, <3>2, <3>3, <3>4
    <2>3. QED
      BY <1>1, <2>1, <2>2
  <1>12. StartsIn(v) = {s[j] : j \in 0..m + n - 1}
    <2>1. ASSUME NEW i \in StartsIn(v) PROVE \E j \in 0..m + n - 1 : i = s[j]
      <3>1. i \in DOMAIN v /\ v[i].kind = "block_start"
        BY DEF StartsIn
      <3>2. CASE \E j \in 0..m - 1 : i = 3 * j + 2
        <4>1. PICK j \in 0..m - 1 : i = 3 * j + 2
          BY <3>2
        <4>2. j \in 0..m + n - 1 /\ s[j] = 3 * j + 2
          BY <1>1
        <4>3. QED
          BY <4>1, <4>2
      <3>3. CASE \E k \in 1..n : i = p + 3 * (k - 1) + 1
        <4>1. PICK k \in 1..n : i = p + 3 * (k - 1) + 1
          BY <3>3
        <4>2. m + k - 1 \in 0..m + n - 1 /\ s[m + k - 1] = p + 3 * (k - 1) + 1
          BY <1>1
        <4>3. QED
          BY <4>1, <4>2
      <3>4. QED
        BY <1>9, <3>1, <3>2, <3>3
    <2> HIDE DEF s
    <2>2. QED
      BY <1>11, <2>1 DEF StartsIn
  <1>13. ASSUME NEW j \in 0..m + n - 1
         PROVE  /\ e[j] \in 1..Len(v) /\ v[e[j]].kind = "block_stop" /\ v[e[j]].index = j
                /\ s[j] < e[j]
                /\ \A k \in s[j] + 1..e[j] - 1 : v[k].kind = "delta" /\ v[k].index = j
    <2>1. CASE j < m - 1
      <3>1. m = 2 /\ j = 0 /\ s[j] = 2 /\ e[j] = 4
        BY <1>1, <2>1
      <3>2. \A k \in s[j] + 1..e[j] - 1 : k = 3
        BY <3>1
      <3>3. v[3] = w[3] /\ v[4] = w[4] /\ 4 \in 1..Len(v)
        BY <1>1, <1>2, <3>1
      <3> HIDE DEF s, e
      <3>4. QED
        BY <3>1, <3>2, <3>3 DEF OpenMessage
    <2>2. CASE j = m - 1
      <3>1. s[j] = 3 * m - 1 /\ e[j] = p
        BY <1>1, <2>2
      <3>2. \A k \in s[j] + 1..e[j] - 1 : k \in 1..p - 1 /\ k \in 3 * m..Len(w)
        BY <1>1, <3>1
      <3>3. p \in 1..Len(v) /\ 3 * m - 1 < p
        BY <1>1
      <3> HIDE DEF s, e
      <3>4. \A k \in s[j] + 1..e[j] - 1 : v[k].kind = "delta" /\ v[k].index = j
        BY <1>2, <2>2, <3>2 DEF OpenMessage
      <3>5. QED
        BY <1>2, <2>2, <3>1, <3>3, <3>4
    <2>3. CASE j >= m
      <3> DEFINE k == j - m + 1
      <3>1. /\ k \in 1..n /\ s[j] = p + 3 * (k - 1) + 1 /\ e[j] = p + 3 * (k - 1) + 3
            /\ m + k - 1 = j /\ e[j] \in 1..Len(v) /\ s[j] < e[j]
            /\ \A i \in s[j] + 1..e[j] - 1 : i = p + 3 * (k - 1) + 2
        BY <1>1, <2>3
      <3> HIDE DEF s, e, k
      <3>2. /\ v[p + 3 * (k - 1) + 2].kind = "delta" /\ v[p + 3 * (k - 1) + 3].kind = "block_stop"
            /\ v[p + 3 * (k - 1) + 2].index = j /\ v[p + 3 * (k - 1) + 3].index = j
        BY <1>3, <3>1, 2 \in 1..3, 3 \in 1..3
      <3>3. QED
        BY <3>1, <3>2
    <2>4. QED
      BY <1>1, <2>1, <2>2, <2>3
  <1>14. s \in [0..m + n - 1 -> Nat] /\ e \in [0..m + n - 1 -> Nat]
    BY <1>1
  <1>15. ASSUME NEW i \in 0..m + n - 1, NEW j \in 0..m + n - 1, i < j
         PROVE  e[i] < s[j]
    <2>1. CASE j < m
      BY <1>1, <1>15, <2>1
    <2>2. CASE j >= m /\ i < m - 1
      BY <1>1, <1>15, <2>2
    <2>3. CASE j >= m /\ i = m - 1
      BY <1>1, <1>15, <2>3
    <2>4. CASE j >= m /\ i >= m
      BY <1>1, <1>15, <2>4
    <2>5. QED
      BY <1>1, <2>1, <2>2, <2>3, <2>4
  <1> HIDE DEF s, e
  <1>16. Framed(v, m + n, m + n, s, e)
    <2>1. m + n \in Nat \ {0} /\ m + n \in (m + n) - 1..m + n
      BY <1>1
    <2>2. \A j \in 0..m + n - 1 : v[s[j]].index = j /\ s[j] < e[j]
      BY <1>11, <1>13
    <2>3. \A i, j \in 0..m + n - 1 : i < j => e[i] < s[j]
      BY <1>15
    <2>4. \A j \in 0..m + n - 1 :
            /\ e[j] \in 1..Len(v) /\ v[e[j]].kind = "block_stop" /\ v[e[j]].index = j
            /\ \A k \in s[j] + 1..e[j] - 1 : v[k].kind = "delta" /\ v[k].index = j
      BY <1>13
    <2>5. v \in Seq(EventSet)
      BY <1>1
    <2>0. m \in Nat /\ n \in Nat
      BY <1>1
    <2>6. ASSUME NEW b \in Nat, b = m + n PROVE Framed(v, b, b, s, e)
      <3>1. b \in Nat \ {0} /\ b \in b - 1..b
        BY <2>1, <2>6
      <3>2. /\ s \in [0..b - 1 -> Nat] /\ e \in [0..b - 1 -> Nat]
            /\ StartsIn(v) = {s[j] : j \in 0..b - 1}
        BY <1>12, <1>14, <2>0, <2>6
      <3>3. /\ \A j \in 0..b - 1 : v[s[j]].index = j /\ s[j] < e[j]
            /\ \A i, j \in 0..b - 1 : i < j => e[i] < s[j]
        BY <2>2, <2>3, <2>0, <2>6
      <3>4. \A j \in 0..b - 1 :
              /\ e[j] \in 1..Len(v) /\ v[e[j]].kind = "block_stop" /\ v[e[j]].index = j
              /\ \A k \in s[j] + 1..e[j] - 1 : v[k].kind = "delta" /\ v[k].index = j
        BY <2>4, <2>0, <2>6
      <3>5. QED
        BY <2>5, <3>1, <3>2, <3>3, <3>4 DEF Framed
    <2>7. QED
      BY <2>0, <2>6
  <1>17. n > 0 <=> \E b \in StartsIn(v) : v[b].data = <<"tool_use">>
    <2>1. n > 0 => m \in 0..m + n - 1 /\ m >= m
      BY <1>1
    <2>2. n = 0 => \A j \in 0..m + n - 1 : ~(j >= m)
      BY <1>1
    <2>3. n > 0 \/ n = 0
      BY <1>1
    <2>4. QED
      BY <1>11, <1>12, <2>1, <2>2, <2>3
  <1>18. ASSUME NEW i \in DOMAIN v, v[i].kind = "message_stop"
         PROVE  /\ i = Len(v) /\ v[i - 1].kind = "message_delta"
                /\ v[i - 1].data = <<"tool_use">> <=>
                     \E b \in StartsIn(v) : v[b].data = <<"tool_use">>
    <2>1. i = p + 3 * n + 2 /\ i - 1 = p + 3 * n + 1
      BY <1>1, <1>9, <1>18
    <2>2. QED
      BY <1>1, <1>2, <1>17, <2>1
  <1>19. QED
    BY <1>9, <1>16, <1>18, FramedBlocks DEF WellFormed

-----------------------------------------------------------------------------
(* The events of a message that goes on *)

\* What a stream that reads has written, as its flags tell it.
Opened ==
    /\ ms.thinking <=> thoughts = "first"
    /\ ms.text <=> sent > 0
    /\ ms.started <=> ms.thinking \/ ms.text
    /\ ms.index = IF ms.thinking THEN 1 ELSE 0
    /\ ~ms.started => written = <<>>
    /\ ms.started => OpenMessage(written, IF ms.thinking /\ ms.text THEN 2 ELSE 1)
    /\ ms.thinking /\ ~ms.text => Len(written) = 3

MessageInv ==
    /\ EndInv
    /\ thoughts = "late" => sent > 0
    /\ Streaming /\ ~over /\ thoughts # "late" => Opened
    /\ MessageWellFormed

LEMMA AddOne ==
  ASSUME NEW S, NEW w \in Seq(S), NEW x \in S
  PROVE  /\ Len(w) \in Nat
         /\ w \o <<x>> \in Seq(S) /\ Len(w \o <<x>>) = Len(w) + 1
         /\ \A i \in 1..Len(w) : (w \o <<x>>)[i] = w[i]
         /\ (w \o <<x>>)[Len(w) + 1] = x
  <1>1. Len(w) \in Nat /\ <<x>> \in Seq(S) /\ Len(<<x>>) = 1 /\ <<x>>[1] = x
    BY LenProperties
  <1>2. /\ w \o <<x>> \in Seq(S) /\ Len(w \o <<x>>) = Len(w) + 1
        /\ \A i \in 1..Len(w) + 1 :
             (w \o <<x>>)[i] = IF i <= Len(w) THEN w[i] ELSE <<x>>[i - Len(w)]
    BY <1>1, ConcatProperties
  <1> DEFINE v == w \o <<x>>
  <1> HIDE DEF v
  <1>3. QED
    BY <1>1, <1>2 DEF v

\* Three events after those of w.
With(w, x, y, z) == ((w \o <<x>>) \o <<y>>) \o <<z>>

LEMMA AddThree ==
  ASSUME NEW S, NEW w \in Seq(S), NEW x \in S, NEW y \in S, NEW z \in S
  PROVE  /\ With(w, x, y, z) \in Seq(S) /\ Len(w) \in Nat
         /\ Len(With(w, x, y, z)) = Len(w) + 3
         /\ \A i \in 1..Len(w) : With(w, x, y, z)[i] = w[i]
         /\ With(w, x, y, z)[Len(w) + 1] = x
         /\ With(w, x, y, z)[Len(w) + 2] = y
         /\ With(w, x, y, z)[Len(w) + 3] = z
  <1> DEFINE a == w \o <<x>>
             b == a \o <<y>>
             v == b \o <<z>>
  <1>1. /\ Len(w) \in Nat /\ a \in Seq(S) /\ Len(a) = Len(w) + 1
        /\ \A i \in 1..Len(w) : a[i] = w[i]
        /\ a[Len(w) + 1] = x
    BY AddOne
  <1>2. With(w, x, y, z) = v
    BY DEF With
  <1> HIDE DEF a
  <1>3. /\ b \in Seq(S) /\ Len(b) = Len(a) + 1
        /\ \A i \in 1..Len(a) : b[i] = a[i]
        /\ b[Len(a) + 1] = y
    BY <1>1, AddOne
  <1> HIDE DEF b
  <1>4. /\ v \in Seq(S) /\ Len(v) = Len(b) + 1
        /\ \A i \in 1..Len(b) : v[i] = b[i]
        /\ v[Len(b) + 1] = z
    BY <1>3, AddOne
  <1> HIDE DEF v
  <1>5. v \in Seq(S) /\ Len(v) = Len(w) + 3 /\ v[Len(w) + 3] = z
    BY <1>1, <1>3, <1>4
  <1>6. \A i \in 1..Len(w) : v[i] = w[i]
    BY <1>1, <1>3, <1>4
  <1>7. v[Len(w) + 1] = x /\ v[Len(w) + 2] = y
    BY <1>1, <1>3, <1>4
  <1>8. QED
    BY <1>1, <1>2, <1>5, <1>6, <1>7

Is(event, kind, index) == event.kind = kind /\ event.index = index
Starts(event, index) == Is(event, "block_start", index) /\ event.data # <<"tool_use">>

\* A message begins.
LEMMA Begins ==
  ASSUME NEW w \in Seq(EventSet),
         NEW a \in EventSet, NEW b \in EventSet, NEW d \in EventSet,
         Is(a, "message_start", 0), Starts(b, 0), Is(d, "delta", 0)
  PROVE  Len(w) = 0 => OpenMessage(With(w, a, b, d), 1) /\ Len(With(w, a, b, d)) = 3
  <1> DEFINE v == With(w, a, b, d)
  <1>1. SUFFICES ASSUME Len(w) = 0 PROVE OpenMessage(v, 1) /\ Len(v) = 3
    OBVIOUS
  <1>2. /\ v \in Seq(EventSet) /\ Len(v) = Len(w) + 3
        /\ v[Len(w) + 1] = a /\ v[Len(w) + 2] = b /\ v[Len(w) + 3] = d
    BY AddThree
  <1> HIDE DEF v
  <1>3. v \in Seq(EventSet) /\ Len(v) = 3 /\ v[1] = a /\ v[2] = b /\ v[3] = d
    BY <1>1, <1>2
  <1>4. (\A j \in 0..1 - 1 : j = 0) /\ 3 * 0 + 2 = 2 /\ (\A i \in 3 * 1..3 : i = 3)
    OBVIOUS
  <1>5. OpenMessage(v, 1)
    BY <1>3, <1>4 DEF OpenMessage, Is, Starts
  <1>6. QED
    BY <1>3, <1>5

\* The second block follows the first.
LEMMA SecondBlock ==
  ASSUME NEW w, OpenMessage(w, 1),
         NEW a \in EventSet, NEW b \in EventSet, NEW d \in EventSet,
         Is(a, "block_stop", 0), Starts(b, 1), Is(d, "delta", 1)
  PROVE  Len(w) = 3 => OpenMessage(With(w, a, b, d), 2)
  <1> DEFINE v == With(w, a, b, d)
  <1>1. w \in Seq(EventSet)
    BY DEF OpenMessage
  <1>0. SUFFICES ASSUME Len(w) = 3 PROVE OpenMessage(v, 2)
    OBVIOUS
  <1>2. /\ v \in Seq(EventSet) /\ Len(v) = 6
        /\ v[4] = a /\ v[5] = b /\ v[6] = d
        /\ \A i \in 1..3 : v[i] = w[i]
    <2>1. /\ v \in Seq(EventSet) /\ Len(v) = Len(w) + 3
          /\ \A i \in 1..Len(w) : v[i] = w[i]
          /\ v[Len(w) + 1] = a /\ v[Len(w) + 2] = b /\ v[Len(w) + 3] = d
      <3> HIDE DEF v
      <3>1. v = With(w, a, b, d)
        BY DEF v
      <3>2. /\ With(w, a, b, d) \in Seq(EventSet)
            /\ Len(With(w, a, b, d)) = Len(w) + 3
        BY <1>1, AddThree
      <3>3. \A i \in 1..Len(w) : With(w, a, b, d)[i] = w[i]
        BY <1>1, AddThree
      <3>4. /\ With(w, a, b, d)[Len(w) + 1] = a
            /\ With(w, a, b, d)[Len(w) + 2] = b
            /\ With(w, a, b, d)[Len(w) + 3] = d
        BY <1>1, AddThree
      <3>5. QED
        BY <3>1, <3>2, <3>3, <3>4
    <2> HIDE DEF v
    <2>2. QED
      BY <1>0, <2>1
  <1> HIDE DEF v
  <1>3. /\ v[1] = w[1] /\ v[2] = w[2] /\ v[3] = w[3]
    BY <1>2
  <1>4. /\ w[1].kind = "message_start"
        /\ w[2].kind = "block_start" /\ w[2].index = 0 /\ w[2].data # <<"tool_use">>
        /\ w[3].kind = "delta" /\ w[3].index = 0
    <2>1. 0 \in 0..1 - 1 /\ 3 * 0 + 2 = 2 /\ 3 \in 3 * 1..3 /\ 1 - 1 = 0
      OBVIOUS
    <2>2. QED
      BY <2>1 DEF OpenMessage
  <1>5. ASSUME NEW j \in 0..2 - 1
        PROVE  /\ v[3 * j + 2].kind = "block_start" /\ v[3 * j + 2].index = j
               /\ v[3 * j + 2].data # <<"tool_use">>
    <2>1. (j = 0 /\ 3 * j + 2 = 2) \/ (j = 1 /\ 3 * j + 2 = 5)
      OBVIOUS
    <2>2. QED
      BY <1>2, <1>3, <1>4, <2>1 DEF Is, Starts
  <1>6. \A i \in 3 * 2..6 : i = 6
    OBVIOUS
  <1>7. OpenMessage(v, 2)
    BY <1>0, <1>2, <1>3, <1>4, <1>5, <1>6 DEF OpenMessage, Is, Starts
  <1>8. QED
    BY <1>7 DEF v

\* The last block goes on.
LEMMA BlockGoesOn ==
  ASSUME NEW w, NEW m, OpenMessage(w, m), NEW d \in EventSet,
         d.kind = "delta", d.index = m - 1
  PROVE  OpenMessage(w \o <<d>>, m)
  <1> DEFINE v == w \o <<d>>
  <1>1. w \in Seq(EventSet) /\ Len(w) \in Nat /\ m \in {1, 2} /\ Len(w) >= 3 * m
    BY OpenEvents DEF OpenMessage
  <1>2. /\ v \in Seq(EventSet) /\ Len(v) = Len(w) + 1
        /\ \A i \in 1..Len(w) : v[i] = w[i]
        /\ v[Len(w) + 1] = d
    BY <1>1, AddOne
  <1> HIDE DEF v
  <1>3. v[1] = w[1] /\ (m = 2 => v[3] = w[3] /\ v[4] = w[4])
    BY <1>1, <1>2
  <1>4. \A j \in 0..m - 1 : v[3 * j + 2] = w[3 * j + 2]
    <2>1. \A j \in 0..m - 1 : 3 * j + 2 \in 1..Len(w)
      BY <1>1
    <2>2. QED
      BY <1>2, <2>1
  <1>5. \A i \in 3 * m..Len(v) : v[i].kind = "delta" /\ v[i].index = m - 1
    <2>1. \A i \in 3 * m..Len(v) : i = Len(w) + 1 \/ (i \in 1..Len(w) /\ i \in 3 * m..Len(w))
      BY <1>1, <1>2
    <2>2. QED
      BY <1>2, <2>1 DEF OpenMessage
  <1>6. OpenMessage(v, m)
    <2>1. m \in 1..2 /\ Len(v) >= 3 * m
      BY <1>1, <1>2
    <2>2. QED
      BY <1>2, <1>3, <1>4, <1>5, <2>1 DEF OpenMessage
  <1>7. QED
    BY <1>6 DEF v

\* The events the two handlers of chunks write.
LEMMA WrittenEvents ==
  ASSUME MessageTypes, NEW v \in Seq(STRING)
  PROVE  /\ Event("message_start", 0, <<>>) \in EventSet
         /\ Event("block_stop", 0, <<>>) \in EventSet
         /\ Event("block_start", 0, <<"thinking">>) \in EventSet
         /\ Event("block_start", ms.index, <<"text">>) \in EventSet
         /\ Event("delta", 0, <<"thought">>) \in EventSet
         /\ Event("delta", ms.index, ArtifactsGone(Increment(v))) \in EventSet
         /\ Is(Event("message_start", 0, <<>>), "message_start", 0)
         /\ Is(Event("block_stop", 0, <<>>), "block_stop", 0)
         /\ Starts(Event("block_start", 0, <<"thinking">>), 0)
         /\ Starts(Event("block_start", ms.index, <<"text">>), ms.index)
         /\ Is(Event("delta", 0, <<"thought">>), "delta", 0)
         /\ Is(Event("delta", ms.index, ArtifactsGone(Increment(v))), "delta", ms.index)
  <1>1. /\ {"message_start", "block_start", "block_stop", "delta"} \subseteq EventKinds
        /\ 0 \in Nat /\ ms.index \in Nat
        /\ <<>> \in Data /\ <<"thinking">> \in Data /\ <<"text">> \in Data /\ <<"thought">> \in Data
    BY EmptySeq DEF EventKinds, Data, MessageTypes
  <1>2. ArtifactsGone(Increment(v)) \in Data
    BY IncrementIs, ArtifactsGoneType DEF Data, MessageTypes
  <1>3. <<"thinking">> # <<"tool_use">> /\ <<"text">> # <<"tool_use">>
    OBVIOUS
  <1>4. \A k \in EventKinds, i \in Nat, data \in Data :
          Event(k, i, data) \in EventSet /\ Is(Event(k, i, data), k, i)
    BY EventType DEF Is
  <1>5. \A i \in Nat, data \in Data : data # <<"tool_use">> => Starts(Event("block_start", i, data), i)
    BY <1>1, <1>4 DEF Starts, Event
  <1>6. QED
    BY <1>1, <1>2, <1>3, <1>4, <1>5, Zenon

LEMMA OpenText ==
  ASSUME MessageTypes, Opened, thoughts # "late",
         NEW c \in Chunks, SendChunk(c), WriteText(c.v)
  PROVE  Opened'
  <1> DEFINE a == Event("message_start", 0, <<>>)
             x == Event("block_stop", 0, <<>>)
             b == Event("block_start", ms.index, <<"text">>)
             d == Event("delta", ms.index, ArtifactsGone(Increment(c.v)))
             m == IF ms.thinking THEN 2 ELSE 1
  <1>1. c.v \in Seq(STRING) /\ c.end \in 1..Len(text)
    BY ChunkTypes
  <1>2. sent' > 0 /\ thoughts' = thoughts
    BY <1>1 DEF SendChunk
  <1>3. /\ ms'.started /\ ms'.text /\ ms'.thinking = ms.thinking /\ ms'.index = ms.index
        /\ ms.thinking \in BOOLEAN /\ ms.text \in BOOLEAN /\ ms.started \in BOOLEAN
    BY DEF WriteText, MessageTypes
  <1>4. /\ a \in EventSet /\ x \in EventSet /\ b \in EventSet /\ d \in EventSet
        /\ Is(a, "message_start", 0) /\ Is(x, "block_stop", 0)
        /\ Starts(b, ms.index) /\ Is(d, "delta", ms.index)
    BY <1>1, WrittenEvents
  <1>5. written' = (((written \o When(~ms.started, <<a>>)) \o When(ClosesThinking, <<x>>))
                     \o When(~ms.text, <<b>>)) \o <<d>>
    BY DEF WriteText
  <1>6. written \in Seq(EventSet) /\ Len(written) \in Nat
    BY LenProperties DEF MessageTypes
  <1> HIDE DEF a, x, b, d
  <1>7. OpenMessage(written', m)
    <2>1. CASE ~ms.started
      <3>1. ~ms.thinking /\ ~ms.text /\ ms.index = 0 /\ written = <<>> /\ m = 1
        BY <2>1 DEF Opened
      <3>2. When(~ms.started, <<a>>) = <<a>> /\ When(ClosesThinking, <<x>>) = <<>>
            /\ When(~ms.text, <<b>>) = <<b>>
        BY <2>1, <3>1 DEF When, ClosesThinking
      <3>3. (written \o <<a>>) \o <<>> = written \o <<a>>
        BY <1>4, <1>6, AddOne, ConcatEmptySeq
      <3>4. written' = With(written, a, b, d)
        BY <1>5, <3>2, <3>3 DEF With
      <3>5. Len(written) = 0
        BY <3>1, EmptySeq
      <3>6. Starts(b, 0) /\ Is(d, "delta", 0)
        BY <1>4, <3>1
      <3>7. OpenMessage(With(written, a, b, d), 1)
        BY <1>4, <1>6, <3>5, <3>6, Begins
      <3>8. QED
        BY <3>1, <3>4, <3>7
    <2>2. CASE ms.thinking /\ ~ms.text
      <3>1. ms.started /\ ms.index = 1 /\ Len(written) = 3 /\ OpenMessage(written, 1) /\ m = 2
        BY <2>2 DEF Opened
      <3>2. When(~ms.started, <<a>>) = <<>> /\ When(ClosesThinking, <<x>>) = <<x>>
            /\ When(~ms.text, <<b>>) = <<b>>
        BY <2>2, <3>1 DEF When, ClosesThinking
      <3>3. written \o <<>> = written
        BY <1>6, ConcatEmptySeq
      <3>4. written' = With(written, x, b, d)
        BY <1>5, <3>2, <3>3 DEF With
      <3>5. Starts(b, 1) /\ Is(d, "delta", 1)
        BY <1>4, <3>1
      <3>6. OpenMessage(With(written, x, b, d), 2)
        BY <1>4, <3>1, <3>5, SecondBlock
      <3>7. QED
        BY <3>1, <3>4, <3>6
    <2>3. CASE ms.text
      <3>1. ms.started /\ OpenMessage(written, m) /\ ms.index = m - 1
        BY <2>3 DEF Opened
      <3>2. When(~ms.started, <<a>>) = <<>> /\ When(ClosesThinking, <<x>>) = <<>>
            /\ When(~ms.text, <<b>>) = <<>>
        BY <2>3, <3>1 DEF When, ClosesThinking
      <3>3. written \o <<>> = written
        BY <1>6, ConcatEmptySeq
      <3>4. written' = written \o <<d>>
        BY <1>5, <3>2, <3>3
      <3>5. d.kind = "delta" /\ d.index = m - 1
        BY <1>4, <3>1 DEF Is
      <3> HIDE DEF m
      <3>6. OpenMessage(written \o <<d>>, m)
        BY <1>4, <3>1, <3>5, BlockGoesOn
      <3>7. QED
        BY <3>4, <3>6
    <2>4. QED
      BY <1>3, <2>1, <2>2, <2>3 DEF Opened
  <1>8. OpenMessage(written', IF ms'.thinking /\ ms'.text THEN 2 ELSE 1)
    BY <1>3, <1>7
  <1> HIDE DEF m
  <1>9. (ms'.thinking <=> thoughts' = "first") /\ ms'.index = IF ms'.thinking THEN 1 ELSE 0
    BY <1>2, <1>3 DEF Opened
  <1>10. QED
    BY <1>2, <1>3, <1>8, <1>9 DEF Opened

LEMMA OpenThought ==
  ASSUME MessageTypes, Opened, thoughts # "late", thoughts' # "late",
         SendThought, WriteThought
  PROVE  Opened'
  <1> DEFINE a == Event("message_start", 0, <<>>)
             b == Event("block_start", 0, <<"thinking">>)
             d == Event("delta", 0, <<"thought">>)
  <1>1. thoughts' = "first" /\ thoughts = "none" /\ sent' = sent /\ ~(sent > 0)
    BY DEF SendThought, MessageTypes
  <1>2. /\ ~ms.started /\ ~ms.thinking /\ ~ms.text /\ written = <<>>
        /\ ms'.started /\ ms'.thinking /\ ~ms'.text /\ ms'.index = 1
    BY <1>1 DEF Opened, WriteThought, MessageTypes
  <1>3. /\ a \in EventSet /\ b \in EventSet /\ d \in EventSet
        /\ Is(a, "message_start", 0) /\ Starts(b, 0) /\ Is(d, "delta", 0)
    <2>1. <<>> \in Seq(STRING)
      BY EmptySeq
    <2>2. QED
      BY <2>1, WrittenEvents
  <1>4. written' = ((written \o When(~ms.started, <<a>>)) \o When(~ms.thinking, <<b>>)) \o <<d>>
    BY DEF WriteThought
  <1> HIDE DEF a, b, d
  <1>5. When(~ms.started, <<a>>) = <<a>> /\ When(~ms.thinking, <<b>>) = <<b>>
    BY <1>2 DEF When
  <1>6. written' = With(written, a, b, d)
    BY <1>4, <1>5 DEF With
  <1>7. written \in Seq(EventSet) /\ Len(written) = 0
    BY <1>2, EmptySeq
  <1>8. OpenMessage(written', 1) /\ Len(written') = 3
    BY <1>3, <1>6, <1>7, Begins
  <1>9. QED
    BY <1>1, <1>2, <1>8 DEF Opened

-----------------------------------------------------------------------------
(* Every message is well formed *)

LEMMA ClosedMessage ==
  ASSUME MessageTypes, Opened, ms.started, WriteEnd
  PROVE  WellFormed(written', TRUE)
  <1> DEFINE m == IF ms.thinking /\ ms.text THEN 2 ELSE 1
             n == Len(ToolBlocks)
             x == Event("block_stop", m - 1, <<>>)
             y == Event("message_delta", 0, <<StopReason>>)
             z == Event("message_stop", 0, <<>>)
             p == Len(written) + 1
  <1>1. OpenMessage(written, m) /\ m \in 1..2
    BY DEF Opened
  <1>2. written \in Seq(EventSet) /\ Len(written) \in Nat /\ p \in Nat
    BY LenProperties DEF MessageTypes
  <1>3. /\ x \in EventSet /\ y \in EventSet /\ z \in EventSet
        /\ x.kind = "block_stop" /\ x.index = m - 1
        /\ y.kind = "message_delta" /\ y.data = <<StopReason>> /\ z.kind = "message_stop"
    <2>1. /\ {"message_delta", "block_stop", "message_stop"} \subseteq EventKinds
          /\ 0 \in Nat /\ m - 1 \in Nat /\ <<>> \in Data /\ <<StopReason>> \in Data
      BY EmptySeq DEF EventKinds, Data, StopReason
    <2>2. \A k \in EventKinds, i \in Nat, data \in Data :
            /\ Event(k, i, data) \in EventSet /\ Event(k, i, data).kind = k
            /\ Event(k, i, data).index = i /\ Event(k, i, data).data = data
      BY EventType
    <2>3. x \in EventSet /\ x.kind = "block_stop" /\ x.index = m - 1
      <3> HIDE DEF m
      <3>1. QED
        BY <2>1, <2>2
    <2>4. /\ y \in EventSet /\ z \in EventSet
          /\ y.kind = "message_delta" /\ y.data = <<StopReason>> /\ z.kind = "message_stop"
      BY <2>1, <2>2
    <2>5. QED
      BY <2>3, <2>4
  <1>4. FirstToolIndex = m
    BY DEF Opened, FirstToolIndex, MessageTypes
  <1>5. written' = ((written \o <<x>>) \o FlattenSeq(ToolBlocks)) \o <<y, z>>
    <2>1. written' = (((written \o When(ms.text, <<Event("block_stop", ms.index, <<>>)>>))
                        \o When(ms.thinking /\ ~ms.text, <<Event("block_stop", 0, <<>>)>>))
                        \o FlattenSeq(ToolBlocks)) \o <<y, z>>
      BY DEF WriteEnd, ToolBlocks
    <2>2. CASE ms.text
      <3>1. ms.index = m - 1
        BY <2>2 DEF Opened
      <3>2. /\ When(ms.text, <<Event("block_stop", ms.index, <<>>)>>) = <<x>>
            /\ When(ms.thinking /\ ~ms.text, <<Event("block_stop", 0, <<>>)>>) = <<>>
        BY <2>2, <3>1 DEF When
      <3> HIDE DEF x, y, z
      <3>3. (written \o <<x>>) \o <<>> = written \o <<x>>
        BY <1>2, <1>3, AddOne, ConcatEmptySeq
      <3>4. QED
        BY <2>1, <3>2, <3>3
    <2>3. CASE ~ms.text
      <3>1. ms.thinking /\ m - 1 = 0
        BY <2>3 DEF Opened
      <3>2. /\ When(ms.text, <<Event("block_stop", ms.index, <<>>)>>) = <<>>
            /\ When(ms.thinking /\ ~ms.text, <<Event("block_stop", 0, <<>>)>>) = <<x>>
        BY <2>3, <3>1 DEF When
      <3> HIDE DEF x, y, z
      <3>3. written \o <<>> = written
        BY <1>2, ConcatEmptySeq
      <3>4. QED
        BY <2>1, <3>2, <3>3
    <2>4. QED
      BY <2>2, <2>3
  <1>6. /\ n \in Nat /\ n = Len(ValidCalls) /\ ToolBlocks \in Seq(Seq(EventSet))
        /\ \A i \in 1..n :
             /\ Len(ToolBlocks[i]) = 3
             /\ ToolBlocks[i][1] = Event("block_start", m + i - 1, <<"tool_use">>)
             /\ ToolBlocks[i][2] = Event("delta", m + i - 1, ValidCalls[i])
             /\ ToolBlocks[i][3] = Event("block_stop", m + i - 1, <<>>)
    BY <1>4, ToolBlocksAre
  <1> HIDE DEF x, y, z
  <1>7. /\ written' \in Seq(EventSet) /\ Len(written') = p + 3 * n + 2
        /\ \A i \in 1..Len(written) : written'[i] = written[i]
        /\ written'[p] = x
        /\ \A k \in 1..n, j \in 1..3 : written'[p + 3 * (k - 1) + j] = ToolBlocks[k][j]
        /\ written'[p + 3 * n + 1] = y /\ written'[p + 3 * n + 2] = z
        /\ \A i \in p + 1..p + 3 * n : \E k \in 1..n, j \in 1..3 : i = p + 3 * (k - 1) + j
    <2> DEFINE v == ((written \o <<x>>) \o FlattenSeq(ToolBlocks)) \o <<y, z>>
    <2>1. /\ v \in Seq(EventSet) /\ Len(v) = p + 3 * n + 2
          /\ \A i \in 1..Len(written) : v[i] = written[i]
          /\ v[p] = x
          /\ \A k \in 1..n, j \in 1..3 : v[p + 3 * (k - 1) + j] = ToolBlocks[k][j]
          /\ v[p + 3 * n + 1] = y /\ v[p + 3 * n + 2] = z
          /\ \A i \in p + 1..p + 3 * n : \E k \in 1..n, j \in 1..3 : i = p + 3 * (k - 1) + j
      <3>1. /\ ToolBlocks \in Seq(Seq(EventSet))
            /\ \A i \in 1..Len(ToolBlocks) : Len(ToolBlocks[i]) = 3
        BY <1>6
      <3>2. written \in Seq(EventSet) /\ x \in EventSet /\ y \in EventSet /\ z \in EventSet
        BY <1>2, <1>3
      <3>3. Layout(v, EventSet, written, x, ToolBlocks, y, z)
        BY <3>1, <3>2, EndEvents
      <3> HIDE DEF v
      <3>4. QED
        BY <3>3 DEF Layout
    <2>2. written' = v
      BY <1>5
    <2> HIDE DEF v, p, n
    <2>3. QED
      BY <2>1, <2>2
  <1>8. <<StopReason>> = <<"tool_use">> <=> n > 0
    <2>1. ValidCalls # <<>> <=> n > 0
      BY <1>6, ValidCallsType, EmptySeq, LenProperties
    <2>2. QED
      BY <2>1 DEF StopReason
  <1>9. \A i \in 1..n : m + i - 1 \in Nat /\ ValidCalls[i] \in Data
    <2>1. \A i \in 1..n : ValidCalls[i] \in Seq(STRING)
      BY <1>6, ValidCallsType, ElementOfSeq
    <2>2. QED
      BY <1>1, <1>6, <2>1 DEF Data
  <1> HIDE DEF n, m, p
  <1>10. ASSUME NEW k \in 1..n
         PROVE  /\ written'[p + 3 * (k - 1) + 1].kind = "block_start"
                /\ written'[p + 3 * (k - 1) + 1].data = <<"tool_use">>
                /\ written'[p + 3 * (k - 1) + 2].kind = "delta"
                /\ written'[p + 3 * (k - 1) + 3].kind = "block_stop"
                /\ \A j \in 1..3 : written'[p + 3 * (k - 1) + j].index = m + k - 1
    <2>1. /\ "block_start" \in EventKinds /\ "delta" \in EventKinds /\ "block_stop" \in EventKinds
          /\ <<"tool_use">> \in Data /\ <<>> \in Data
      BY EmptySeq DEF EventKinds, Data
    <2>2. /\ written'[p + 3 * (k - 1) + 1] = Event("block_start", m + k - 1, <<"tool_use">>)
          /\ written'[p + 3 * (k - 1) + 2] = Event("delta", m + k - 1, ValidCalls[k])
          /\ written'[p + 3 * (k - 1) + 3] = Event("block_stop", m + k - 1, <<>>)
      BY <1>6, <1>7
    <2>3. /\ written'[p + 3 * (k - 1) + 1].index = m + k - 1
          /\ written'[p + 3 * (k - 1) + 2].index = m + k - 1
          /\ written'[p + 3 * (k - 1) + 3].index = m + k - 1
      BY <2>2 DEF Event
    <2>4. \A j \in 1..3 : j = 1 \/ j = 2 \/ j = 3
      OBVIOUS
    <2>5. \A j \in 1..3 : written'[p + 3 * (k - 1) + j].index = m + k - 1
      BY <2>3, <2>4
    <2>6. QED
      BY <2>2, <2>5 DEF Event
  <1>11. Ended(written', written, m, n)
    BY <1>2, <1>3, <1>6, <1>7, <1>8, <1>10 DEF Ended, p
  <1>12. QED
    BY <1>1, <1>11, EndedMessage

LEMMA BrokenMessage ==
  ASSUME MessageTypes, Opened, ms.started, WriteError
  PROVE  WellFormed(written', FALSE)
  <1> DEFINE m == IF ms.thinking /\ ms.text THEN 2 ELSE 1
  <1>1. OpenMessage(written, m) /\ written \in Seq(EventSet)
    BY DEF Opened, MessageTypes
  <1>2. /\ Event("error", 0, <<>>) \in EventSet /\ Event("[DONE]", 0, <<>>) \in EventSet
        /\ Event("error", 0, <<>>).kind = "error" /\ Event("[DONE]", 0, <<>>).kind = "[DONE]"
    <2>1. "error" \in EventKinds /\ "[DONE]" \in EventKinds /\ <<>> \in Data /\ 0 \in Nat
      BY EmptySeq DEF EventKinds, Data
    <2>2. Event("error", 0, <<>>) \in EventSet /\ Event("[DONE]", 0, <<>>) \in EventSet
      BY <2>1, EventType
    <2>3. QED
      BY <2>2 DEF Event
  <1>3. /\ written' \in Seq(EventSet) /\ Len(written') = Len(written) + 2
        /\ \A i \in 1..Len(written) : written'[i] = written[i]
        /\ written'[Len(written) + 1] = Event("error", 0, <<>>)
        /\ written'[Len(written) + 2] = Event("[DONE]", 0, <<>>)
    BY <1>1, <1>2, AddTwo DEF WriteError
  <1> HIDE DEF m
  <1>4. QED
    BY <1>1, <1>2, <1>3, FailedMessage

LEMMA MessageStarts == Init => MessageInv
  <1> SUFFICES ASSUME Init PROVE MessageInv
    OBVIOUS
  <1>1. EndInv
    BY EndInit
  <1>2. Opened
    BY DEF Opened, Init, FeedInit, MessageInit
  <1>3. thoughts # "late" /\ ~over
    BY DEF Init, FeedInit
  <1>4. QED
    BY <1>1, <1>2, <1>3 DEF MessageInv, MessageWellFormed

LEMMA MessageReads ==
  ASSUME MessageInv, AnswerChunk \/ Thought \/ LocalTool \/ UpstreamError
  PROVE  MessageInv'
  <1>1. EndInv' /\ MessageTypes /\ ~over /\ ~over' /\ route' = route
    <2>1. EndInv'
      BY EndReads DEF MessageInv
    <2>2. QED
      BY <2>1 DEF MessageInv, EndInv, AnswerChunk, Thought, LocalTool, UpstreamError, Reads, routeVars
  <1>2. thoughts' = "late" => sent' > 0
    <2>1. CASE AnswerChunk
      <3>1. PICK c \in Chunks : SendChunk(c)
        BY <2>1 DEF AnswerChunk
      <3>2. c.end \in 1..Len(text) /\ Len(text) \in Nat
        BY <1>1, ChunkTypes, FeedAssumption, LenProperties DEF MessageTypes
      <3>3. QED
        BY <3>1, <3>2 DEF SendChunk
    <2>2. CASE Thought
      BY <2>2 DEF Thought, SendThought
    <2>3. CASE LocalTool \/ UpstreamError
      BY <2>3 DEF LocalTool, SendLocal, UpstreamError, feedVars, MessageInv
    <2>4. QED
      BY <2>1, <2>2, <2>3
  <1>3. ASSUME Streaming', thoughts' # "late" PROVE Opened'
    <2>1. Streaming
      BY <1>1, <1>3 DEF Streaming
    <2>2. thoughts # "late"
      <3>1. CASE AnswerChunk \/ LocalTool \/ UpstreamError
        BY <1>3, <3>1 DEF AnswerChunk, SendChunk, LocalTool, SendLocal, UpstreamError, feedVars
      <3>2. CASE Thought
        BY <1>3, <3>2 DEF Thought, SendThought, MessageInv
      <3>3. QED
        BY <3>1, <3>2
    <2>3. Opened
      BY <1>1, <2>1, <2>2 DEF MessageInv
    <2>4. CASE AnswerChunk
      <3>1. PICK c \in Chunks : SendChunk(c) /\ WriteText(c.v)
        BY <2>1, <2>4 DEF AnswerChunk
      <3>2. QED
        BY <1>1, <2>2, <2>3, <3>1, OpenText
    <2>5. CASE Thought
      BY <1>1, <1>3, <2>1, <2>2, <2>3, <2>5, OpenThought DEF Thought
    <2>6. CASE LocalTool \/ UpstreamError
      <3>1. UNCHANGED <<ms, written, thoughts, sent>>
        BY <2>6 DEF LocalTool, SendLocal, UpstreamError, feedVars, messageVars
      <3>2. QED
        BY <2>3, <3>1 DEF Opened
    <2>7. QED
      BY <2>4, <2>5, <2>6
  <1>4. MessageWellFormed'
    BY <1>1 DEF MessageWellFormed
  <1>5. QED
    BY <1>1, <1>2, <1>3, <1>4 DEF MessageInv

LEMMA MessageEnds ==
  ASSUME MessageInv, EndAnswer \/ EndStream \/ Document \/ ReadFails
  PROVE  MessageInv'
  <1>1. /\ EndInv' /\ EndInv /\ MessageTypes /\ ~over /\ over' /\ route' = route
        /\ thoughts' = thoughts /\ sent' = sent
    <2>1. EndInv'
      BY EndEnds DEF MessageInv
    <2>2. \E ok, failed, times : Closed(ok, failed, times)
      BY DEF EndAnswer, EndStream, Document, ReadFails
    <2>3. QED
      BY <2>1, <2>2 DEF MessageInv, EndInv, EndAnswer, EndStream, Document, ReadFails,
                        Closed, feedVars
  <1>2. Streaming <=> Streaming'
    BY <1>1 DEF Streaming
  <1>3. ASSUME Streaming', thoughts' # "late", ms'.started
        PROVE  WellFormed(written', success')
    <2>1. Opened
      BY <1>1, <1>2, <1>3 DEF MessageInv
    <2>2. CASE EndStream \/ Document
      <3>1. WriteEnd /\ success' = TRUE
        BY <1>2, <1>3, <2>2 DEF EndStream, Document, Closed
      <3>2. ms.started
        BY <1>3, <3>1 DEF WriteEnd
      <3>3. QED
        BY <1>1, <2>1, <3>1, <3>2, ClosedMessage
    <2>3. CASE ReadFails
      <3>1. WriteError /\ success' = FALSE
        BY <1>2, <1>3, <2>3 DEF ReadFails, Closed
      <3>2. ms.started
        BY <1>3, <3>1 DEF WriteError
      <3>3. QED
        BY <1>1, <2>1, <3>1, <3>2, BrokenMessage
    <2>4. QED
      BY <1>2, <1>3, <2>2, <2>3 DEF EndAnswer
  <1>4. MessageWellFormed'
    BY <1>3 DEF MessageWellFormed, WellFormed, StartsIn, ClosesIn, Blocks, Closes
  <1>5. QED
    BY <1>1, <1>4 DEF MessageInv

LEMMA MessageNext == MessageInv /\ [Next]_vars => MessageInv'
  <1>1. CASE MessageInv /\ UNCHANGED vars
    <2>1. EndInv'
      BY <1>1, EndNext DEF MessageInv
    <2>2. UNCHANGED <<sent, thoughts, ms, written, route, over, success>>
      BY <1>1 DEF vars, feedVars, messageVars, routeVars
    <2>3. (Streaming <=> Streaming') /\ (Opened <=> Opened')
      BY <2>2 DEF Streaming, Opened
    <2>6. Streaming' /\ over' /\ thoughts' # "late" /\ ms'.started => WellFormed(written', success')
      BY <1>1, <2>2, <2>3, WellFormedIs DEF MessageInv
    <2>4. MessageWellFormed'
      BY <2>6 DEF MessageWellFormed, WellFormed, StartsIn, ClosesIn, Blocks, Closes
    <2>5. QED
      BY <1>1, <2>1, <2>2, <2>3, <2>4 DEF MessageInv
  <1>2. QED
    BY <1>1, MessageReads, MessageEnds DEF Next

THEOREM MessageInvariant == Spec => []MessageInv
  BY MessageStarts, MessageNext, PTL DEF Spec

\* The events of a streamed message are those the Anthropic API promises: blocks one
\* after the other, numbered from 0 and closed, one end, and a stop reason that tells
\* of tool calls when there are any; for every text, cut, resend and call, if the
\* upstream does not reason after it has begun to write (anthropic.ts:747-1077).
THEOREM BlocksAreWellFormed == Spec => []MessageWellFormed
  <1>1. MessageInv => MessageWellFormed
    BY DEF MessageInv
  <1>2. QED
    BY <1>1, MessageInvariant, PTL

-----------------------------------------------------------------------------
(* What the guard does with the calls of an answer *)

\* A call is its name and arguments.
Calls == Seq(STRING)

\* How often a call occurs in a sequence is a count.
LEMMA TimesIs ==
  ASSUME NEW S, NEW s \in Seq(S), NEW c
  PROVE  Times(c, s) = Count(s, {c}) /\ Times(c, s) \in Nat
         /\ (Times(c, s) > 0 <=> c \in ToSet(s))
  <1>1. DOMAIN s = 1..Len(s)
    BY LenProperties
  <1>2. {i \in DOMAIN s : s[i] = c} = {k \in 1..Len(s) : s[k] \in {c}}
    BY <1>1
  <1>3. Times(c, s) = Count(s, {c})
    BY <1>2, Zenon DEF Times, Count
  <1>4. c \in ToSet(s) <=> \E k \in 1..Len(s) : s[k] \in {c}
    BY <1>1 DEF ToSet
  <1>5. QED
    BY <1>3, <1>4, CountType

\* A call more.
LEMMA TimesAppend ==
  ASSUME NEW S, NEW s \in Seq(S), NEW d \in S, NEW c
  PROVE  Times(c, Append(s, d)) = Times(c, s) + IF c = d THEN 1 ELSE 0
  <1>1. <<d>> \in Seq(S) /\ Len(<<d>>) = 1 /\ <<d>>[1] = d
    OBVIOUS
  <1>2. Append(s, d) \in Seq(S) /\ s \o <<d>> = Append(s, d)
    BY <1>1, AppendProperties, ConcatProperties, AppendIsConcat
  <1>3. Count(s \o <<d>>, {c}) = Count(s, {c}) + Count(<<d>>, {c})
    <2> DEFINE r == <<d>>
               C == {c}
    <2>1. r \in Seq(S)
      BY <1>1
    <2> HIDE DEF r, C
    <2>2. Count(s \o r, C) = Count(s, C) + Count(r, C)
      BY <2>1, CountConcat
    <2>3. QED
      BY <2>2 DEF r, C
  <1>4. Count(<<d>>, {c}) = IF c = d THEN 1 ELSE 0
    <2> DEFINE K == {k \in 1..Len(<<d>>) : <<d>>[k] \in {c}}
    <2>1. K = IF c = d THEN {1} ELSE {}
      BY <1>1
    <2> HIDE DEF K
    <2>2. Cardinality(K) = IF c = d THEN 1 ELSE 0
      BY <2>1, FS_EmptySet, FS_Singleton
    <2>3. QED
      BY <2>2, Zenon DEF Count, K
  <1>5. QED
    BY <1>2, <1>3, <1>4, TimesIs

\* What a beginning holds, the whole holds.
LEMMA CountPrefix ==
  ASSUME NEW S, NEW s \in Seq(S), NEW i \in 0..Len(s), NEW C
  PROVE  /\ SubSeq(s, 1, i) \in Seq(S) /\ Len(SubSeq(s, 1, i)) = i
         /\ \A k \in 1..i : SubSeq(s, 1, i)[k] = s[k]
         /\ Count(SubSeq(s, 1, i), C) <= Count(s, C)
  <1> DEFINE r == SubSeq(s, 1, i)
             K == {k \in 1..Len(r) : r[k] \in C}
             L == {k \in 1..Len(s) : s[k] \in C}
  <1>1. Len(s) \in Nat /\ i \in Nat /\ i <= Len(s)
    BY LenProperties
  <1>2. \A k \in 1..i : s[k] \in S
    BY <1>1, ElementOfSeq
  <1>3. r \in Seq(S) /\ Len(r) = i /\ \A k \in 1..i : r[k] = s[k]
    BY <1>1, <1>2, SubSeqProperties
  <1> HIDE DEF r
  <1>4. K \subseteq L
    BY <1>1, <1>3
  <1>5. IsFiniteSet(L) /\ Cardinality(L) \in Nat
    BY CountType, FS_CardinalityType
  <1> HIDE DEF K, L
  <1>6. Cardinality(K) <= Cardinality(L)
    BY <1>4, <1>5, FS_Subset
  <1>7. QED
    BY <1>3, <1>6, Zenon DEF Count, K, L, r

-----------------------------------------------------------------------------
(* What the guard lets through *)

\* What the guard keeps for an answer.
Guards == [out : Seq(Calls), history : Seq(Calls), rejected : BOOLEAN]

\* A guard that has rejected nothing remembers the calls it has let through.
Sound(g) ==
    ~g.rejected => /\ g.history = g.out /\ Len(g.out) <= MaxToolCalls
                   /\ Malformed \notin ToSet(g.out)
                   /\ \A c \in Calls : Times(c, g.out) <= SpamThreshold

\* Why one of some calls may be rejected.
Cause(g, calls) ==
    \/ Malformed \in ToSet(calls)
    \/ Len(g.out) + Len(calls) > MaxToolCalls
    \/ \E c \in ToSet(calls) : Times(c, g.out) + Times(c, calls) > SpamThreshold

\* After i calls.
GuardGoes(g, calls, i, s) ==
    /\ g.rejected => s.rejected
    /\ ~s.rejected => ~s.over /\ s.out = g.out \o SubSeq(calls, 1, i) /\ Sound(s)
    /\ s.rejected => g.rejected \/ Cause(g, calls)

\* What it keeps while it looks at the calls of a chunk.
Loops == [out : Seq(Calls), history : Seq(Calls), rejected : BOOLEAN, over : BOOLEAN]

\* The calls the guard remembers are calls.
LEMMA RememberedIs ==
  ASSUME NEW s \in Loops, NEW c \in Calls
  PROVE  /\ Remembered(s, c) \in Seq(Calls)
         /\ Len(s.history) < MaxToolCalls => Remembered(s, c) = Append(s.history, c)
  <1> DEFINE h == Append(s.history, c)
             n == IF Len(h) > SpamWindow THEN Len(h) - SpamWindow ELSE 0
  <1>1. s.history \in Seq(Calls)
    BY DEF Loops
  <1>2. h \in Seq(Calls) /\ Len(h) = Len(s.history) + 1 /\ Len(h) \in Nat
    BY <1>1, AppendProperties, LenProperties
  <1>3. SpamWindow \in Nat /\ SpamWindow >= MaxToolCalls /\ MaxToolCalls \in Nat
    BY GuardAssumption
  <1>4. Remembered(s, c) = SubSeq(h, n + 1, Len(h)) /\ h = Append(s.history, c)
    BY DEF Remembered, Newest
  <1>5. n \in Nat /\ n <= Len(h) /\ (Len(s.history) < MaxToolCalls => n = 0)
    BY <1>1, <1>2, <1>3, LenProperties
  <1> HIDE DEF h, n
  <1>6. SubSeq(h, n + 1, Len(h)) \in Seq(Calls)
    <2>1. \A j \in n + 1..Len(h) : h[j] \in Calls
      BY <1>2, <1>5, ElementOfSeq
    <2>2. QED
      BY <1>2, <1>5, <2>1, SubSeqProperties
  <1>7. SubSeq(h, 1, Len(h)) = h
    BY <1>2, SubSeqFull
  <1>8. n = 0 => n + 1 = 1
    OBVIOUS
  <1>9. QED
    BY <1>4, <1>5, <1>6, <1>7, <1>8

\* A call appended is one call more.
LEMMA AppendConcat ==
  \A s, t \in Seq(Calls), e \in Calls : Append(s \o t, e) = s \o Append(t, e)
  <1> SUFFICES ASSUME NEW s \in Seq(Calls), NEW t \in Seq(Calls), NEW e \in Calls
               PROVE  Append(s \o t, e) = s \o Append(t, e)
    OBVIOUS
  <1> DEFINE r == <<e>>
  <1>1. r \in Seq(Calls) /\ s \o t \in Seq(Calls)
    BY ConcatProperties
  <1>2. Append(s \o t, e) = (s \o t) \o r /\ Append(t, e) = t \o r
    BY <1>1, AppendIsConcat
  <1> HIDE DEF r
  <1>3. (s \o t) \o r = s \o (t \o r)
    BY <1>1, ConcatAssociative
  <1>4. QED
    BY <1>2, <1>3

\* One call of the loop: it is let through, or there is a cause to reject it.
LEMMA GuardedStep ==
  ASSUME NEW g \in Guards, NEW calls \in Seq(Calls), NEW i \in 0..Len(calls) - 1,
         NEW s \in Loops, GuardGoes(g, calls, i, s)
  PROVE  /\ Guarded(s, calls[i + 1]) \in Loops
         /\ GuardGoes(g, calls, i + 1, Guarded(s, calls[i + 1]))
  <1> DEFINE c == calls[i + 1]
             r == Guarded(s, c)
             p == SubSeq(calls, 1, i)
             q == SubSeq(calls, 1, i + 1)
  <1>1. /\ Len(calls) \in Nat /\ i \in Nat /\ i \in 0..Len(calls) /\ i + 1 \in 1..Len(calls)
        /\ i + 1 \in 0..Len(calls)
    BY LenProperties
  <1>2. c \in Calls /\ c \in ToSet(calls)
    BY <1>1, ElementOfSeq, LenProperties DEF ToSet
  <1>3. /\ s.out \in Seq(Calls) /\ s.history \in Seq(Calls) /\ s.rejected \in BOOLEAN
        /\ s.over \in BOOLEAN /\ g.out \in Seq(Calls)
    BY DEF Loops, Guards
  <1>4. /\ p \in Seq(Calls) /\ Len(p) = i /\ q \in Seq(Calls) /\ Len(q) = i + 1
        /\ \A d : Count(p, {d}) <= Count(calls, {d}) /\ Count(q, {d}) <= Count(calls, {d})
    BY <1>1, CountPrefix
  <1>5. q = Append(p, c)
    BY <1>1, <1>2, SubSeqRecursiveSecond
  <1>6. Remembered(s, c) \in Seq(Calls) /\ Append(s.out, c) \in Seq(Calls)
    BY <1>2, <1>3, RememberedIs, AppendProperties
  <1> HIDE DEF c, r, p, q
  <1>7. r = Guarded(s, c)
    BY DEF r
  <1>8. r \in Loops /\ (s.rejected => r.rejected)
    BY <1>3, <1>6, <1>7 DEF Guarded, Loops
  <1>9. CASE s.rejected
    BY <1>8, <1>9 DEF GuardGoes, r, c
  <1>10. CASE ~s.rejected
    <2>1. /\ ~g.rejected /\ ~s.over /\ s.out = g.out \o p /\ s.history = s.out
          /\ Len(s.out) <= MaxToolCalls /\ Malformed \notin ToSet(s.out)
          /\ \A d \in Calls : Times(d, s.out) <= SpamThreshold
      BY <1>10 DEF GuardGoes, Sound, p
    <2>2. /\ Len(s.out) = Len(g.out) + i /\ Len(s.out) \in Nat /\ Len(g.out) \in Nat
      BY <1>3, <1>4, <2>1, ConcatProperties, LenProperties
    <2>3. CASE c = Malformed
      <3>1. r.rejected /\ Cause(g, calls)
        BY <1>2, <1>7, <2>1, <2>3 DEF Guarded, Cause
      <3>2. QED
        BY <1>8, <3>1 DEF GuardGoes, r, c
    <2>4. CASE c # Malformed /\ Spam(s, c)
      <3>1. r.rejected
        BY <1>7, <2>1, <2>4 DEF Guarded
      <3>2. Times(c, s.out) + 1 > SpamThreshold
        BY <2>1, <2>4 DEF Spam
      <3>3. Times(c, g.out) + Times(c, calls) > SpamThreshold
        <4>1. Count(s.out, {c}) = Count(g.out, {c}) + Count(p, {c})
          <5> DEFINE C == {c}
          <5> HIDE DEF C
          <5>1. Count(g.out \o p, C) = Count(g.out, C) + Count(p, C)
            BY <1>3, <1>4, CountConcat
          <5>2. QED
            BY <2>1, <5>1 DEF C
        <4>2. Times(c, q) = Times(c, p) + 1
          BY <1>2, <1>4, <1>5, TimesAppend
        <4>3. /\ Times(c, s.out) = Count(s.out, {c}) /\ Times(c, g.out) = Count(g.out, {c})
              /\ Times(c, p) = Count(p, {c}) /\ Times(c, q) = Count(q, {c})
              /\ Times(c, calls) = Count(calls, {c})
              /\ Times(c, s.out) \in Nat /\ Times(c, g.out) \in Nat /\ Times(c, p) \in Nat
              /\ Times(c, q) \in Nat /\ Times(c, calls) \in Nat
          BY <1>3, <1>4, TimesIs
        <4>4. Count(q, {c}) <= Count(calls, {c})
          BY <1>4
        <4>5. QED
          BY <3>2, <4>1, <4>2, <4>3, <4>4, GuardAssumption
      <3>4. Cause(g, calls)
        BY <1>2, <3>3 DEF Cause
      <3>5. QED
        BY <1>8, <3>1, <3>4 DEF GuardGoes, r, c
    <2>5. CASE c # Malformed /\ ~Spam(s, c) /\ Len(s.out) >= MaxToolCalls
      <3>1. r.rejected
        BY <1>7, <2>1, <2>5 DEF Guarded
      <3>2. Len(g.out) + Len(calls) > MaxToolCalls
        BY <1>1, <2>2, <2>5, GuardAssumption
      <3>3. Cause(g, calls)
        BY <3>2 DEF Cause
      <3>4. QED
        BY <1>8, <3>1, <3>3 DEF GuardGoes, r, c
    <2>6. CASE c # Malformed /\ ~Spam(s, c) /\ ~(Len(s.out) >= MaxToolCalls)
      <3>1. /\ r.out = Append(s.out, c) /\ r.history = Remembered(s, c) /\ ~r.rejected /\ ~r.over
        <4>1. r = [s EXCEPT !.out = Append(@, c), !.history = Remembered(s, c)]
          BY <1>7, <2>1, <2>6 DEF Guarded
        <4>2. QED
          BY <1>10, <2>1, <4>1 DEF Loops
      <3>2. Len(s.history) < MaxToolCalls
        BY <2>1, <2>2, <2>6, GuardAssumption
      <3>3. r.history = r.out
        BY <1>2, <2>1, <3>1, <3>2, RememberedIs
      <3>4. r.out = g.out \o q
        <4>1. Append(g.out \o p, c) = g.out \o Append(p, c)
          BY <1>2, <1>3, <1>4, AppendConcat
        <4>2. QED
          BY <1>5, <2>1, <3>1, <4>1
      <3>5. Len(r.out) <= MaxToolCalls
        BY <1>2, <1>3, <2>2, <2>6, <3>1, AppendProperties, GuardAssumption
      <3>6. Malformed \notin ToSet(r.out)
        <4>1. ToSet(Append(s.out, c)) = ToSet(s.out) \cup {c}
          BY <1>2, <1>3, AppendSet
        <4>2. QED
          BY <2>1, <2>6, <3>1, <4>1
      <3>7. ASSUME NEW d \in Calls PROVE Times(d, r.out) <= SpamThreshold
        <4>1. Times(d, r.out) = Times(d, s.out) + IF d = c THEN 1 ELSE 0
          BY <1>2, <1>3, <3>1, TimesAppend
        <4>2. Times(d, s.out) \in Nat /\ Times(c, s.out) \in Nat /\ Times(d, s.out) <= SpamThreshold
          BY <1>3, <2>1, TimesIs
        <4>3. ~(Times(c, s.out) + 1 > SpamThreshold)
          BY <2>1, <2>6 DEF Spam
        <4>4. QED
          BY <4>1, <4>2, <4>3, GuardAssumption
      <3>8. Sound(r)
        BY <3>3, <3>5, <3>6, <3>7 DEF Sound
      <3>9. GuardGoes(g, calls, i + 1, r)
        BY <2>1, <3>1, <3>4, <3>8 DEF GuardGoes, q
      <3>10. QED
        BY <1>8, <3>9 DEF r, c
    <2>7. QED
      BY <2>3, <2>4, <2>5, <2>6
  <1>11. QED
    BY <1>9, <1>10, <1>3

\* What the guard makes of some calls.
LEMMA GuardIs ==
  ASSUME NEW g \in Guards, Sound(g), NEW calls \in Seq(Calls)
  PROVE  LET h == ThroughGuard(g, calls)
             k == IF Len(calls) > MaxToolCalls THEN MaxToolCalls ELSE Len(calls)
         IN  /\ h \in Guards /\ Sound(h)
             /\ g.rejected => h.rejected
             /\ ~h.rejected => h.out = g.out \o SubSeq(calls, 1, k)
             /\ h.rejected => g.rejected \/ Cause(g, calls)
  <1> DEFINE k == IF Len(calls) > MaxToolCalls THEN MaxToolCalls ELSE Len(calls)
             first == SubSeq(calls, 1, k)
             start == [out |-> g.out, history |-> g.history, rejected |-> g.rejected, over |-> FALSE]
             step == [i \in 1..k |-> [s \in Loops |-> Guarded(s, first[i])]]
             after[i \in 0..Len(first)] ==
               IF i = 0 THEN start ELSE Guarded(after[i - 1], first[i])
             end == after[Len(first)]
             h == ThroughGuard(g, calls)
  <1>1. k \in Nat /\ k \in 0..Len(calls) /\ Len(calls) \in Nat
    BY LenProperties, GuardAssumption
  <1>2. h = [out |-> end.out, history |-> end.history, rejected |-> end.rejected]
    BY DEF ThroughGuard
  <1> HIDE DEF k
  <1>3. first \in Seq(Calls) /\ Len(first) = k /\ \A i \in 1..k : first[i] = calls[i]
    BY <1>1, CountPrefix
  <1>4. start \in Loops /\ start.out = g.out /\ start.history = g.history
        /\ start.rejected = g.rejected /\ start.over = FALSE
    BY DEF Guards, Loops
  <1> HIDE DEF first, start
  <1>5. GuardGoes(g, calls, 0, start)
    <2>1. SubSeq(calls, 1, 0) = <<>> /\ g.out \in Seq(Calls)
      BY SubSeqEmpty DEF Guards
    <2>2. g.out \o SubSeq(calls, 1, 0) = g.out
      BY <2>1, ConcatEmptySeq
    <2>3. Sound(start)
      BY <1>4 DEF Sound
    <2>4. QED
      BY <1>4, <2>2, <2>3 DEF GuardGoes
  <1>6. \A i \in 1..k, s \in Loops :
           /\ first[i] \in Calls
           /\ Guarded(s, first[i]) \in Loops
    <2>1. \A i \in 1..k : first[i] \in Calls
      BY <1>1, <1>3, ElementOfSeq
    <2>2. ASSUME NEW c \in Calls, NEW s \in Loops PROVE Guarded(s, c) \in Loops
      <3>1. s.out \in Seq(Calls) /\ Append(s.out, c) \in Seq(Calls)
        BY AppendProperties DEF Loops
      <3>2. Remembered(s, c) \in Seq(Calls)
        BY RememberedIs
      <3>3. QED
        BY <3>1, <3>2 DEF Guarded, Loops
    <2>3. QED
      BY <2>1, <2>2
  <1>7. PICK f \in [0..k -> Loops] : f[0] = start /\ \A i \in 1..k : f[i] = Guarded(f[i - 1], first[i])
    <2>1. step \in [1..k -> [Loops -> Loops]]
      <3> DEFINE G(i, s) == Guarded(s, first[i])
      <3>1. \A i \in 1..k, s \in Loops : G(i, s) \in Loops
        BY <1>6
      <3>2. step = [i \in 1..k |-> [s \in Loops |-> G(i, s)]]
        OBVIOUS
      <3> HIDE DEF step, G
      <3>3. QED
        BY <3>1, <3>2
    <2>2. \E f \in [0..k -> Loops] : f[0] = start /\ \A i \in 1..k : f[i] = step[i][f[i - 1]]
      <3> DEFINE A == Loops
      <3>1. k \in Nat /\ start \in A /\ step \in [1..k -> [A -> A]]
        BY <1>1, <1>4, <2>1
      <3> HIDE DEF step, A
      <3>2. \E f \in [0..k -> A] : f[0] = start /\ \A i \in 1..k : f[i] = step[i][f[i - 1]]
        BY <3>1, Iterates
      <3>3. QED
        BY <3>2 DEF A
    <2>3. \A f \in [0..k -> Loops] : \A i \in 1..k : step[i][f[i - 1]] = Guarded(f[i - 1], first[i])
      <3>1. \A i \in 1..k : i - 1 \in 0..k
        BY <1>1
      <3>2. \A i \in 1..k, s \in Loops : step[i][s] = Guarded(s, first[i])
        OBVIOUS
      <3> HIDE DEF step
      <3>3. QED
        BY <3>1, <3>2
    <2> HIDE DEF step
    <2>4. QED
      BY <2>2, <2>3
  <1>8. f = [i \in 0..Len(first) |-> IF i = 0 THEN start ELSE Guarded(f[i - 1], first[i])]
    <2>1. \A i \in 0..k : f[i] = IF i = 0 THEN start ELSE Guarded(f[i - 1], first[i])
      <3>1. \A i \in 0..k : i = 0 \/ i \in 1..k
        BY <1>1
      <3>2. QED
        BY <1>7, <3>1
    <2>2. QED
      BY <1>3, <2>1
  <1>9. after = [i \in 0..Len(first) |-> IF i = 0 THEN start ELSE Guarded(after[i - 1], first[i])]
    BY <1>8
  <1> HIDE DEF after
  <1>10. after[0] = start /\ \A i \in 0..k - 1 : after[i + 1] = Guarded(after[i], calls[i + 1])
    <2>1. 0 \in 0..Len(first)
      BY <1>1, <1>3
    <2>2. ASSUME NEW i \in 0..k - 1 PROVE after[i + 1] = Guarded(after[i], calls[i + 1])
      <3>1. i + 1 \in 0..Len(first) /\ i + 1 # 0 /\ (i + 1) - 1 = i /\ i + 1 \in 1..k
        BY <1>1, <1>3
      <3>2. first[i + 1] = calls[i + 1]
        BY <1>3, <3>1
      <3>3. QED
        BY <1>9, <3>1, <3>2
    <2>3. QED
      BY <1>9, <2>1, <2>2
  <1> DEFINE Good == {i \in 0..k : after[i] \in Loops /\ GuardGoes(g, calls, i, after[i])}
  <1>11. 0 \in Good
    BY <1>1, <1>4, <1>5, <1>10
  <1>12. ASSUME NEW i \in 0..k - 1, i \in Good PROVE i + 1 \in Good
    <2>1. i \in 0..Len(calls) - 1 /\ i + 1 \in 0..k
      BY <1>1
    <2>2. after[i] \in Loops /\ GuardGoes(g, calls, i, after[i])
      BY <1>12
    <2>3. /\ Guarded(after[i], calls[i + 1]) \in Loops
          /\ GuardGoes(g, calls, i + 1, Guarded(after[i], calls[i + 1]))
      BY <2>1, <2>2, GuardedStep
    <2>4. QED
      BY <1>10, <2>1, <2>3
  <1>13. k \in Good
    <2> HIDE DEF Good
    <2>1. 0..k \subseteq Good
      BY <1>1, <1>11, <1>12, InductionUpTo
    <2>2. QED
      BY <1>1, <2>1
  <1>14. end \in Loops /\ GuardGoes(g, calls, k, end)
    BY <1>3, <1>13
  <1> HIDE DEF end, Good
  <1>15. h \in Guards /\ h.out = end.out /\ h.history = end.history /\ h.rejected = end.rejected
    BY <1>2, <1>14 DEF Loops, Guards
  <1> HIDE DEF h
  <1>16. /\ h \in Guards /\ Sound(h)
         /\ g.rejected => h.rejected
         /\ ~h.rejected => h.out = g.out \o SubSeq(calls, 1, k)
         /\ h.rejected => g.rejected \/ Cause(g, calls)
    <2>1. end.rejected \in BOOLEAN
      BY <1>14 DEF Loops
    <2>2. QED
      BY <1>14, <1>15, <2>1 DEF GuardGoes, Sound
  <1>17. QED
    BY <1>16 DEF h, k

-----------------------------------------------------------------------------
(* What the client is told of the calls *)

\* Why an answer with these calls may be rejected.
Wrong(calls) ==
    \/ Malformed \in ToSet(calls)
    \/ Len(calls) > MaxToolCalls
    \/ \E c \in ToSet(calls) : Times(c, calls) > SpamThreshold

\* What is let through is among the calls, and is still with some more.
AtMost(out, calls) == \A C \in SUBSET Calls : Count(out, C) <= Count(calls, C)
Both(out, new, calls) ==
    \A C \in SUBSET Calls : Count(out, C) + Count(new, C) <= Count(calls, C)

\* A call is in a sequence if it counts.
LEMMA InCount ==
  ASSUME NEW s \in Seq(Calls), NEW c
  PROVE  /\ c \in ToSet(s) => c \in Calls
         /\ c \in ToSet(s) <=> Count(s, {c}) > 0
         /\ Count(s, {c}) \in Nat /\ Times(c, s) = Count(s, {c})
         /\ Count(s, Calls) = Len(s) /\ Len(s) \in Nat
  <1>1. DOMAIN s = 1..Len(s) /\ Len(s) \in Nat
    BY LenProperties
  <1>2. c \in ToSet(s) => c \in Calls
    BY <1>1, ElementOfSeq DEF ToSet
  <1>3. Count(s, Calls) = Len(s)
    BY CountType
  <1>4. Times(c, s) = Count(s, {c}) /\ Times(c, s) \in Nat /\ (Times(c, s) > 0 <=> c \in ToSet(s))
    BY TimesIs
  <1>5. QED
    BY <1>1, <1>2, <1>3, <1>4

\* A call that is rejected is wrong among all calls.
LEMMA CauseTells ==
  ASSUME NEW g \in Guards, NEW new \in Seq(Calls), NEW all \in Seq(Calls),
         Both(g.out, new, all), Cause(g, new)
  PROVE  Wrong(all)
  <1>1. g.out \in Seq(Calls)
    BY DEF Guards
  <1>2. ASSUME NEW c \in ToSet(new)
        PROVE  /\ c \in ToSet(all)
               /\ Times(c, g.out) + Times(c, new) <= Times(c, all)
               /\ Times(c, g.out) \in Nat /\ Times(c, new) \in Nat /\ Times(c, all) \in Nat
    <2>1. c \in Calls /\ Count(new, {c}) > 0 /\ Count(new, {c}) \in Nat /\ Times(c, new) = Count(new, {c})
      BY InCount
    <2>2. Count(g.out, {c}) \in Nat /\ Times(c, g.out) = Count(g.out, {c})
      BY <1>1, InCount
    <2>3. (c \in ToSet(all) <=> Count(all, {c}) > 0) /\ Count(all, {c}) \in Nat
          /\ Times(c, all) = Count(all, {c})
      BY InCount
    <2>4. Count(g.out, {c}) + Count(new, {c}) <= Count(all, {c})
      BY <2>1 DEF Both
    <2>5. QED
      BY <2>1, <2>2, <2>3, <2>4
  <1>3. Len(g.out) + Len(new) <= Len(all) /\ Len(g.out) \in Nat /\ Len(new) \in Nat /\ Len(all) \in Nat
    <2>1. Count(g.out, Calls) + Count(new, Calls) <= Count(all, Calls)
      BY DEF Both
    <2>2. Count(g.out, Calls) = Len(g.out) /\ Count(new, Calls) = Len(new) /\ Count(all, Calls) = Len(all)
          /\ Len(g.out) \in Nat /\ Len(new) \in Nat /\ Len(all) \in Nat
      BY <1>1, InCount
    <2>3. QED
      BY <2>1, <2>2
  <1>4. CASE Malformed \in ToSet(new)
    BY <1>2, <1>4 DEF Wrong
  <1>5. CASE Len(g.out) + Len(new) > MaxToolCalls
    BY <1>3, <1>5, GuardAssumption DEF Wrong
  <1>6. CASE \E c \in ToSet(new) : Times(c, g.out) + Times(c, new) > SpamThreshold
    <2>1. PICK c \in ToSet(new) : Times(c, g.out) + Times(c, new) > SpamThreshold
      BY <1>6
    <2>2. c \in ToSet(all) /\ Times(c, all) > SpamThreshold
      BY <1>2, <2>1, GuardAssumption
    <2>3. QED
      BY <2>2 DEF Wrong
  <1>7. QED
    BY <1>4, <1>5, <1>6 DEF Cause

\* The elements of a concatenation.
LEMMA ConcatSet ==
  ASSUME NEW S, NEW s \in Seq(S), NEW t \in Seq(S)
  PROVE  ToSet(s \o t) = ToSet(s) \cup ToSet(t)
  <1>1. /\ DOMAIN s = 1..Len(s) /\ DOMAIN t = 1..Len(t) /\ DOMAIN (s \o t) = 1..Len(s \o t)
        /\ Len(s) \in Nat /\ Len(t) \in Nat /\ Len(s \o t) = Len(s) + Len(t)
        /\ \A k \in 1..Len(s) : (s \o t)[k] = s[k]
        /\ \A k \in 1..Len(t) : (s \o t)[Len(s) + k] = t[k]
    BY ConcatAt, LenProperties
  <1> DEFINE v == s \o t
             n == Len(s)
             m == Len(t)
  <1>2. DOMAIN s = 1..n /\ DOMAIN t = 1..m /\ DOMAIN v = 1..n + m /\ n \in Nat /\ m \in Nat
        /\ (\A k \in 1..n : v[k] = s[k]) /\ \A k \in 1..m : v[n + k] = t[k]
    BY <1>1
  <1> HIDE DEF v, n, m
  <1>3. ToSet(v) \subseteq ToSet(s) \cup ToSet(t)
    <2>1. ASSUME NEW k \in 1..n + m PROVE v[k] \in ToSet(s) \cup ToSet(t)
      <3>1. k \in 1..n \/ (k - n \in 1..m /\ n + (k - n) = k)
        BY <1>2
      <3>2. QED
        BY <1>2, <3>1 DEF ToSet
    <2>2. QED
      BY <1>2, <2>1 DEF ToSet
  <1>4. ToSet(s) \subseteq ToSet(v)
    <2>1. \A k \in 1..n : k \in 1..n + m
      BY <1>2
    <2>2. QED
      BY <1>2, <2>1 DEF ToSet
  <1>5. ToSet(t) \subseteq ToSet(v)
    <2>1. \A k \in 1..m : n + k \in 1..n + m
      BY <1>2
    <2>2. QED
      BY <1>2, <2>1 DEF ToSet
  <1>6. QED
    BY <1>3, <1>4, <1>5 DEF v

\* What the guard has let through, or rejected, and the calls it looked at.
LEMMA GuardTells ==
  ASSUME NEW g \in Guards, Sound(g), NEW new \in Seq(Calls), NEW all \in Seq(Calls),
         g.rejected => Wrong(all), ~g.rejected => Both(g.out, new, all)
  PROVE  LET h == ThroughGuard(g, new)
         IN  /\ h \in Guards /\ Sound(h)
             /\ h.rejected => Wrong(all)
             /\ ~h.rejected =>
                  /\ ~g.rejected /\ AtMost(h.out, all) /\ ToSet(g.out) \subseteq ToSet(h.out)
                  /\ Len(new) <= MaxToolCalls => ToSet(new) \subseteq ToSet(h.out)
                  /\ Len(new) > MaxToolCalls => Len(h.out) = MaxToolCalls
  <1> DEFINE h == ThroughGuard(g, new)
             k == IF Len(new) > MaxToolCalls THEN MaxToolCalls ELSE Len(new)
             p == SubSeq(new, 1, k)
  <1>1. /\ h \in Guards /\ Sound(h) /\ (g.rejected => h.rejected)
        /\ ~h.rejected => h.out = g.out \o p
        /\ h.rejected => g.rejected \/ Cause(g, new)
    BY GuardIs
  <1>2. /\ k \in 0..Len(new) /\ k \in Nat /\ Len(new) \in Nat /\ MaxToolCalls \in Nat
        /\ (Len(new) <= MaxToolCalls => k = Len(new))
        /\ (Len(new) > MaxToolCalls => k = MaxToolCalls)
    BY LenProperties, GuardAssumption
  <1>3. g.out \in Seq(Calls) /\ h.out \in Seq(Calls) /\ g.rejected \in BOOLEAN /\ h.rejected \in BOOLEAN
    BY <1>1 DEF Guards
  <1> HIDE DEF h, k
  <1>4. p \in Seq(Calls) /\ Len(p) = k /\ \A C : Count(p, C) <= Count(new, C)
    BY <1>2, CountPrefix
  <1>5. k = Len(new) => p = new
    BY SubSeqFull
  <1> HIDE DEF p
  <1>6. h.rejected => Wrong(all)
    BY <1>1, <1>3, CauseTells
  <1>7. ASSUME ~h.rejected
        PROVE  /\ ~g.rejected /\ AtMost(h.out, all) /\ ToSet(g.out) \subseteq ToSet(h.out)
               /\ Len(new) <= MaxToolCalls => ToSet(new) \subseteq ToSet(h.out)
               /\ Len(new) > MaxToolCalls => Len(h.out) = MaxToolCalls
    <2>1. ~g.rejected /\ h.out = g.out \o p /\ Len(h.out) <= MaxToolCalls
      BY <1>1, <1>7 DEF Sound
    <2>2. ToSet(h.out) = ToSet(g.out) \cup ToSet(p)
      BY <1>3, <1>4, <2>1, ConcatSet
    <2>3. Len(h.out) = Len(g.out) + Len(p) /\ Len(g.out) \in Nat /\ Len(h.out) \in Nat
      BY <1>3, <1>4, <2>1, ConcatProperties, LenProperties
    <2>4. ASSUME NEW C \in SUBSET Calls PROVE Count(h.out, C) <= Count(all, C)
      <3>1. Count(g.out \o p, C) = Count(g.out, C) + Count(p, C)
        <4> DEFINE w == g.out
        <4>1. w \in Seq(Calls) /\ p \in Seq(Calls)
          BY <1>3, <1>4
        <4> HIDE DEF w
        <4>2. Count(w \o p, C) = Count(w, C) + Count(p, C)
          BY <4>1, CountConcat
        <4>3. QED
          BY <4>2 DEF w
      <3>2. Count(p, C) <= Count(new, C)
        BY <1>4
      <3>3. Count(g.out, C) + Count(new, C) <= Count(all, C)
        BY <2>1 DEF Both
      <3>4. /\ Count(g.out, C) \in Nat /\ Count(p, C) \in Nat /\ Count(new, C) \in Nat
            /\ Count(all, C) \in Nat
        BY <1>3, <1>4, CountType
      <3>5. QED
        BY <2>1, <3>1, <3>2, <3>3, <3>4
    <2>5. AtMost(h.out, all)
      BY <2>4 DEF AtMost
    <2>6. QED
      BY <1>2, <1>4, <1>5, <2>1, <2>2, <2>3, <2>5
  <1>8. QED
    BY <1>1, <1>6, <1>7 DEF h

-----------------------------------------------------------------------------
(* What has been heard of the answer *)

\* No call begins inside another, and no text repeats its beginning.
Calm == \A t \in Texts : CallsApart(t) /\ NoEcho(t)

\* A prefix, element by element.
LEMMA PrefixIs ==
  ASSUME NEW s \in Seq(STRING), NEW v \in Seq(STRING)
  PROVE  IsPrefix(s, v) <=> Len(s) <= Len(v) /\ \A i \in 1..Len(s) : s[i] = v[i]
  <1>1. Len(s) \in Nat /\ Len(v) \in Nat
    BY LenProperties
  <1>2. CASE Len(s) <= Len(v)
    <2> DEFINE n == Len(s)
               x == SubSeq(s, 1, n)
               y == SubSeq(v, 1, n)
    <2>1. n \in 0..Len(s) /\ n \in 0..Len(v) /\ n \in Nat
      BY <1>1, <1>2
    <2>2. x \in Seq(STRING) /\ Len(x) = n /\ \A i \in 1..n : x[i] = s[i]
      BY <2>1, CountPrefix
    <2>3. y \in Seq(STRING) /\ Len(y) = n /\ \A i \in 1..n : y[i] = v[i]
      BY <2>1, CountPrefix
    <2>4. IsPrefix(s, v) <=> x = y
      BY <1>2 DEF IsPrefix
    <2> HIDE DEF n, x, y
    <2>5. x = y <=> \A i \in 1..n : x[i] = y[i]
      BY <2>2, <2>3, SeqEqual
    <2>6. QED
      BY <1>2, <2>2, <2>3, <2>4, <2>5 DEF n
  <1>3. CASE ~(Len(s) <= Len(v))
    BY <1>3 DEF IsPrefix
  <1>4. QED
    BY <1>2, <1>3

\* A chunk makes the text heard the text sent.
LEMMA ChunkHeard ==
  ASSUME MessageTypes, Calm, NEW c \in Chunks, ~Unnoticed(c)
  PROVE  /\ sent < c.end /\ c.end <= Len(text) /\ c.end \in Nat
         /\ Extended(Received, c.v) = SubSeq(text, 1, c.end)
  <1>1. /\ text \in Seq(STRING) /\ Len(text) \in Nat /\ sent \in Nat /\ sent <= Len(text)
        /\ sent \in 0..Len(text)
    BY FeedAssumption, LenProperties DEF MessageTypes
  <1>2. NoEcho(text)
    BY DEF Calm, MessageTypes
  <1>3. PICK n \in sent + 1..Len(text), again \in Resends :
               c = [end |-> n, v |-> SubSeq(text, IF again THEN 1 ELSE sent + 1, n)]
    <2>1. ASSUME sent > 0, c = [end |-> sent, v |-> Received] PROVE FALSE
      <3>1. Len(Received) = sent
        BY <1>1, CountPrefix DEF Received
      <3>2. QED
        BY <2>1, <3>1 DEF Unnoticed
    <2> DEFINE more == {[end |-> n, v |-> SubSeq(text, IF again THEN 1 ELSE sent + 1, n)] :
                           n \in sent + 1..Len(text), again \in Resends}
    <2>2. c \in more
      <3>1. c \in more \cup IF sent > 0 THEN {[end |-> sent, v |-> Received]} ELSE {}
        BY DEF Chunks
      <3> HIDE DEF more
      <3>2. QED
        BY <2>1, <3>1
    <2>3. QED
      BY <2>2
  <1> DEFINE r == SubSeq(text, 1, sent)
             all == SubSeq(text, 1, n)
             v == c.v
  <1>4. /\ n \in Nat /\ sent < n /\ n <= Len(text) /\ n \in 0..Len(text) /\ c.end = n
        /\ n - sent \in Nat
    BY <1>1, <1>3
  <1>5. r \in Seq(STRING) /\ Len(r) = sent /\ (\A i \in 1..sent : r[i] = text[i]) /\ r = Received
    BY <1>1, CountPrefix DEF Received
  <1>6. all \in Seq(STRING) /\ Len(all) = n /\ \A i \in 1..n : all[i] = text[i]
    BY <1>1, <1>4, CountPrefix
  <1>7. CASE again
    <2>1. v = all
      BY <1>3, <1>7
    <2> HIDE DEF v, all, r
    <2>2. IsPrefix(r, all) /\ Len(all) > Len(r)
      <3>1. \A i \in 1..sent : i \in 1..n
        BY <1>1, <1>4
      <3>2. QED
        BY <1>1, <1>4, <1>5, <1>6, <3>1, PrefixIs
    <2>3. Extended(Received, v) = all
      BY <1>5, <2>1, <2>2 DEF Extended
    <2>4. QED
      BY <1>4, <2>3 DEF v, all
  <1>8. CASE ~again
    <2>1. v = SubSeq(text, sent + 1, n)
      BY <1>3, <1>8
    <2>2. v \in Seq(STRING) /\ Len(v) = n - sent /\ \A i \in 1..n - sent : v[i] = text[sent + i]
      BY <1>1, <1>4, <2>1, PartIs
    <2>3. r \o v = all
      <3>1. 1 \in 1..Len(text) + 1 /\ sent \in 1 - 1..Len(text) /\ n \in sent..Len(text)
        BY <1>1, <1>4
      <3>2. SubSeq(text, 1, sent) \o SubSeq(text, sent + 1, n) = SubSeq(text, 1, n)
        BY <1>1, <3>1, ConcatAdjacentSubSeq
      <3>3. QED
        BY <2>1, <3>2
    <2>4. CASE sent = 0
      <3>1. Len(r) = 0
        BY <1>5, <2>4
      <3> HIDE DEF r, all, v
      <3>2. IsPrefix(r, v) /\ Len(v) > Len(r)
        <4>1. 1..Len(r) = {}
          BY <3>1
        <4>2. Len(r) <= Len(v) /\ Len(v) > Len(r)
          BY <1>1, <1>4, <2>2, <3>1
        <4>3. QED
          BY <1>5, <2>2, <4>1, <4>2, PrefixIs
      <3>3. v = all
        <4>1. r = <<>>
          BY <1>5, <3>1, EmptySeq
        <4>2. r \o v = v
          BY <2>2, <4>1, ConcatEmptySeq
        <4>3. QED
          BY <2>3, <4>2
      <3>4. Extended(Received, v) = all
        BY <1>5, <3>2, <3>3 DEF Extended
      <3>5. QED
        BY <1>4, <3>4 DEF v, all
    <2>5. CASE sent # 0
      <3> HIDE DEF r, all, v
      <3>1. ~(IsPrefix(r, v) /\ Len(v) > Len(r))
        <4>1. SUFFICES ASSUME IsPrefix(r, v), Len(v) > Len(r) PROVE FALSE
          OBVIOUS
        <4>2. \A i \in 1..sent : r[i] = v[i]
          BY <1>5, <2>2, <4>1, PrefixIs
        <4>3. n - sent > sent /\ 2 * sent < Len(text) /\ sent \in 1..Len(text)
          BY <1>1, <1>4, <1>5, <2>2, <2>5, <4>1
        <4>4. PICK i \in 1..sent : text[i] # text[sent + i]
          BY <1>2, <4>3 DEF NoEcho
        <4>5. i \in 1..n - sent
          BY <1>1, <1>4, <4>3
        <4>6. QED
          BY <1>5, <2>2, <4>2, <4>4, <4>5
      <3>2. Extended(Received, v) = all
        BY <1>5, <2>3, <3>1 DEF Extended
      <3>3. QED
        BY <1>4, <3>2 DEF v, all
    <2>6. QED
      BY <2>4, <2>5
  <1>9. QED
    BY <1>7, <1>8

\* The calls the upstream has made.
Made == ToolCalls(Received) \o locals

\* What the guard has let through is among them, with every local call; or one is wrong.
Heard ==
    /\ st \in [full : Seq(STRING), parsed : Nat, guard : Guards]
    /\ st.full = Received /\ st.parsed = Len(st.full) /\ Sound(st.guard)
    /\ IF st.guard.rejected THEN Wrong(Made)
       ELSE AtMost(st.guard.out, Made) /\ ToSet(locals) \subseteq ToSet(st.guard.out)

\* The answer a client gets holds the calls, or it is told that one is wrong.
Kept ==
    /\ response.calls \in Seq(Calls) /\ response.content \in Seq(STRING)
    /\ Len(response.calls) <= MaxToolCalls /\ Malformed \notin ToSet(response.calls)
    /\ AtMost(response.calls, Made) /\ ToSet(locals) \subseteq ToSet(response.calls)
    /\ ToSet(Made) \subseteq ToSet(response.calls) \/ Len(response.calls) = MaxToolCalls

Told == /\ response.kind = "rejected" => Wrong(Made)
        /\ response.kind = "answer" => Kept

\* While a handler reads it has heard the calls; afterwards its client has them or is
\* told; unless a resend has passed for an increment.
TellInv ==
    /\ EndInv /\ repeated \in Nat
    /\ repeated = 0 /\ ~Streaming /\ ~over => Heard
    /\ repeated = 0 /\ ~Streaming /\ over => Told

\* The calls made are calls.
LEMMA MadeType ==
  ASSUME MessageTypes
  PROVE  /\ Received \in Seq(STRING) /\ Len(Received) = sent
         /\ ToolCalls(Received) \in Seq(Calls) /\ locals \in Seq(Calls) /\ Made \in Seq(Calls)
  <1>1. text \in Seq(STRING) /\ sent \in 0..Len(text) /\ locals \in Seq(LocalCalls)
    BY FeedAssumption DEF MessageTypes
  <1>2. Received \in Seq(STRING) /\ Len(Received) = sent
    BY <1>1, CountPrefix DEF Received
  <1>3. ToolCalls(Received) \in Seq(Seq(STRING))
    BY <1>2, ToolCallsAre
  <1>4. locals \in Seq(Seq(STRING))
    <2>1. Len(locals) \in Nat /\ DOMAIN locals = 1..Len(locals)
          /\ \A i \in 1..Len(locals) : locals[i] \in Seq(STRING)
      BY <1>1, LenProperties, ElementOfSeq, FeedAssumption
    <2>2. QED
      BY <1>1, FeedAssumption, SeqDef
  <1>5. ToolCalls(Received) \o locals \in Seq(Seq(STRING))
    BY <1>3, <1>4, ConcatProperties
  <1>6. QED
    BY <1>2, <1>3, <1>4, <1>5 DEF Made, Calls

\* A wrong call stays wrong among more of them.
LEMMA WrongStays ==
  ASSUME NEW made \in Seq(Calls), NEW all \in Seq(Calls), AtMost(made, all), Wrong(made)
  PROVE  Wrong(all)
  <1> DEFINE g == [out |-> <<>>, history |-> <<>>, rejected |-> FALSE]
  <1>1. <<>> \in Seq(Calls) /\ Len(<<>>) = 0
    BY EmptySeq
  <1>2. g \in Guards /\ g.out = <<>>
    BY <1>1 DEF Guards
  <1> HIDE DEF g
  <1>3. \A C : Count(<<>>, C) = 0
    <2>1. \A C : Count(<<>>, C) \in Nat /\ Count(<<>>, C) <= Len(<<>>)
      BY <1>1, CountType
    <2>2. QED
      BY <1>1, <2>1
  <1>4. \A c : Times(c, <<>>) = 0
    BY <1>1, <1>3, InCount
  <1>5. \A C \in SUBSET Calls : Count(made, C) \in Nat /\ Count(all, C) \in Nat
    BY CountType
  <1>6. Both(g.out, made, all)
    BY <1>2, <1>3, <1>5 DEF Both, AtMost
  <1>7. \A c : Times(c, made) \in Nat
    BY TimesIs
  <1>8. Len(made) \in Nat
    BY LenProperties
  <1>9. Cause(g, made)
    <2>1. \A c : Times(c, g.out) + Times(c, made) = Times(c, made)
      BY <1>2, <1>4, <1>7
    <2>2. Len(g.out) + Len(made) = Len(made)
      BY <1>1, <1>2, <1>8
    <2>3. QED
      BY <2>1, <2>2 DEF Cause, Wrong
  <1>10. QED
    BY <1>2, <1>6, <1>9, CauseTells

\* Calls more.
LEMMA HearsMore ==
  ASSUME Heard, Made \in Seq(Calls), NEW new \in Seq(Calls), NEW all \in Seq(Calls),
         Both(Made, new, all)
  PROVE  LET h == ThroughGuard(st.guard, new)
         IN  /\ h \in Guards /\ Sound(h)
             /\ IF h.rejected THEN Wrong(all)
                ELSE /\ AtMost(h.out, all) /\ ToSet(locals) \subseteq ToSet(h.out)
                     /\ Len(new) <= MaxToolCalls => ToSet(new) \subseteq ToSet(h.out)
  <1> DEFINE g == st.guard
             h == ThroughGuard(g, new)
  <1>1. /\ g \in Guards /\ Sound(g)
        /\ IF g.rejected THEN Wrong(Made)
           ELSE AtMost(g.out, Made) /\ ToSet(locals) \subseteq ToSet(g.out)
    BY DEF Heard
  <1> HIDE DEF g
  <1>2. g.out \in Seq(Calls)
    BY <1>1 DEF Guards
  <1>3. \A C \in SUBSET Calls :
          /\ Count(Made, C) \in Nat /\ Count(new, C) \in Nat /\ Count(all, C) \in Nat
          /\ Count(g.out, C) \in Nat
    BY <1>2, CountType
  <1>4. g.rejected => Wrong(all)
    <2>1. AtMost(Made, all)
      BY <1>3 DEF AtMost, Both
    <2>2. QED
      BY <1>1, <2>1, WrongStays
  <1>5. ~g.rejected => Both(g.out, new, all)
    <2>1. SUFFICES ASSUME ~g.rejected, NEW C \in SUBSET Calls
                   PROVE  Count(g.out, C) + Count(new, C) <= Count(all, C)
      BY DEF Both
    <2>2. Count(g.out, C) <= Count(Made, C)
      BY <1>1, <2>1 DEF AtMost
    <2>3. Count(Made, C) + Count(new, C) <= Count(all, C)
      BY DEF Both
    <2>4. QED
      BY <1>3, <2>2, <2>3
  <1>6. /\ h \in Guards /\ Sound(h)
        /\ h.rejected => Wrong(all)
        /\ ~h.rejected =>
             /\ ~g.rejected /\ AtMost(h.out, all) /\ ToSet(g.out) \subseteq ToSet(h.out)
             /\ Len(new) <= MaxToolCalls => ToSet(new) \subseteq ToSet(h.out)
    BY <1>1, <1>4, <1>5, GuardTells
  <1> HIDE DEF h
  <1>7. /\ h \in Guards /\ Sound(h)
        /\ IF h.rejected THEN Wrong(all)
           ELSE /\ AtMost(h.out, all) /\ ToSet(locals) \subseteq ToSet(h.out)
                /\ Len(new) <= MaxToolCalls => ToSet(new) \subseteq ToSet(h.out)
    BY <1>1, <1>6
  <1>8. QED
    BY <1>7 DEF g, h

\* The count of a concatenation.
LEMMA CountOfTwo ==
  \A s, t \in Seq(Calls) : \A C : Count(s \o t, C) = Count(s, C) + Count(t, C)
  <1>1. ASSUME NEW s \in Seq(Calls), NEW t \in Seq(Calls), NEW C
        PROVE  Count(s \o t, C) = Count(s, C) + Count(t, C)
    BY CountConcat
  <1>2. QED
    BY <1>1

\* A chunk of text.
LEMMA TellChunk ==
  ASSUME TellInv, Calm, AnswerChunk, ~Streaming, repeated' = 0
  PROVE  Heard'
  <1>2. PICK c \in Chunks : SendChunk(c) /\ HearAnswer(c.v)
    BY DEF AnswerChunk
  <1>0. ~Unnoticed(c) /\ repeated = 0
    BY <1>2 DEF TellInv, SendChunk
  <1>1. MessageTypes /\ ~over /\ Heard
    BY <1>0 DEF TellInv, EndInv, AnswerChunk, Reads
  <1>3. /\ text \in Seq(STRING) /\ Len(text) \in Nat /\ sent \in Nat /\ CallsApart(text)
    BY <1>1, FeedAssumption, LenProperties DEF MessageTypes, Calm
  <1> DEFINE end == c.end
             full == SubSeq(text, 1, end)
             part == SubSeq(text, sent + 1, end)
             new == ToolCalls(part)
             all == ToolCalls(full) \o locals
             h == ThroughGuard(st.guard, new)
  <1>4. sent < end /\ end <= Len(text) /\ end \in Nat /\ Extended(Received, c.v) = full
    BY <1>0, <1>1, ChunkHeard
  <1>5. text' = text /\ sent' = end /\ locals' = locals
    BY <1>2 DEF SendChunk
  <1>6. Received' = full
    BY <1>5 DEF Received
  <1>7. /\ full \in Seq(STRING) /\ Len(full) = end /\ part \in Seq(STRING)
    <2>1. end \in 0..Len(text)
      BY <1>3, <1>4
    <2> HIDE DEF end
    <2>2. full \in Seq(STRING) /\ Len(full) = end
      BY <1>3, <2>1, CountPrefix
    <2>3. part \in Seq(STRING)
      BY <1>3, <1>4, PartIs
    <2>4. QED
      BY <2>2, <2>3
  <1>8. SubSeq(full, sent + 1, end) = part
    <2>1. 1 \in 1..Len(text) /\ end \in 1..Len(text) /\ sent + 1 \in 1..end - 1 + 1
          /\ end \in 1..end - 1 + 1 /\ 1 + (sent + 1) - 1 = sent + 1 /\ 1 + end - 1 = end
      BY <1>3, <1>4
    <2> HIDE DEF end, full, part
    <2>2. SubSeq(SubSeq(text, 1, end), sent + 1, end) = SubSeq(text, 1 + (sent + 1) - 1, 1 + end - 1)
      BY <1>3, <2>1, SubSeqOfSubSeq
    <2>3. QED
      BY <2>1, <2>2 DEF full, part
  <1>9. st.full = Received /\ st.parsed = sent
    BY <1>1, MadeType DEF Heard
  <1> HIDE DEF end
  <1>10. st' = [full |-> full, parsed |-> end, guard |-> h]
    <2>1. \E f \in {full} : \E calls \in {ToolCalls(SubSeq(f, sent + 1, Len(f)))} :
            st' = [full |-> f, parsed |-> Len(f), guard |-> ThroughGuard(st.guard, calls)]
      <3> HIDE DEF full
      <3>1. QED
        BY <1>2, <1>4, <1>9 DEF HearAnswer
    <2>2. st' = [full |-> full, parsed |-> Len(full),
                 guard |-> ThroughGuard(st.guard, ToolCalls(SubSeq(full, sent + 1, Len(full))))]
      <3> HIDE DEF full
      <3>1. QED
        BY <2>1
    <2>3. QED
      BY <1>7, <1>8, <2>2
  <1>11. new \in Seq(Calls) /\ ToolCalls(full) \in Seq(Calls) /\ all \in Seq(Calls)
    <2> HIDE DEF full, part
    <2>1. new \in Seq(Seq(STRING)) /\ ToolCalls(full) \in Seq(Seq(STRING))
      BY <1>7, ToolCallsAre
    <2>2. locals \in Seq(Calls)
      BY <1>1, MadeType
    <2>3. QED
      BY <2>1, <2>2, ConcatProperties DEF Calls
  <1>12. ToolCalls(Received) \in Seq(Calls) /\ locals \in Seq(Calls) /\ Made \in Seq(Calls)
    BY <1>1, MadeType
  <1>13. Both(Made, new, all)
    <2>1. SUFFICES ASSUME NEW C \in SUBSET Calls
                   PROVE  Count(Made, C) + Count(new, C) <= Count(all, C)
      BY DEF Both
    <2>2. Count(ToolCalls(Received), C) + Count(new, C) <= Count(ToolCalls(full), C)
      <3>1. sent <= end
        BY <1>3, <1>4
      <3>2. QED
        BY <1>3, <1>4, <3>1, CallsInParts DEF Received
    <2> HIDE DEF full, part, new
    <2>3. Count(Made, C) = Count(ToolCalls(Received), C) + Count(locals, C)
      BY <1>12, CountOfTwo DEF Made
    <2>4. Count(all, C) = Count(ToolCalls(full), C) + Count(locals, C)
      BY <1>11, <1>12, CountOfTwo
    <2>5. /\ Count(ToolCalls(Received), C) \in Nat /\ Count(new, C) \in Nat /\ Count(locals, C) \in Nat
          /\ Count(ToolCalls(full), C) \in Nat
      BY <1>11, <1>12, CountType
    <2>6. QED
      BY <2>2, <2>3, <2>4, <2>5
  <1>14. Made' = all
    BY <1>5, <1>6 DEF Made
  <1> HIDE DEF new, all, part, full
  <1>15. /\ h \in Guards /\ Sound(h)
         /\ IF h.rejected THEN Wrong(all)
            ELSE AtMost(h.out, all) /\ ToSet(locals) \subseteq ToSet(h.out)
    BY <1>1, <1>11, <1>12, <1>13, HearsMore
  <1> HIDE DEF h
  <1>16. /\ st'.full = Received' /\ st'.parsed = Len(st'.full) /\ st'.guard = h
         /\ st' \in [full : Seq(STRING), parsed : Nat, guard : Guards]
    BY <1>4, <1>6, <1>7, <1>10, <1>15
  <1>17. QED
    BY <1>5, <1>14, <1>15, <1>16 DEF Heard

\* A local call.
LEMMA TellLocal ==
  ASSUME TellInv, LocalTool, ~Streaming, repeated = 0
  PROVE  Heard'
  <1>1. MessageTypes /\ ~over /\ Heard
    BY DEF TellInv, EndInv, LocalTool, Reads
  <1>2. PICK c \in LocalCalls : SendLocal(c) /\ HearLocal(c)
    BY DEF LocalTool
  <1> DEFINE new == <<c>>
             all == Made \o new
             h == ThroughGuard(st.guard, new)
  <1>3. /\ text' = text /\ sent' = sent /\ locals' = locals \o new
    <2>1. locals \in Seq(LocalCalls)
      BY <1>1 DEF MessageTypes
    <2>2. Append(locals, c) = locals \o <<c>>
      BY <2>1, AppendIsConcat
    <2>3. QED
      BY <1>2, <2>2 DEF SendLocal
  <1>4. Received' = Received
    BY <1>3 DEF Received
  <1>5. c \in Calls /\ new \in Seq(Calls) /\ Len(new) = 1 /\ new[1] = c
    BY FeedAssumption DEF Calls
  <1>6. ToolCalls(Received) \in Seq(Calls) /\ locals \in Seq(Calls) /\ Made \in Seq(Calls)
    BY <1>1, MadeType
  <1> HIDE DEF new
  <1>7. all \in Seq(Calls) /\ Made' = all
    <2>1. all \in Seq(Calls)
      BY <1>5, <1>6, ConcatProperties
    <2>2. (ToolCalls(Received) \o locals) \o new = ToolCalls(Received) \o (locals \o new)
      BY <1>5, <1>6, ConcatAssociative
    <2>3. QED
      BY <1>3, <1>4, <2>1, <2>2 DEF Made
  <1>8. Both(Made, new, all)
    <2>1. \A C \in SUBSET Calls : Count(all, C) = Count(Made, C) + Count(new, C)
      BY <1>5, <1>6, CountOfTwo
    <2>2. \A C \in SUBSET Calls : Count(all, C) \in Nat
      BY <1>7, CountType
    <2>3. QED
      BY <2>1, <2>2 DEF Both
  <1>9. st' = [st EXCEPT !.guard = h]
    BY <1>2 DEF HearLocal, new
  <1> HIDE DEF all
  <1>10. /\ h \in Guards /\ Sound(h)
         /\ IF h.rejected THEN Wrong(all)
            ELSE /\ AtMost(h.out, all) /\ ToSet(locals) \subseteq ToSet(h.out)
                 /\ ToSet(new) \subseteq ToSet(h.out)
    <2>1. Len(new) <= MaxToolCalls
      BY <1>5, GuardAssumption
    <2>2. QED
      BY <1>1, <1>5, <1>6, <1>7, <1>8, <2>1, HearsMore
  <1> HIDE DEF h
  <1>11. ToSet(locals') = ToSet(locals) \cup ToSet(new)
    BY <1>3, <1>5, <1>6, ConcatSet
  <1>12. /\ st'.full = Received' /\ st'.parsed = Len(st'.full) /\ st'.guard = h
         /\ st' \in [full : Seq(STRING), parsed : Nat, guard : Guards]
    BY <1>1, <1>4, <1>9, <1>10 DEF Heard
  <1>13. QED
    BY <1>7, <1>10, <1>11, <1>12 DEF Heard

\* What has been let through is not let through again, what was not is.
LEMMA NotYetOutIs ==
  ASSUME NEW calls \in Seq(Calls), NEW out \in Seq(Calls)
  PROVE  /\ NotYetOut(calls, out) \in Seq(Calls)
         /\ ToSet(calls) \subseteq ToSet(out) \cup ToSet(NotYetOut(calls, out))
         /\ \A C : Count(NotYetOut(calls, out), C) = Count(calls, C \ ToSet(out))
  <1> DEFINE I == {i \in DOMAIN calls : calls[i] \notin ToSet(out)}
             new == NotYetOut(calls, out)
  <1>1. DOMAIN calls = 1..Len(calls) /\ I \cap 1..Len(calls) = I
    BY LenProperties
  <1>2. new = At(calls, I)
    BY DEF NotYetOut
  <1> HIDE DEF I, new
  <1>3. /\ At(calls, I) \in Seq(Calls)
        /\ \E e : Picks(At(calls, I), calls, I \cap 1..Len(calls), e)
    BY AtPicks
  <1>4. new \in Seq(Calls)
    BY <1>2, <1>3
  <1>5. PICK e : Picks(new, calls, I, e)
    BY <1>1, <1>2, <1>3
  <1>6. ToSet(calls) \subseteq ToSet(out) \cup ToSet(new)
    <2>1. SUFFICES ASSUME NEW i \in 1..Len(calls), calls[i] \notin ToSet(out)
                   PROVE  calls[i] \in ToSet(new)
      BY <1>1 DEF ToSet
    <2>2. i \in I
      BY <1>1, <2>1 DEF I
    <2>3. PICK k \in 1..Len(new) : e[k] = i /\ new[k] = calls[i]
      BY <1>5, <2>2 DEF Picks
    <2>4. DOMAIN new = 1..Len(new)
      BY <1>4, LenProperties
    <2>5. QED
      BY <2>3, <2>4 DEF ToSet
  <1>7. ASSUME NEW C PROVE Count(new, C) = Count(calls, C \ ToSet(out))
    <2> DEFINE D == C \ ToSet(out)
    <2>1. Count(new, C) = Cardinality({i \in I : calls[i] \in C})
      BY <1>4, <1>5, CountPicked
    <2>2. {i \in I : calls[i] \in C} = {k \in 1..Len(calls) : calls[k] \in D}
      BY <1>1 DEF I
    <2> HIDE DEF D
    <2>3. Count(new, C) = Count(calls, D)
      BY <2>1, <2>2, Zenon DEF Count
    <2>4. QED
      BY <2>3 DEF D
  <1>8. QED
    BY <1>4, <1>6, <1>7 DEF new

\* So what has been let through and what is yet to be looked at are among the calls.
LEMMA FlushBoth ==
  ASSUME NEW calls \in Seq(Calls), NEW more \in Seq(Calls), NEW out \in Seq(Calls),
         AtMost(out, calls \o more)
  PROVE  Both(out, NotYetOut(calls, out), calls \o more)
  <1> DEFINE all == calls \o more
             new == NotYetOut(calls, out)
             O == ToSet(out)
  <1>1. all \in Seq(Calls) /\ new \in Seq(Calls)
    BY ConcatProperties, NotYetOutIs
  <1>2. SUFFICES ASSUME NEW C \in SUBSET Calls
                 PROVE  Count(out, C) + Count(new, C) <= Count(all, C)
    BY DEF Both
  <1>3. Count(new, C) = Count(calls, C \ O)
    BY NotYetOutIs
  <1>4. Count(all, C \ O) = Count(calls, C \ O) + Count(more, C \ O)
    <2> DEFINE D == C \ O
    <2> HIDE DEF D
    <2>1. Count(calls \o more, D) = Count(calls, D) + Count(more, D)
      BY CountOfTwo
    <2>2. QED
      BY <2>1 DEF D
  <1> HIDE DEF all, new
  <1>5. Count(out, C) = Count(out, C \cap O)
    <2>1. DOMAIN out = 1..Len(out)
      BY LenProperties
    <2>2. {k \in 1..Len(out) : out[k] \in C} = {k \in 1..Len(out) : out[k] \in C \cap O}
      BY <2>1 DEF ToSet
    <2>3. QED
      BY <2>2 DEF Count
  <1>6. Count(out, C \cap O) <= Count(all, C \cap O)
    BY DEF AtMost, all
  <1>7. Count(all, C) = Count(all, C \cap O) + Count(all, C \ O)
    <2> DEFINE D == C \cap O
               E == C \ O
    <2>1. D \cap E = {} /\ D \cup E = C
      OBVIOUS
    <2> HIDE DEF D, E
    <2>2. Count(all, D \cup E) = Count(all, D) + Count(all, E)
      BY <1>1, <2>1, CountApart
    <2>3. Count(all, C) = Count(all, D) + Count(all, E)
      BY <2>1, <2>2
    <2>4. QED
      BY <2>3 DEF D, E
  <1>8. /\ Count(all, C \cap O) \in Nat /\ Count(out, C \cap O) \in Nat
        /\ Count(calls, C \ O) \in Nat /\ Count(more, C \ O) \in Nat
    BY <1>1, CountType
  <1>9. QED
    BY <1>3, <1>4, <1>5, <1>6, <1>7, <1>8

\* A sequence has as many elements as places, at most.
LEMMA SetOfSeq ==
  ASSUME NEW S, NEW s \in Seq(S)
  PROVE  IsFiniteSet(ToSet(s)) /\ Cardinality(ToSet(s)) <= Len(s)
  <1> DEFINE n == Len(s)
             f == [i \in 1..n |-> s[i]]
  <1>1. n \in Nat /\ DOMAIN s = 1..n
    BY LenProperties
  <1>2. IsFiniteSet(1..n) /\ Cardinality(1..n) = n
    <2> HIDE DEF n
    <2>1. 1 \in Int /\ n \in Int /\ (1 > n => n = 0) /\ n - 1 + 1 = n
      BY <1>1
    <2>2. QED
      BY <2>1, FS_Interval
  <1>3. f \in Surjection(1..n, ToSet(s))
    <2>1. f \in [1..n -> ToSet(s)]
      BY <1>1 DEF ToSet
    <2>2. \A y \in ToSet(s) : \E i \in 1..n : f[i] = y
      BY <1>1 DEF ToSet
    <2> HIDE DEF n, f
    <2>3. QED
      BY <2>1, <2>2 DEF Surjection
  <1> HIDE DEF f, n
  <1>4. IsFiniteSet(ToSet(s)) /\ Cardinality(ToSet(s)) <= Cardinality(1..n)
    BY <1>2, <1>3, FS_Surjection
  <1>5. QED
    BY <1>2, <1>4 DEF n

\* The end of an answer.
LEMMA TellEnd ==
  ASSUME TellInv, EndAnswer, repeated = 0
  PROVE  Told'
  <1>1. MessageTypes /\ ~over /\ ~Streaming /\ Heard
    BY DEF TellInv, EndInv, EndAnswer
  <1> DEFINE calls == ToolCalls(Received)
             out == st.guard.out
             new == NotYetOut(calls, out)
             h == ThroughGuard(st.guard, new)
             g == Flushed
  <1>2. /\ Built(g) /\ UNCHANGED feedVars /\ route' = route
    BY DEF EndAnswer, Closed
  <1>3. calls \in Seq(Calls) /\ locals \in Seq(Calls) /\ Made \in Seq(Calls) /\ Made = calls \o locals
    BY <1>1, MadeType DEF Made
  <1>4. /\ st.full = Received /\ st.guard \in Guards /\ Sound(st.guard)
        /\ IF st.guard.rejected THEN Wrong(Made)
           ELSE AtMost(out, Made) /\ ToSet(locals) \subseteq ToSet(out)
        /\ out \in Seq(Calls)
    BY <1>1 DEF Heard, Guards
  <1>5. g = [h EXCEPT !.rejected = @ \/ (Len(h.out) >= 3 /\ ParallelLoop(h.out))]
    BY <1>4 DEF Flushed
  <1> HIDE DEF calls, out
  <1>6. new \in Seq(Calls) /\ ToSet(calls) \subseteq ToSet(out) \cup ToSet(new)
    BY <1>3, <1>4, NotYetOutIs
  <1>7. ~st.guard.rejected => Both(out, new, Made)
    <2>1. SUFFICES ASSUME AtMost(out, calls \o locals) PROVE Both(out, new, calls \o locals)
      BY <1>3, <1>4
    <2>2. QED
      BY <1>3, <1>4, <2>1, FlushBoth
  <1> HIDE DEF new
  <1>8. /\ h \in Guards /\ Sound(h)
        /\ h.rejected => Wrong(Made)
        /\ ~h.rejected =>
             /\ ~st.guard.rejected /\ ToSet(out) \subseteq ToSet(h.out) /\ AtMost(h.out, Made)
             /\ Len(new) <= MaxToolCalls => ToSet(new) \subseteq ToSet(h.out)
             /\ Len(new) > MaxToolCalls => Len(h.out) = MaxToolCalls
    <2>1. ~st.guard.rejected => Both(st.guard.out, new, Made)
      BY <1>7 DEF out
    <2>2. /\ h \in Guards /\ Sound(h)
          /\ h.rejected => Wrong(Made)
          /\ ~h.rejected =>
               /\ ~st.guard.rejected /\ ToSet(st.guard.out) \subseteq ToSet(h.out)
               /\ AtMost(h.out, Made)
               /\ Len(new) <= MaxToolCalls => ToSet(new) \subseteq ToSet(h.out)
               /\ Len(new) > MaxToolCalls => Len(h.out) = MaxToolCalls
      BY <1>3, <1>4, <1>6, <2>1, GuardTells
    <2>3. QED
      BY <2>2 DEF out
  <1> HIDE DEF h, g
  <1>9. h.out \in Seq(Calls) /\ h.rejected \in BOOLEAN
    BY <1>8 DEF Guards
  <1>10. ~h.rejected => ~ParallelLoop(h.out)
    <2>1. SUFFICES ASSUME ~h.rejected, NEW c \in ToSet(h.out), Times(c, h.out) >= LoopLength
                   PROVE  FALSE
      BY DEF ParallelLoop
    <2>2. c \in Calls /\ Times(c, h.out) \in Nat
      BY <1>9, InCount
    <2>3. Times(c, h.out) <= SpamThreshold
      BY <1>8, <2>1, <2>2 DEF Sound
    <2>4. QED
      BY <2>1, <2>2, <2>3, GuardAssumption
  <1>11. g.out = h.out /\ (g.rejected <=> h.rejected)
    BY <1>5, <1>8, <1>9, <1>10 DEF Guards
  <1>12. UNCHANGED <<text, sent, locals>> /\ Made' = Made
    BY <1>2 DEF feedVars, Received, Made
  <1>13. CASE g.rejected
    <2>1. response'.kind = "rejected"
      BY <1>2, <1>13 DEF Built, Reply
    <2>2. QED
      BY <1>8, <1>11, <1>12, <1>13, <2>1 DEF Told
  <1>14. CASE ~g.rejected
    <2>1. response'.kind = "answer" /\ response'.calls = h.out
          /\ response'.content = IF g.out = <<>> THEN ArtifactsGone(st.full) ELSE <<>>
      BY <1>2, <1>11, <1>14 DEF Built, Reply
    <2>2. response'.content \in Seq(STRING)
      <3>1. ArtifactsGone(Received) \in Seq(STRING)
        BY <1>1, MadeType, ArtifactsGoneType
      <3>2. QED
        BY <1>4, <2>1, <3>1, EmptySeq
    <2>3. Malformed \notin ToSet(h.out) /\ Len(h.out) <= MaxToolCalls /\ AtMost(h.out, Made)
      BY <1>8, <1>11, <1>14 DEF Sound
    <2>4. ToSet(out) \subseteq ToSet(h.out) /\ ToSet(locals) \subseteq ToSet(out)
      BY <1>4, <1>8, <1>11, <1>14
    <2>5. ToSet(Made) \subseteq ToSet(h.out) \/ Len(h.out) = MaxToolCalls
      <3>1. ToSet(Made) = ToSet(calls) \cup ToSet(locals)
        BY <1>3, ConcatSet
      <3>2. Len(new) \in Nat /\ (Len(new) <= MaxToolCalls \/ Len(new) > MaxToolCalls)
        BY <1>6, LenProperties, GuardAssumption
      <3>3. QED
        BY <1>6, <1>8, <1>11, <1>14, <2>4, <3>1, <3>2
    <2>6. Kept'
      BY <1>9, <1>12, <2>1, <2>2, <2>3, <2>4, <2>5 DEF Kept
    <2>7. QED
      BY <2>1, <2>6 DEF Told
  <1>15. QED
    BY <1>13, <1>14

\* What the client is told says what was wrong.
LEMMA ToldTells ==
  ASSUME MessageTypes, Told, response.kind \in {"answer", "rejected"}
  PROVE  LET wrong == Malformed \in ToSet(Made) \/ Cardinality(ToSet(Made)) > MaxToolCalls
         IN  /\ Malformed \in ToSet(locals) => response.kind = "rejected"
             /\ wrong => response.kind = "rejected" \/ Len(response.calls) = MaxToolCalls
             /\ response.kind = "rejected" =>
                  wrong \/ Len(Made) > MaxToolCalls
                        \/ \E c \in ToSet(Made) : Times(c, Made) > SpamThreshold
  <1>1. CASE response.kind = "rejected"
    BY <1>1 DEF Told, Wrong
  <1>2. CASE response.kind = "answer"
    <2> DEFINE out == response.calls
    <2>1. Kept /\ response.kind # "rejected"
      BY <1>2 DEF Told
    <2>2. out \in Seq(Calls) /\ Malformed \notin ToSet(out) /\ Len(out) <= MaxToolCalls
          /\ ToSet(locals) \subseteq ToSet(out)
          /\ (ToSet(Made) \subseteq ToSet(out) \/ Len(out) = MaxToolCalls)
      BY <2>1 DEF Kept
    <2> HIDE DEF out
    <2>3. ASSUME ToSet(Made) \subseteq ToSet(out)
          PROVE  ~(Cardinality(ToSet(Made)) > MaxToolCalls)
      <3>1. IsFiniteSet(ToSet(out)) /\ Cardinality(ToSet(out)) <= Len(out)
        BY <2>2, SetOfSeq
      <3>2. Cardinality(ToSet(Made)) <= Cardinality(ToSet(out)) /\ IsFiniteSet(ToSet(Made))
        BY <2>3, <3>1, FS_Subset
      <3>3. /\ Cardinality(ToSet(Made)) \in Nat /\ Cardinality(ToSet(out)) \in Nat
            /\ Len(out) \in Nat /\ MaxToolCalls \in Nat
        BY <2>2, <3>1, <3>2, FS_CardinalityType, LenProperties, GuardAssumption
      <3>4. QED
        BY <2>2, <3>1, <3>2, <3>3
    <2>4. Malformed \notin ToSet(locals)
      BY <2>2
    <2>5. ~(Malformed \in ToSet(Made) \/ Cardinality(ToSet(Made)) > MaxToolCalls)
          \/ Len(out) = MaxToolCalls
      BY <2>2, <2>3
    <2>6. QED
      BY <2>1, <2>4, <2>5 DEF out
  <1>3. QED
    BY <1>1, <1>2

\* It holds at the beginning.
LEMMA TellInit == Init => TellInv
  <1> SUFFICES ASSUME Init PROVE TellInv
    OBVIOUS
  <1>1. EndInv /\ MessageTypes
    BY EndInit DEF EndInv
  <1>2. sent = 0 /\ over = FALSE /\ locals = <<>>
        /\ st = [full |-> <<>>, parsed |-> 0, guard |-> NewGuard]
    BY DEF Init, FeedInit, AnswerInit
  <1>3. ~Streaming /\ over => Told
    BY <1>2
  <1>4. Heard
    <2>1. <<>> \in Seq(Calls) /\ <<>> \in Seq(STRING) /\ Len(<<>>) = 0 /\ ToSet(<<>>) = {}
      BY EmptySeq DEF ToSet
    <2>2. NewGuard \in Guards /\ NewGuard.out = <<>> /\ NewGuard.history = <<>>
          /\ NewGuard.rejected = FALSE
      BY <2>1 DEF NewGuard, Guards
    <2>3. Received = <<>>
      BY <1>2, SubSeqEmpty DEF Received
    <2>4. \A C : Count(<<>>, C) = 0
      <3>1. \A C : Count(<<>>, C) \in Nat /\ Count(<<>>, C) <= Len(<<>>)
        BY <2>1, CountType
      <3>2. QED
        BY <2>1, <3>1
    <2>5. Made \in Seq(Calls) /\ \A C : Count(Made, C) \in Nat
      <3>1. Made \in Seq(Calls)
        BY <1>1, MadeType
      <3>2. QED
        BY <3>1, CountType
    <2>6. Sound(NewGuard)
      <3>1. \A c : Times(c, <<>>) = 0
        BY <2>1, <2>4, InCount
      <3>2. QED
        BY <2>1, <2>2, <3>1, GuardAssumption DEF Sound
    <2>7. AtMost(<<>>, Made)
      BY <2>4, <2>5 DEF AtMost
    <2>8. st \in [full : Seq(STRING), parsed : Nat, guard : Guards]
          /\ st.full = <<>> /\ st.parsed = 0 /\ st.guard = NewGuard
      BY <1>2, <2>1, <2>2
    <2>9. QED
      BY <1>2, <2>1, <2>2, <2>3, <2>6, <2>7, <2>8 DEF Heard
  <1>5. repeated = 0
    BY DEF Init, FeedInit
  <1>6. QED
    BY <1>1, <1>3, <1>4, <1>5 DEF TellInv

\* Each step keeps it.
LEMMA TellNext ==
  ASSUME Calm
  PROVE  TellInv /\ [Next]_vars => TellInv'
  <1> SUFFICES ASSUME TellInv, [Next]_vars PROVE TellInv'
    OBVIOUS
  <1>1. EndInv'
    BY EndNext DEF TellInv
  <1>2. CASE AnswerChunk
    <2>1. over' = over /\ route' = route /\ ~over
      BY <1>2 DEF AnswerChunk, Reads, routeVars
    <2>2. repeated' = 0 /\ ~Streaming => Heard'
      BY <1>2, TellChunk
    <2>3. repeated' \in Nat
      BY <1>2 DEF AnswerChunk, SendChunk, TellInv
    <2>4. QED
      BY <1>1, <2>1, <2>2, <2>3 DEF TellInv, Streaming
  <1>3. CASE LocalTool
    <2>1. over' = over /\ route' = route /\ ~over /\ repeated' = repeated
      BY <1>3 DEF LocalTool, Reads, routeVars, SendLocal
    <2>2. repeated = 0 /\ ~Streaming => Heard'
      BY <1>3, TellLocal
    <2>3. QED
      BY <1>1, <2>1, <2>2 DEF TellInv, Streaming
  <1>4. CASE Thought \/ UpstreamError
    <2>1. over' = over /\ route' = route /\ ~over /\ UNCHANGED <<text, sent, repeated, locals, st>>
      BY <1>4 DEF Thought, UpstreamError, Reads, routeVars, feedVars, answerVars, SendThought
    <2>2. Heard => Heard'
      BY <2>1 DEF Heard, Made, Received
    <2>3. QED
      BY <1>1, <2>1, <2>2 DEF TellInv, Streaming
  <1>5. CASE EndAnswer
    <2>1. over' = TRUE /\ repeated' = repeated
      BY <1>5 DEF EndAnswer, Closed, feedVars
    <2>2. QED
      BY <1>1, <1>5, <2>1, TellEnd DEF TellInv
  <1>6. CASE EndStream
    <2>1. over' = TRUE /\ route' = "stream" /\ repeated' = repeated
      BY <1>6 DEF EndStream, Closed, Streaming, feedVars
    <2>2. QED
      BY <1>1, <2>1 DEF TellInv, Streaming
  <1>7. CASE Document \/ ReadFails
    <2>1. over' = TRUE /\ route' = route /\ repeated' = repeated
      BY <1>7 DEF Document, ReadFails, Closed, feedVars
    <2>2. ~Streaming => response'.kind \in {"document", "timeout"}
      <3>1. CASE Document
        BY <3>1 DEF Document, Reply
      <3>2. CASE ReadFails
        BY <3>2 DEF ReadFails, Reply
      <3>3. QED
        BY <1>7, <3>1, <3>2
    <2>3. ~Streaming => Told'
      BY <2>2 DEF Told
    <2>4. QED
      BY <1>1, <2>1, <2>3 DEF TellInv, Streaming
  <1>8. CASE UNCHANGED vars
    <2>1. UNCHANGED <<text, sent, repeated, locals, st, over, route, response>>
      BY <1>8 DEF vars, feedVars, answerVars, messageVars, routeVars
    <2>2. (Heard => Heard') /\ (Told => Told') /\ (Streaming <=> Streaming')
      BY <2>1 DEF Heard, Told, Kept, Made, Received, Streaming
    <2>3. QED
      BY <1>1, <2>1, <2>2 DEF TellInv
  <1>9. QED
    BY <1>2, <1>3, <1>4, <1>5, <1>6, <1>7, <1>8 DEF Next


-----------------------------------------------------------------------------
(* What the client gets of the calls *)

\* The elements of t at the positions of I, counted.
LEMMA AtCount ==
  ASSUME NEW S, NEW t \in Seq(S), NEW I
  PROVE  /\ At(t, I) \in Seq(S)
         /\ \A C : Count(At(t, I), C) = Cardinality({i \in I \cap 1..Len(t) : t[i] \in C})
  <1> DEFINE J == I \cap 1..Len(t)
             r == At(t, I)
  <1>1. r \in Seq(S) /\ \E e : Picks(r, t, J, e)
    BY AtPicks
  <1> HIDE DEF r, J
  <1>2. ASSUME NEW C PROVE Count(r, C) = Cardinality({i \in J : t[i] \in C})
    <2>1. PICK e : Picks(r, t, J, e)
      BY <1>1
    <2> DEFINE q == t
    <2>2. Picks(r, q, J, e)
      BY <2>1
    <2> HIDE DEF q
    <2>3. Count(r, C) = Cardinality({i \in J : q[i] \in C})
      BY <1>1, <2>2, CountPicked
    <2>4. QED
      BY <2>3 DEF q
  <1>3. QED
    BY <1>1, <1>2 DEF r, J

\* The data of the elements of t at the positions of I, and the positions of those
\* whose data are in C.
DataAt(t, I) == LET r == At(t, I) IN [i \in DOMAIN r |-> r[i].data]
Bearing(t, I, C) == {i \in I \cap 1..Len(t) : t[i].data \in C}

\* The data of such elements are counted by their places.
LEMMA DataCount ==
  ASSUME NEW S, NEW T, \A b \in S : b.data \in T, NEW t \in Seq(S), NEW I
  PROVE  /\ DataAt(t, I) \in Seq(T)
         /\ \A C : Count(DataAt(t, I), C) = Cardinality(Bearing(t, I, C))
  <1> DEFINE J == I \cap 1..Len(t)
             r == At(t, I)
             q == [i \in 1..Len(t) |-> t[i].data]
             w == DataAt(t, I)
  <1>1. r \in Seq(S) /\ \E e : Picks(r, t, J, e)
    BY AtPicks
  <1>2. PICK e : Picks(r, t, J, e)
    BY <1>1
  <1>3. w = [i \in DOMAIN r |-> r[i].data]
    BY DEF DataAt
  <1> HIDE DEF r, w
  <1>4. Len(r) \in Nat /\ DOMAIN r = 1..Len(r) /\ \A k \in 1..Len(r) : r[k] \in S
    BY <1>1, LenProperties, ElementOfSeq
  <1>5. w \in [1..Len(r) -> T] /\ \A k \in 1..Len(r) : w[k] = r[k].data
    BY <1>3, <1>4
  <1>6. w \in Seq(T) /\ Len(w) = Len(r)
    <2>1. w \in Seq(T)
      BY <1>4, <1>5, SeqDef
    <2>2. QED
      BY <1>4, <1>5, <2>1, LenProperties
  <1>7. Picks(w, q, J, e)
    BY <1>2, <1>5, <1>6 DEF Picks
  <1>8. ASSUME NEW C PROVE Count(w, C) = Cardinality(Bearing(t, I, C))
    <2> HIDE DEF J, q
    <2>1. Count(w, C) = Cardinality({i \in J : q[i] \in C})
      BY <1>6, <1>7, CountPicked
    <2>2. {i \in J : q[i] \in C} = Bearing(t, I, C)
      BY DEF q, J, Bearing
    <2>3. QED
      BY <2>1, <2>2, Zenon
  <1>9. QED
    BY <1>6, <1>8 DEF w

\* The calls that are not skipped are the complete ones.
LEMMA CompleteOfIs ==
  ASSUME NEW s \in Seq(Calls)
  PROVE  /\ CompleteOf(s) \in Seq(Calls)
         /\ \A C : Count(CompleteOf(s), C) = Count(s, {c \in C : Complete(c)})
  <1> DEFINE I == {i \in DOMAIN s : Complete(s[i])}
  <1>1. DOMAIN s = 1..Len(s)
    BY LenProperties
  <1>2. At(s, I) \in Seq(Calls)
        /\ \A C : Count(At(s, I), C) = Cardinality({i \in I \cap 1..Len(s) : s[i] \in C})
    BY AtCount
  <1>3. ASSUME NEW C
        PROVE  Cardinality({i \in I \cap 1..Len(s) : s[i] \in C}) = Count(s, {c \in C : Complete(c)})
    <2>1. {i \in I \cap 1..Len(s) : s[i] \in C}
            = {k \in 1..Len(s) : s[k] \in {c \in C : Complete(c)}}
      BY <1>1
    <2>2. QED
      BY <2>1, Zenon DEF Count
  <1>4. QED
    BY <1>2, <1>3 DEF CompleteOf

AnswerBlocks == [kind : {"tool_use", "text"}, index : Nat, data : Calls]

\* The blocks of an answer without streaming.
LEMMA BlocksAre ==
  ASSUME response.calls \in Seq(Calls), response.content \in Seq(STRING)
  PROVE  LET calls == CompleteOf(response.calls)
             all == BlocksOf(response)
         IN  /\ all \in Seq(AnswerBlocks)
             /\ calls # <<>> => /\ Len(all) = Len(calls)
                                /\ \A i \in 1..Len(calls) : all[i].kind = "tool_use" /\ all[i].data = calls[i]
             /\ calls = <<>> => \A i \in 1..Len(all) : all[i].kind = "text"
  <1> DEFINE calls == CompleteOf(response.calls)
             all == BlocksOf(response)
             n == Len(calls)
  <1>1. calls \in Seq(Calls) /\ n \in Nat /\ \A i \in 1..n : calls[i] \in Calls
    BY CompleteOfIs, LenProperties, ElementOfSeq
  <1>2. all = IF calls # <<>> THEN [i \in 1..n |-> Event("tool_use", i, calls[i])]
              ELSE When(response.content # <<>>, <<Event("text", 1, response.content)>>)
    BY DEF BlocksOf
  <1> HIDE DEF calls, all, n
  <1>3. CASE calls # <<>>
    <2> DEFINE E(i) == Event("tool_use", i, calls[i])
    <2>1. ASSUME NEW i \in 1..n
          PROVE  E(i) \in AnswerBlocks /\ E(i).kind = "tool_use" /\ E(i).data = calls[i]
      BY <1>1 DEF Event, AnswerBlocks
    <2>2. all = [i \in 1..n |-> E(i)]
      BY <1>2, <1>3
    <2> HIDE DEF E
    <2>3. all \in [1..n -> AnswerBlocks] /\ \A i \in 1..n : all[i] = E(i)
      BY <2>1, <2>2
    <2>4. all \in Seq(AnswerBlocks) /\ Len(all) = n
      <3>1. all \in Seq(AnswerBlocks)
        BY <1>1, <2>3, SeqDef
      <3>2. Len(all) = n
        BY <1>1, <2>3, <3>1, LenProperties
      <3>3. QED
        BY <3>1, <3>2
    <2>5. QED
      BY <1>3, <2>1, <2>3, <2>4 DEF n, calls, all
  <1>4. CASE calls = <<>>
    <2> DEFINE b == Event("text", 1, response.content)
    <2>1. b \in AnswerBlocks /\ b.kind = "text"
      BY DEF Event, AnswerBlocks, Calls
    <2> HIDE DEF b
    <2>2. all = <<b>> \/ all = <<>>
      BY <1>2, <1>4 DEF When, b
    <2>3. all \in Seq(AnswerBlocks) /\ \A i \in 1..Len(all) : all[i].kind = "text"
      <3>1. CASE all = <<b>>
        <4>1. <<b>> \in Seq(AnswerBlocks) /\ Len(<<b>>) = 1 /\ <<b>>[1] = b
          BY <2>1
        <4>2. \A i \in 1..Len(<<b>>) : <<b>>[i] = b
          BY <4>1
        <4>3. QED
          BY <2>1, <3>1, <4>1, <4>2
      <3>2. CASE all = <<>>
        <4>1. <<>> \in Seq(AnswerBlocks) /\ 1..Len(<<>>) = {}
          BY EmptySeq
        <4>2. QED
          BY <3>2, <4>1
      <3>3. QED
        BY <2>2, <3>1, <3>2
    <2>4. QED
      BY <1>4, <2>3 DEF calls, all
  <1>5. QED
    BY <1>3, <1>4

\* The tool blocks of an answer without streaming are its complete calls, and stand alone.
LEMMA DataIs ==
  ASSUME response.calls \in Seq(Calls), response.content \in Seq(STRING)
  PROVE  /\ DataOf("tool_use") \in Seq(Calls)
         /\ \A C : Count(DataOf("tool_use"), C) = Count(CompleteOf(response.calls), C)
         /\ DataOf("tool_use") # <<>> => DataOf("text") = <<>>
  <1> DEFINE calls == CompleteOf(response.calls)
             all == BlocksOf(response)
             I(kind) == {i \in DOMAIN all : all[i].kind = kind}
  <1>1. /\ all \in Seq(AnswerBlocks) /\ DOMAIN all = 1..Len(all) /\ Len(all) \in Nat
        /\ \A i \in 1..Len(all) : all[i] \in AnswerBlocks
        /\ calls # <<>> => /\ Len(all) = Len(calls)
                           /\ \A i \in 1..Len(calls) : all[i].kind = "tool_use" /\ all[i].data = calls[i]
        /\ calls = <<>> => \A i \in 1..Len(all) : all[i].kind = "text"
    <2>1. /\ all \in Seq(AnswerBlocks)
          /\ calls # <<>> => /\ Len(all) = Len(calls)
                             /\ \A i \in 1..Len(calls) : all[i].kind = "tool_use" /\ all[i].data = calls[i]
          /\ calls = <<>> => \A i \in 1..Len(all) : all[i].kind = "text"
      BY BlocksAre
    <2> HIDE DEF all
    <2>2. QED
      BY <2>1, LenProperties, ElementOfSeq
  <1>2. \A b \in AnswerBlocks : b.data \in Calls
    BY DEF AnswerBlocks
  <1>3. calls \in Seq(Calls) /\ DOMAIN calls = 1..Len(calls) /\ Len(calls) \in Nat
    BY CompleteOfIs, LenProperties
  <1>4. ASSUME NEW kind
        PROVE  /\ DataOf(kind) \in Seq(Calls)
               /\ \A C : Count(DataOf(kind), C) = Cardinality({i \in 1..Len(all) :
                           all[i].kind = kind /\ all[i].data \in C})
    <2> DEFINE K == I(kind)
    <2>1. DataOf(kind) = DataAt(all, K)
      BY DEF DataOf, DataAt
    <2>2. ASSUME NEW C
          PROVE  Bearing(all, K, C) = {i \in 1..Len(all) : all[i].kind = kind /\ all[i].data \in C}
      <3> HIDE DEF all
      <3>1. QED
        BY <1>1 DEF Bearing
    <2> HIDE DEF K, all
    <2>3. DataAt(all, K) \in Seq(Calls)
          /\ \A C : Count(DataAt(all, K), C) = Cardinality(Bearing(all, K, C))
      BY <1>1, <1>2, DataCount
    <2>4. QED
      BY <2>1, <2>2, <2>3
  <1> HIDE DEF all
  <1>5. ASSUME NEW C
        PROVE  Count(DataOf("tool_use"), C) = Count(calls, C)
    <2> DEFINE L == {i \in 1..Len(all) : all[i].kind = "tool_use" /\ all[i].data \in C}
    <2>1. Count(DataOf("tool_use"), C) = Cardinality(L)
      BY <1>4
    <2>2. L = {k \in 1..Len(calls) : calls[k] \in C}
      <3>1. CASE calls # <<>>
        <4> HIDE DEF calls
        <4>1. QED
          BY <1>1, <3>1
      <3>2. CASE calls = <<>>
        <4>1. Len(calls) = 0
          BY <3>2
        <4> HIDE DEF calls
        <4>2. 1..Len(calls) = {}
          BY <4>1
        <4>3. QED
          BY <1>1, <3>2, <4>2
      <3>3. QED
        BY <3>1, <3>2
    <2> HIDE DEF L, calls
    <2>3. QED
      BY <2>1, <2>2 DEF Count
  <1>6. ASSUME DataOf("tool_use") # <<>> PROVE DataOf("text") = <<>>
    <2>1. Count(DataOf("tool_use"), Calls) = Len(DataOf("tool_use")) /\ DataOf("tool_use") \in Seq(Calls)
      BY <1>4, CountType
    <2>2. Len(DataOf("tool_use")) > 0
      BY <1>6, <2>1, EmptySeq
    <2>3. calls # <<>>
      <3>1. SUFFICES ASSUME calls = <<>> PROVE FALSE
        OBVIOUS
      <3>2. Count(calls, Calls) = Len(calls) /\ Len(calls) = 0
        <4>1. Count(calls, Calls) = Len(calls)
          BY <1>3, CountType
        <4>2. QED
          BY <3>1, <4>1
      <3>3. QED
        BY <1>5, <2>1, <2>2, <3>2
    <2>4. {i \in 1..Len(all) : all[i].kind = "text" /\ all[i].data \in Calls} = {}
      <3> HIDE DEF calls
      <3>1. QED
        BY <1>1, <2>3
    <2>5. Count(DataOf("text"), Calls) = 0
      BY <1>4, <2>4, FS_EmptySet
    <2>6. DataOf("text") \in Seq(Calls) /\ Count(DataOf("text"), Calls) = Len(DataOf("text"))
      BY <1>4, CountType
    <2>7. QED
      BY <2>5, <2>6, EmptySeq
  <1>7. QED
    BY <1>4, <1>5, <1>6

\* A client that is given an answer at once gets the calls.
LEMMA KeptKeeps ==
  ASSUME MessageTypes, Kept, over, ~Streaming, response.kind = "answer"
  PROVE  CallsKept
  <1> DEFINE calls == response.calls
             data == DataOf("tool_use")
             wanted(c) == c \in ToSet(Made)
  <1>1. calls \in Seq(Calls) /\ Made \in Seq(Calls) /\ MaxToolCalls > 0
    BY MadeType, GuardAssumption DEF Kept
  <1>2. /\ data \in Seq(Calls)
        /\ \A C : Count(data, C) = Count(CompleteOf(calls), C)
        /\ data # <<>> => DataOf("text") = <<>>
    BY DataIs DEF Kept
  <1>3. \A C : Count(CompleteOf(calls), C) = Count(calls, {c \in C : Complete(c)})
    BY <1>1, CompleteOfIs
  <1>4. ASSUME NEW c
        PROVE  /\ c \in ToSet(Made) \cup ToSet(calls) => c \in Calls
               /\ Times(c, calls) = Count(calls, {c}) /\ Times(c, Made) = Count(Made, {c})
               /\ Times(c, data) = Count(data, {c})
               /\ Count(calls, {c}) \in Nat /\ Count(Made, {c}) \in Nat
               /\ c \in ToSet(calls) <=> Count(calls, {c}) > 0
               /\ c \in ToSet(Made) <=> Count(Made, {c}) > 0
               /\ c \in ToSet(data) <=> Count(data, {c}) > 0
               /\ c \in Calls => Count(calls, {c}) <= Count(Made, {c})
               /\ Complete(c) => Count(data, {c}) = Count(calls, {c})
               /\ ~Complete(c) => Count(data, {c}) = 0
    <2> HIDE DEF calls, data
    <2>1. c \in Calls => Count(calls, {c}) <= Count(Made, {c})
      BY {c} \in SUBSET Calls <=> c \in Calls DEF Kept, AtMost, calls
    <2>2. Count(data, {c}) = Count(calls, {d \in {c} : Complete(d)})
      BY <1>2, <1>3
    <2>3. Complete(c) => {d \in {c} : Complete(d)} = {c}
      OBVIOUS
    <2>4. ~Complete(c) => {d \in {c} : Complete(d)} = {}
      OBVIOUS
    <2>5. Count(calls, {}) = 0
      <3>1. {k \in 1..Len(calls) : calls[k] \in {}} = {}
        OBVIOUS
      <3>2. QED
        BY <3>1, FS_EmptySet, Zenon DEF Count
    <2>6. QED
      BY <1>1, <1>2, <2>1, <2>2, <2>3, <2>4, <2>5, InCount
  <1> HIDE DEF calls, data
  <1>10. \A c : /\ c \in ToSet(data) => c \in ToSet(calls) /\ Complete(c)
                /\ c \in ToSet(calls) => c \in ToSet(Made)
                /\ c \in ToSet(calls) /\ Complete(c) => c \in ToSet(data)
                /\ c \in ToSet(calls) <=> Times(c, calls) > 0
                /\ c \in ToSet(data) <=> Times(c, data) > 0
                /\ c \in ToSet(Made) => Times(c, calls) <= Times(c, Made)
                                         /\ Times(c, data) <= Times(c, Made)
    <2> TAKE c
    <2> DEFINE told == Count(calls, {c})
               made == Count(Made, {c})
               given == Count(data, {c})
    <2>1. /\ c \in ToSet(Made) \cup ToSet(calls) => c \in Calls
          /\ Times(c, calls) = told /\ Times(c, Made) = made /\ Times(c, data) = given
          /\ told \in Nat /\ made \in Nat
          /\ c \in ToSet(calls) <=> told > 0
          /\ c \in ToSet(Made) <=> made > 0
          /\ c \in ToSet(data) <=> given > 0
          /\ c \in Calls => told <= made
          /\ Complete(c) => given = told
          /\ ~Complete(c) => given = 0
      BY <1>4
    <2> HIDE DEF told, made, given
    <2>2. QED
      BY <2>1
  <1>5. ToSet(Made) \subseteq ToSet(calls) \/ Len(calls) = MaxToolCalls
    BY DEF Kept, calls
  <1>6. StopReasonAgrees
    <2>1. SUFFICES ASSUME route = "messages"
                   PROVE  IF data # <<>> THEN ConvertedStop(response) = "tool_use" /\ DataOf("text") = <<>>
                          ELSE ConvertedStop(response) = "tool_use" <=>
                                 \E c \in ToSet(Made) : ~Complete(c)
      BY DEF StopReasonAgrees, Made, data
    <2>2. ConvertedStop(response) = "tool_use" <=> calls # <<>>
      BY DEF ConvertedStop, calls
    <2>3. ASSUME NEW r \in Seq(Calls) PROVE r # <<>> <=> \E c : c \in ToSet(r)
      <3>1. Len(r) \in Nat /\ DOMAIN r = 1..Len(r) /\ (r # <<>> <=> Len(r) > 0)
        BY EmptySeq, LenProperties
      <3>2. r # <<>> => r[1] \in ToSet(r)
        BY <3>1 DEF ToSet
      <3>3. r = <<>> => ToSet(r) = {}
        BY <3>1 DEF ToSet
      <3>4. QED
        BY <3>2, <3>3
    <2>4. data # <<>> => calls # <<>>
      <3>1. ASSUME data # <<>> PROVE \E c : c \in ToSet(calls)
        <4>1. PICK c : c \in ToSet(data)
          BY <1>2, <2>3, <3>1
        <4>2. c \in ToSet(calls)
          BY <1>10, <4>1
        <4>3. QED
          BY <4>2
      <3>2. QED
        BY <1>1, <2>3, <3>1
    <2>5. ASSUME data = <<>> PROVE calls # <<>> <=> \E c \in ToSet(Made) : ~Complete(c)
      <3>1. ASSUME calls # <<>> PROVE \E c \in ToSet(Made) : ~Complete(c)
        <4>1. PICK c : c \in ToSet(calls)
          BY <1>1, <2>3, <3>1
        <4>2. c \notin ToSet(data)
          BY <1>2, <2>3, <2>5
        <4>3. c \in ToSet(Made) /\ ~Complete(c)
          BY <1>10, <4>1, <4>2
        <4>4. QED
          BY <4>3
      <3>2. ASSUME NEW c \in ToSet(Made) PROVE calls # <<>>
        <4>1. CASE c \in ToSet(calls)
          BY <1>1, <2>3, <4>1
        <4>2. CASE Len(calls) = MaxToolCalls
          BY <1>1, <4>2, EmptySeq
        <4>3. QED
          BY <1>5, <4>1, <4>2
      <3>3. QED
        BY <3>1, <3>2
    <2>6. QED
      BY <1>2, <2>2, <2>4, <2>5
  <1>7. Delivered = IF route = "messages" THEN data ELSE calls
    BY DEF Delivered, Streaming, MessageTypes, calls, data
  <1>8. ASSUME NEW c \in ToSet(Made) \cup ToSet(Delivered)
        PROVE  /\ Times(c, Delivered) <= Times(c, Made)
               /\ \/ Times(c, Delivered) > 0
                  \/ route # "chat" /\ ~Complete(c)
                  \/ ~Streaming /\ Len(calls) = MaxToolCalls
    <2>1. CASE route = "messages"
      <3>1. Delivered = data /\ route # "chat"
        BY <1>7, <2>1
      <3>2. QED
        BY <1>5, <1>10, <3>1
    <2>2. CASE route # "messages"
      <3>1. Delivered = calls
        BY <1>7, <2>2
      <3>2. QED
        BY <1>5, <1>10, <3>1
    <2>3. QED
      BY <2>1, <2>2
  <1>9. QED
    BY <1>6, <1>8 DEF CallsKept, Made, calls

-----------------------------------------------------------------------------
(* The calls of a stream *)

\* The events before the tool blocks, the first of which has the index n.
EarlyEvents(n) == {e \in EventSet : /\ e.kind = "block_start" => e.data # <<"tool_use">>
                                    /\ e.kind = "delta" => e.index < n}

\* A stream that reads has all the text that was sent.
StreamHeard ==
    /\ ms.full = Received
    /\ ms.index = IF ms.thinking THEN 1 ELSE 0
    /\ written \in Seq(EarlyEvents(FirstToolIndex))

\* The client of a stream that ends got the calls.
StreamTold ==
    LET told == Deltas(<<"tool_use">>)
    IN  told \in Seq(Data) /\ \A C : Count(told, C) = Count(CompleteOf(Made), C)

\* A sequence over a set is one over a larger set.
LEMMA SeqInclusion ==
  ASSUME NEW S, NEW T, S \subseteq T, NEW s \in Seq(S)
  PROVE  s \in Seq(T)
  <1>1. Len(s) \in Nat /\ s \in [1..Len(s) -> S]
    BY LenProperties
  <1>2. s \in [1..Len(s) -> T]
    BY <1>1
  <1>3. QED
    BY <1>1, <1>2, SeqDef

\* The events a stream writes before its end are such events.
LEMMA EarlyType ==
  ASSUME NEW n \in Nat
  PROVE  /\ \A m \in Nat : n <= m => EarlyEvents(n) \subseteq EarlyEvents(m)
         /\ Event("message_start", 0, <<>>) \in EarlyEvents(n)
         /\ Event("block_stop", 0, <<>>) \in EarlyEvents(n)
         /\ \A i \in Nat : Event("block_start", i, <<"thinking">>) \in EarlyEvents(n)
                           /\ Event("block_start", i, <<"text">>) \in EarlyEvents(n)
         /\ \A i \in Nat, data \in Data : i < n => Event("delta", i, data) \in EarlyEvents(n)
  <1>1. \A m \in Nat : n <= m => EarlyEvents(n) \subseteq EarlyEvents(m)
    <2>1. \A e \in EventSet : e.index \in Nat
      BY DEF EventSet
    <2>2. QED
      BY <2>1 DEF EarlyEvents
  <1>2. /\ {"message_start", "block_start", "block_stop", "delta"} \subseteq EventKinds
        /\ 0 \in Nat /\ <<>> \in Data /\ <<"thinking">> \in Data /\ <<"text">> \in Data
    BY EmptySeq DEF EventKinds, Data
  <1>3. <<"thinking">> # <<"tool_use">> /\ <<"text">> # <<"tool_use">>
    OBVIOUS
  <1>4. \A k \in EventKinds, i \in Nat, data \in Data :
          /\ Event(k, i, data) \in EventSet
          /\ Event(k, i, data).kind = k /\ Event(k, i, data).index = i /\ Event(k, i, data).data = data
    BY EventType
  <1>5. \A k \in EventKinds, i \in Nat, data \in Data :
          (k = "block_start" => data # <<"tool_use">>) /\ (k = "delta" => i < n)
            => Event(k, i, data) \in EarlyEvents(n)
    <2> TAKE k \in EventKinds, i \in Nat, data \in Data
    <2> DEFINE e == Event(k, i, data)
    <2>1. e \in EventSet /\ e.kind = k /\ e.index = i /\ e.data = data
      BY <1>4
    <2> HIDE DEF e
    <2>2. (k = "block_start" => data # <<"tool_use">>) /\ (k = "delta" => i < n)
            => e \in EarlyEvents(n)
      BY <2>1 DEF EarlyEvents
    <2>3. QED
      BY <2>2 DEF e
  <1>6. QED
    BY <1>1, <1>2, <1>3, <1>5

\* A reasoning chunk.
LEMMA StreamThought ==
  ASSUME MessageTypes, StreamHeard, WriteThought, UNCHANGED <<text, sent>>
  PROVE  StreamHeard'
  <1> DEFINE n == FirstToolIndex'
             a == Event("message_start", 0, <<>>)
             b == Event("block_start", 0, <<"thinking">>)
             d == Event("delta", 0, <<"thought">>)
  <1>1. /\ ms'.full = ms.full /\ ms'.thinking = TRUE /\ ms'.text = ms.text
        /\ ms'.index = IF ms.thinking THEN ms.index ELSE 1
    BY DEF WriteThought, MessageTypes
  <1>2. ms'.index = 1
    BY <1>1 DEF StreamHeard
  <1>3. n \in Nat /\ 0 < n /\ FirstToolIndex \in Nat /\ FirstToolIndex <= n
    BY <1>1, <1>2 DEF FirstToolIndex, StreamHeard
  <1>4. /\ a \in EarlyEvents(n) /\ b \in EarlyEvents(n) /\ d \in EarlyEvents(n)
        /\ EarlyEvents(FirstToolIndex) \subseteq EarlyEvents(n)
    <2>1. <<"thought">> \in Data /\ 0 \in Nat
      BY DEF Data
    <2> HIDE DEF n
    <2>2. QED
      BY <1>3, <2>1, EarlyType
  <1>5. written' = ((written \o When(~ms.started, <<a>>)) \o When(~ms.thinking, <<b>>)) \o <<d>>
    BY DEF WriteThought
  <1> HIDE DEF n, a, b, d
  <1>6. written \in Seq(EarlyEvents(n))
    BY <1>4, SeqInclusion DEF StreamHeard
  <1>7. written' \in Seq(EarlyEvents(n))
    <2> DEFINE S == EarlyEvents(n)
    <2>1. /\ When(~ms.started, <<a>>) \in Seq(S) /\ When(~ms.thinking, <<b>>) \in Seq(S)
          /\ <<d>> \in Seq(S)
      BY <1>4, WhenType
    <2> HIDE DEF S
    <2>2. QED
      BY <1>5, <1>6, <2>1, ConcatProperties DEF S
  <1>8. QED
    BY <1>1, <1>2, <1>7 DEF StreamHeard, Received, n

\* A text chunk: the increments add up to the text that was sent.
LEMMA StreamChunk ==
  ASSUME MessageTypes, Calm, StreamHeard, NEW c \in Chunks, ~Unnoticed(c),
         SendChunk(c), WriteText(c.v)
  PROVE  StreamHeard'
  <1> DEFINE n == FirstToolIndex'
             a == Event("message_start", 0, <<>>)
             x == Event("block_stop", 0, <<>>)
             b == Event("block_start", ms.index, <<"text">>)
             d == Event("delta", ms.index, ArtifactsGone(Increment(c.v)))
  <1>1. c.v \in Seq(STRING) /\ Increment(c.v) \in Seq(STRING) /\ ms.full \in Seq(STRING)
    BY ChunkTypes, IncrementIs DEF MessageTypes
  <1>2. /\ ms'.full = ms.full \o Increment(c.v) /\ ms'.text = TRUE
        /\ ms'.thinking = ms.thinking /\ ms'.index = ms.index
    BY DEF WriteText, MessageTypes
  <1>3. ms.full \o Increment(c.v) = Extended(ms.full, c.v)
    <2>1. CASE ms.full = <<>>
      <3>1. Increment(c.v) = c.v /\ ms.full \o c.v = c.v
        BY <1>1, <2>1, ConcatEmptySeq DEF Increment
      <3>2. QED
        BY <3>1 DEF Extended
    <2>2. CASE ms.full # <<>> /\ IsPrefix(ms.full, c.v) /\ Len(c.v) > Len(ms.full)
      <3> DEFINE f == ms.full
                 v == c.v
      <3>1. Increment(v) = SubSeq(v, Len(f) + 1, Len(v)) /\ Extended(f, v) = v
        BY <2>2 DEF Increment, Extended
      <3>2. /\ Len(f) \in Nat /\ Len(v) \in Nat /\ Len(f) < Len(v)
            /\ f \in Seq(STRING) /\ v \in Seq(STRING)
        BY <1>1, <2>2, LenProperties
      <3>3. f = SubSeq(v, 1, Len(f))
        BY <1>1, <2>2, SubSeqFull DEF IsPrefix
      <3>4. SubSeq(v, 1, Len(f)) \o SubSeq(v, Len(f) + 1, Len(v)) = SubSeq(v, 1, Len(v))
        <4>1. 1 \in 1..Len(v) + 1 /\ Len(f) \in 1 - 1..Len(v) /\ Len(v) \in Len(f)..Len(v)
          BY <3>2
        <4> HIDE DEF f, v
        <4>2. QED
          BY <3>2, <4>1, ConcatAdjacentSubSeq
      <3>5. SubSeq(v, 1, Len(v)) = v
        BY <3>2, SubSeqFull
      <3>6. QED
        BY <3>1, <3>3, <3>4, <3>5
    <2>3. CASE ~(IsPrefix(ms.full, c.v) /\ Len(c.v) > Len(ms.full))
      BY <2>3 DEF Increment, Extended
    <2>4. QED
      BY <2>1, <2>2, <2>3
  <1>4. ms'.full = Received'
    <2>1. Extended(Received, c.v) = SubSeq(text, 1, c.end)
      BY ChunkHeard
    <2>2. text' = text /\ sent' = c.end
      BY DEF SendChunk
    <2>3. QED
      BY <1>2, <1>3, <2>1, <2>2 DEF StreamHeard, Received
  <1>5. /\ n \in Nat /\ FirstToolIndex \in Nat /\ FirstToolIndex <= n
        /\ ms.index \in Nat /\ ms.index < n
    BY <1>2 DEF FirstToolIndex, StreamHeard
  <1>6. /\ a \in EarlyEvents(n) /\ x \in EarlyEvents(n) /\ b \in EarlyEvents(n) /\ d \in EarlyEvents(n)
        /\ EarlyEvents(FirstToolIndex) \subseteq EarlyEvents(n)
    <2>1. ArtifactsGone(Increment(c.v)) \in Data
      BY <1>1, ArtifactsGoneType DEF Data
    <2> HIDE DEF n
    <2>2. QED
      BY <1>5, <2>1, EarlyType
  <1>7. written' = (((written \o When(~ms.started, <<a>>)) \o When(ClosesThinking, <<x>>))
                     \o When(~ms.text, <<b>>)) \o <<d>>
    BY DEF WriteText
  <1> HIDE DEF n, a, b, d, x
  <1>8. written \in Seq(EarlyEvents(n))
    BY <1>6, SeqInclusion DEF StreamHeard
  <1>9. written' \in Seq(EarlyEvents(n))
    <2> DEFINE S == EarlyEvents(n)
    <2>1. /\ When(~ms.started, <<a>>) \in Seq(S) /\ When(ClosesThinking, <<x>>) \in Seq(S)
          /\ When(~ms.text, <<b>>) \in Seq(S) /\ <<d>> \in Seq(S)
      BY <1>6, WhenType
    <2> HIDE DEF S
    <2>2. QED
      BY <1>7, <1>8, <2>1, ConcatProperties DEF S
  <1>10. QED
    BY <1>2, <1>4, <1>9 DEF StreamHeard, n

\* The places of the deltas of tool blocks among the events v.
ToolDeltas(v) ==
    {i \in DOMAIN v : /\ v[i].kind = "delta"
                      /\ \E j \in DOMAIN v : v[j] = Event("block_start", v[i].index, <<"tool_use">>)}

\* The deltas of tool blocks among the events v that have data in C.
DeltaEvents(v, C) ==
    {e \in EventSet : /\ e.kind = "delta" /\ e.data \in C
                      /\ Event("block_start", e.index, <<"tool_use">>) \in ToSet(v)}

\* What the client reads of tool blocks are those deltas.
LEMMA DeltasAre ==
  written \in Seq(EventSet) =>
    /\ Deltas(<<"tool_use">>) \in Seq(Data)
    /\ \A C : Count(Deltas(<<"tool_use">>), C) = Count(written, DeltaEvents(written, C))
  <1> SUFFICES ASSUME written \in Seq(EventSet)
               PROVE  /\ Deltas(<<"tool_use">>) \in Seq(Data)
                      /\ \A C : Count(Deltas(<<"tool_use">>), C) = Count(written, DeltaEvents(written, C))
    OBVIOUS
  <1> DEFINE v == written
             I == ToolDeltas(v)
  <1>1. Deltas(<<"tool_use">>) = DataAt(v, I)
    <2>1. <<"tool_use">> # <<"text">>
      OBVIOUS
    <2>2. {i \in DOMAIN written :
             /\ written[i].kind = "delta"
             /\ <<"tool_use">> = <<"text">> => written[i].data # <<"thought">>
             /\ \E j \in DOMAIN written :
                  written[j] = Event("block_start", written[i].index, <<"tool_use">>)} = I
      BY <2>1 DEF ToolDeltas
    <2> HIDE DEF I
    <2>3. QED
      BY <2>2, Zenon DEF Deltas, DataAt
  <1>2. (\A e \in EventSet : e.data \in Data) /\ v \in Seq(EventSet)
    BY DEF EventSet
  <1> HIDE DEF I, v
  <1>3. DataAt(v, I) \in Seq(Data) /\ \A C : Count(DataAt(v, I), C) = Cardinality(Bearing(v, I, C))
    BY <1>2, DataCount
  <1>4. ASSUME NEW C PROVE Cardinality(Bearing(v, I, C)) = Count(v, DeltaEvents(v, C))
    <2>1. Len(v) \in Nat /\ DOMAIN v = 1..Len(v) /\ \A k \in 1..Len(v) : v[k] \in EventSet
      BY <1>2, LenProperties, ElementOfSeq
    <2>2. ASSUME NEW k \in 1..Len(v)
          PROVE  k \in Bearing(v, I, C) <=> v[k] \in DeltaEvents(v, C)
      <3>1. Event("block_start", v[k].index, <<"tool_use">>) \in ToSet(v)
              <=> \E j \in DOMAIN v : v[j] = Event("block_start", v[k].index, <<"tool_use">>)
        BY DEF ToSet
      <3>2. QED
        BY <2>1, <3>1 DEF Bearing, DeltaEvents, I, ToolDeltas
    <2>3. Bearing(v, I, C) = {k \in 1..Len(v) : v[k] \in DeltaEvents(v, C)}
      BY <2>2 DEF Bearing
    <2>4. QED
      BY <2>3, Zenon DEF Count
  <1>5. QED
    BY <1>1, <1>3, <1>4 DEF v

\* Nothing of a sequence counts that has no element in C.
LEMMA CountNone ==
  ASSUME NEW S, NEW s \in Seq(S), NEW C, S \cap C = {}
  PROVE  Count(s, C) = 0
  <1>1. \A k \in 1..Len(s) : s[k] \in S
    BY LenProperties, ElementOfSeq
  <1>2. {k \in 1..Len(s) : s[k] \in C} = {}
    BY <1>1
  <1>3. QED
    BY <1>2, FS_EmptySet, Zenon DEF Count

\* The elements of a sequence over a set are in it.
LEMMA ToSetIn ==
  ASSUME NEW S, NEW s \in Seq(S)
  PROVE  ToSet(s) \subseteq S
  BY LenProperties, ElementOfSeq DEF ToSet

\* The second of each triple that begins a block of its own.
Seconds(q, r, C, D) ==
    \A i \in 1..Len(q) : /\ q[i][1] \notin D /\ q[i][3] \notin D
                         /\ q[i][2] \in D <=> r[i] \in C

LEMMA CountSeconds ==
  ASSUME NEW S, NEW q \in Seq(Seq(S)), \A i \in 1..Len(q) : Len(q[i]) = 3,
         NEW r \in Seq(Calls), Len(r) = Len(q), NEW C, NEW D,
         Seconds(q, r, C, D)
  PROVE  Count(FlattenSeq(q), D) = Count(r, C)
  <1> DEFINE n == Len(q)
             f == FlattenSeq(q)
             K == {k \in 1..n : r[k] \in C}
             L == {p \in 1..Len(f) : f[p] \in D}
             b == [k \in K |-> 3 * (k - 1) + 2]
  <1>1. /\ f \in Seq(S) /\ Len(f) = 3 * n
        /\ \A k \in 1..n, j \in 1..3 : f[3 * (k - 1) + j] = q[k][j]
    BY Triples
  <1>2. n \in Nat
    BY LenProperties
  <1> HIDE DEF f, n
  <1>3. \A k \in 1..n : 3 * (k - 1) + 2 \in 1..3 * n
    BY <1>2
  <1>4. b \in [K -> L]
    <2>1. ASSUME NEW k \in K PROVE b[k] \in L
      <3>1. f[3 * (k - 1) + 2] = q[k][2] /\ 3 * (k - 1) + 2 \in 1..3 * n
        BY <1>1, <1>3
      <3>2. q[k][2] \in D
        BY DEF n, Seconds
      <3>3. QED
        BY <1>1, <3>1, <3>2
    <2>2. QED
      BY <2>1
  <1>5. \A j, k \in K : b[j] = b[k] => j = k
    BY <1>2
  <1>6. ASSUME NEW p \in L PROVE \E k \in K : b[k] = p
    <2>1. p - 1 \in Nat /\ p \in 1..3 * n
      BY <1>1, <1>2
    <2>2. PICK c \in Nat, d \in 0..2 : p - 1 = 3 * c + d
      BY <2>1, Thirds
    <2> DEFINE k == c + 1
               j == d + 1
    <2>3. k \in 1..n /\ j \in 1..3 /\ p = 3 * (k - 1) + j
      BY <1>2, <2>1, <2>2
    <2> HIDE DEF k, j
    <2>4. q[k][j] \in D
      BY <1>1, <2>3
    <2>5. j = 2
      <3>1. j = 1 \/ j = 2 \/ j = 3
        BY <2>3
      <3>2. QED
        BY <2>3, <2>4, <3>1 DEF n, Seconds
    <2>6. k \in K
      BY <2>3, <2>4, <2>5 DEF n, Seconds
    <2>7. QED
      BY <2>3, <2>5, <2>6
  <1>7. b \in Bijection(K, L)
    BY <1>4, <1>5, <1>6 DEF Bijection, Injection, Surjection, IsInjective
  <1>8. Count(r, C) = Cardinality(K) /\ Count(f, D) = Cardinality(L)
    BY DEF Count, n
  <1>9. IsFiniteSet(K)
    BY CountType DEF n
  <1> HIDE DEF K, L, b
  <1>10. Cardinality(K) = Cardinality(L)
    <2>1. ExistsBijection(K, L)
      BY <1>7 DEF ExistsBijection
    <2>2. QED
      BY <1>9, <2>1, FS_Bijection
  <1>11. QED
    BY <1>8, <1>10 DEF f

\* The events that are neither starts of blocks nor deltas, and those that start only
\* blocks with a number in N.
QuietEvents == {e \in EventSet : e.kind \notin {"delta", "block_start"}}
StartEvents(N) ==
    {e \in EventSet : e.kind = "block_start" /\ e.data = <<"tool_use">> => e.index \in N}

\* The tool blocks at the end of a stream number their deltas as their starts.
LEMMA BlockEvents ==
  ASSUME MessageTypes, NEW v, NEW C,
         NEW N, N = {FirstToolIndex + i - 1 : i \in 1..Len(ValidCalls)},
         \A i \in N : Event("block_start", i, <<"tool_use">>) \in ToSet(v)
  PROVE  /\ ToolBlocks \in Seq(Seq(StartEvents(N)))
         /\ Seconds(ToolBlocks, ValidCalls, C, DeltaEvents(v, C))
  <1> DEFINE q == ToolBlocks
             n == FirstToolIndex
             m == Len(ValidCalls)
  <1>1. /\ n \in Nat /\ m \in Nat /\ q \in Seq(Seq(EventSet)) /\ Len(q) = m
        /\ \A i \in 1..m :
             /\ Len(q[i]) = 3
             /\ q[i][1] = Event("block_start", n + i - 1, <<"tool_use">>)
             /\ q[i][2] = Event("delta", n + i - 1, ValidCalls[i])
             /\ q[i][3] = Event("block_stop", n + i - 1, <<>>)
    BY ToolBlocksAre
  <1>2. ASSUME NEW i \in 1..m
        PROVE  /\ q[i] \in Seq(EventSet) /\ n + i - 1 \in Nat /\ n + i - 1 \in N
               /\ q[i][1] \in EventSet /\ q[i][2] \in EventSet /\ q[i][3] \in EventSet
               /\ q[i][1].kind = "block_start" /\ q[i][1].index = n + i - 1
               /\ q[i][2].kind = "delta" /\ q[i][2].index = n + i - 1 /\ q[i][2].data = ValidCalls[i]
               /\ q[i][3].kind = "block_stop"
    <2> HIDE DEF q, n, m
    <2>1. q[i] \in Seq(EventSet)
      BY <1>1, ElementOfSeq
    <2>2. q[i][1] \in EventSet /\ q[i][2] \in EventSet /\ q[i][3] \in EventSet
      BY <1>1, <2>1, ElementOfSeq
    <2>3. n + i - 1 \in Nat
      BY <1>1
    <2>4. n + i - 1 \in N
      BY DEF n, m
    <2>5. /\ q[i][1].kind = "block_start" /\ q[i][1].index = n + i - 1
          /\ q[i][2].kind = "delta" /\ q[i][2].index = n + i - 1 /\ q[i][2].data = ValidCalls[i]
          /\ q[i][3].kind = "block_stop"
      <3>1. \A k, j, d : Event(k, j, d).kind = k /\ Event(k, j, d).index = j /\ Event(k, j, d).data = d
        BY DEF Event
      <3>2. QED
        BY <1>1, <3>1
    <2>6. QED
      BY <2>1, <2>2, <2>3, <2>4, <2>5
  <1> HIDE DEF q, n, m
  <1>3. ASSUME NEW i \in 1..m PROVE q[i] \in Seq(StartEvents(N))
    <2>1. q[i] \in Seq(EventSet) /\ Len(q[i]) = 3
      BY <1>1, <1>2
    <2>2. \A j \in 1..3 : q[i][j] \in StartEvents(N)
      <3>1. \A j \in 1..3 : j = 1 \/ j = 2 \/ j = 3
        OBVIOUS
      <3>2. QED
        BY <1>2, <3>1 DEF StartEvents
    <2>3. q[i] \in [1..3 -> StartEvents(N)]
      BY <2>1, <2>2, LenProperties
    <2>4. QED
      BY <2>3, SeqDef
  <1>4. q \in Seq(Seq(StartEvents(N)))
    <2>1. q \in [1..m -> Seq(EventSet)]
      BY <1>1, LenProperties
    <2> DEFINE T == Seq(StartEvents(N))
    <2>2. q \in [1..m -> T]
      BY <1>3, <2>1
    <2> HIDE DEF T
    <2>3. q \in Seq(T)
      BY <1>1, <2>2, SeqDef
    <2>4. QED
      BY <2>3 DEF T
  <1>5. ASSUME NEW i \in 1..m
        PROVE  /\ q[i][1] \notin DeltaEvents(v, C) /\ q[i][3] \notin DeltaEvents(v, C)
               /\ q[i][2] \in DeltaEvents(v, C) <=> ValidCalls[i] \in C
    BY <1>2 DEF DeltaEvents
  <1>6. QED
    BY <1>1, <1>4, <1>5 DEF q, Seconds

\* The handler's end: every call is written in a block of its own.
LEMMA StreamEnds ==
  ASSUME MessageTypes, StreamHeard, WriteEnd, NEW C
  PROVE  written' \in Seq(EventSet)
         /\ Count(written', DeltaEvents(written', C)) = Count(ValidCalls, C)
  <1> DEFINE n == FirstToolIndex
             m == Len(ValidCalls)
             N == {n + i - 1 : i \in 1..m}
             q == ToolBlocks
             f == FlattenSeq(q)
             x == When(ms.text, <<Event("block_stop", ms.index, <<>>)>>)
             y == When(ms.thinking /\ ~ms.text, <<Event("block_stop", 0, <<>>)>>)
             z == <<Event("message_delta", 0, <<StopReason>>), Event("message_stop", 0, <<>>)>>
             v == (((written \o x) \o y) \o f) \o z
             D == DeltaEvents(v, C)
             E == EventSet
  <1>1. written' = v
    BY DEF WriteEnd, ToolBlocks
  <1>2. x \in Seq(QuietEvents) /\ y \in Seq(QuietEvents) /\ z \in Seq(QuietEvents)
    <2>1. /\ {"message_delta", "block_stop", "message_stop"} \subseteq EventKinds
          /\ 0 \in Nat /\ ms.index \in Nat /\ <<>> \in Data /\ <<StopReason>> \in Data
      BY EmptySeq DEF EventKinds, Data, StopReason, MessageTypes
    <2>2. \A k \in {"message_delta", "block_stop", "message_stop"}, i \in Nat, d \in Data :
             Event(k, i, d) \in QuietEvents
      BY <2>1, EventType DEF QuietEvents
    <2>3. /\ Event("block_stop", ms.index, <<>>) \in QuietEvents
          /\ Event("block_stop", 0, <<>>) \in QuietEvents
          /\ Event("message_delta", 0, <<StopReason>>) \in QuietEvents
          /\ Event("message_stop", 0, <<>>) \in QuietEvents
      BY <2>1, <2>2
    <2>4. \A a, b \in QuietEvents : <<a, b>> \in Seq(QuietEvents)
      OBVIOUS
    <2>5. QED
      BY <2>3, <2>4, WhenType
  <1>3. /\ n \in Nat /\ m \in Nat /\ q \in Seq(Seq(E)) /\ Len(q) = m
        /\ (\A i \in 1..Len(q) : Len(q[i]) = 3)
        /\ ValidCalls \in Seq(Calls)
    BY ToolBlocksAre, ValidCallsType DEF Calls
  <1>4. /\ f \in Seq(E) /\ Len(f) = 3 * m
        /\ \A k \in 1..m, j \in 1..3 : f[3 * (k - 1) + j] = q[k][j]
    <2>1. /\ f \in Seq(E) /\ Len(f) = 3 * Len(q)
          /\ \A k \in 1..Len(q), j \in 1..3 : f[3 * (k - 1) + j] = q[k][j]
      <3> HIDE DEF q, E
      <3>1. QED
        BY <1>3, Triples
    <2>2. QED
      BY <1>3, <2>1
  <1>5. written \in Seq(E) /\ x \in Seq(E) /\ y \in Seq(E) /\ z \in Seq(E)
        /\ written \in Seq(EarlyEvents(n))
    <2>1. QuietEvents \subseteq E
      BY DEF QuietEvents
    <2> HIDE DEF x, y, z, E
    <2>2. QED
      BY <1>2, <2>1, SeqInclusion DEF StreamHeard, MessageTypes, E
  <1> HIDE DEF x, y, z, f, q, E, m
  <1> DEFINE w1 == written \o x
             w2 == w1 \o y
             w3 == w2 \o f
  <1>6. w1 \in Seq(E) /\ w2 \in Seq(E) /\ w3 \in Seq(E) /\ v \in Seq(E)
    BY <1>4, <1>5, ConcatProperties
  <1>7. ToSet(v) = (((ToSet(written) \cup ToSet(x)) \cup ToSet(y)) \cup ToSet(f)) \cup ToSet(z)
    <2>1. ToSet(w1) = ToSet(written) \cup ToSet(x)
      BY <1>5, ConcatSet
    <2>2. ToSet(w2) = ToSet(w1) \cup ToSet(y)
      <3> HIDE DEF w1
      <3>1. QED
        BY <1>5, <1>6, ConcatSet
    <2>3. ToSet(w3) = ToSet(w2) \cup ToSet(f)
      <3> HIDE DEF w2
      <3>1. QED
        BY <1>4, <1>6, ConcatSet
    <2>4. ToSet(v) = ToSet(w3) \cup ToSet(z)
      <3> HIDE DEF w3
      <3>1. QED
        BY <1>5, <1>6, ConcatSet DEF w3
    <2>5. QED
      BY <2>1, <2>2, <2>3, <2>4
  <1>8. \A i \in N : Event("block_start", i, <<"tool_use">>) \in ToSet(v)
    <2>1. SUFFICES ASSUME NEW i \in 1..m
                   PROVE  Event("block_start", n + i - 1, <<"tool_use">>) \in ToSet(v)
      OBVIOUS
    <2>2. q[i][1] = Event("block_start", n + i - 1, <<"tool_use">>)
      BY <1>3, ToolBlocksAre DEF q, m
    <2>3. 3 * (i - 1) + 1 \in 1..3 * m /\ f[3 * (i - 1) + 1] = q[i][1]
      BY <1>3, <1>4
    <2>4. DOMAIN f = 1..3 * m
      BY <1>4, LenProperties
    <2>5. q[i][1] \in ToSet(f)
      BY <2>3, <2>4 DEF ToSet
    <2>6. QED
      BY <1>7, <2>2, <2>5
  <1>9. q \in Seq(Seq(StartEvents(N))) /\ Seconds(q, ValidCalls, C, D)
    <2> HIDE DEF v, n
    <2>1. N = {FirstToolIndex + i - 1 : i \in 1..Len(ValidCalls)}
      BY DEF n, m
    <2> HIDE DEF N
    <2>2. QED
      BY <1>8, <2>1, BlockEvents DEF q
  <1>10. f \in Seq(StartEvents(N))
    <2> DEFINE T == StartEvents(N)
    <2>1. q \in Seq(Seq(T)) /\ \A i \in 1..Len(q) : Len(q[i]) = 3
      BY <1>3, <1>9
    <2> HIDE DEF T
    <2>2. FlattenSeq(q) \in Seq(T)
      BY <2>1, Triples
    <2>3. QED
      BY <2>2 DEF T, f
  <1>11. \A e \in ToSet(v) : e.kind = "block_start" /\ e.data = <<"tool_use">> => e.index \in N
    <2>1. ToSet(x) \subseteq QuietEvents /\ ToSet(y) \subseteq QuietEvents /\ ToSet(z) \subseteq QuietEvents
      BY <1>2, ToSetIn
    <2>2. ToSet(written) \subseteq EarlyEvents(n) /\ ToSet(f) \subseteq StartEvents(N)
      BY <1>5, <1>10, ToSetIn
    <2> HIDE DEF v, N
    <2>3. QED
      BY <1>7, <2>1, <2>2 DEF QuietEvents, EarlyEvents, StartEvents
  <1>12. \A e \in D : e.kind = "delta" /\ e.index \in N
    <2>1. ASSUME NEW e \in D PROVE e.kind = "delta" /\ e.index \in N
      <3> DEFINE s == Event("block_start", e.index, <<"tool_use">>)
      <3>1. e.kind = "delta" /\ s \in ToSet(v)
        <4> HIDE DEF v
        <4>1. QED
          BY DEF DeltaEvents, D
      <3>2. s.kind = "block_start" /\ s.data = <<"tool_use">> /\ s.index = e.index
        BY DEF Event
      <3> HIDE DEF s, v, N
      <3>3. QED
        BY <1>11, <3>1, <3>2
    <2>2. QED
      BY <2>1
  <1> HIDE DEF D
  <1>13. QuietEvents \cap D = {} /\ EarlyEvents(n) \cap D = {}
    <2>1. \A i \in N : i >= n
      BY <1>3
    <2>2. \A e \in EarlyEvents(n) : e.kind = "delta" => e.index < n /\ e.index \in Nat
      BY DEF EarlyEvents, EventSet
    <2> HIDE DEF N
    <2>3. QED
      BY <1>3, <1>12, <2>1, <2>2 DEF QuietEvents
  <1>14. Count(written, D) = 0 /\ Count(x, D) = 0 /\ Count(y, D) = 0 /\ Count(z, D) = 0
    <2> HIDE DEF N, n, v
    <2>1. Count(written, D) = 0
      BY <1>5, <1>13, CountNone
    <2>2. Count(x, D) = 0 /\ Count(y, D) = 0 /\ Count(z, D) = 0
      BY <1>2, <1>13, CountNone
    <2>3. QED
      BY <2>1, <2>2
  <1>15. Count(f, D) = Count(ValidCalls, C)
    <2> HIDE DEF N, n, v
    <2>1. Count(FlattenSeq(q), D) = Count(ValidCalls, C)
      BY <1>3, <1>9, CountSeconds DEF m
    <2>2. QED
      BY <2>1 DEF f
  <1>16. Count(v, D) = Count(f, D)
    <2>1. Count(w1, D) = Count(written, D) + Count(x, D)
      BY <1>5, CountConcat
    <2>2. Count(w2, D) = Count(w1, D) + Count(y, D)
      <3> HIDE DEF w1
      <3>1. QED
        BY <1>5, <1>6, CountConcat
    <2>3. Count(w3, D) = Count(w2, D) + Count(f, D)
      <3> HIDE DEF w2
      <3>1. QED
        BY <1>4, <1>6, CountConcat
    <2>4. Count(v, D) = Count(w3, D) + Count(z, D)
      <3> HIDE DEF w3
      <3>1. QED
        BY <1>5, <1>6, CountConcat DEF w3
    <2>5. Count(f, D) \in Nat
      BY <1>4, CountType
    <2> HIDE DEF w1, w2, w3, v
    <2>6. QED
      BY <1>14, <2>1, <2>2, <2>3, <2>4, <2>5
  <1>17. QED
    BY <1>1, <1>6, <1>15, <1>16 DEF D, E

\* The end of the stream leaves its client with the complete calls.
LEMMA StreamEnded ==
  ASSUME MessageTypes, StreamHeard, WriteEnd, UNCHANGED feedVars
  PROVE  StreamTold'
  <1> DEFINE told == Deltas(<<"tool_use">>)
  <1>1. written' \in Seq(EventSet)
        /\ \A C : Count(written', DeltaEvents(written', C)) = Count(ValidCalls, C)
    BY StreamEnds
  <1>2. told' \in Seq(Data) /\ \A C : Count(told', C) = Count(written', DeltaEvents(written', C))
    <2>1. (written \in Seq(EventSet) =>
             /\ Deltas(<<"tool_use">>) \in Seq(Data)
             /\ \A C : Count(Deltas(<<"tool_use">>), C) = Count(written, DeltaEvents(written, C)))'
      BY DeltasAre, PTL
    <2>2. QED
      BY <1>1, <2>1
  <1>3. Made' = Made
    BY DEF feedVars, Made, Received
  <1>4. ValidCalls = CompleteOf(Made)
    BY DEF ValidCalls, AllCalls, Made, StreamHeard
  <1>5. QED
    BY <1>1, <1>2, <1>3, <1>4 DEF StreamTold

\* The client of a stream that ends is given the calls.
LEMMA StreamKeeps ==
  ASSUME MessageTypes, StreamTold, EndInv, over, Streaming
  PROVE  CallsKept
  <1> DEFINE told == Delivered
  <1>1. told \in Seq(Data) /\ Made \in Seq(Calls)
        /\ \A C : Count(told, C) = Count(CompleteOf(Made), C)
    BY MadeType DEF StreamTold, Delivered, Streaming
  <1>2. \A C : Count(CompleteOf(Made), C) = Count(Made, {c \in C : Complete(c)})
    BY <1>1, CompleteOfIs
  <1> HIDE DEF told
  <1>3. ASSUME NEW c \in ToSet(Made) \cup ToSet(told)
        PROVE  /\ Times(c, told) <= Times(c, Made)
               /\ Times(c, told) > 0 \/ ~Complete(c)
    <2>1. /\ Times(c, told) = Count(told, {c}) /\ Times(c, Made) = Count(Made, {c})
          /\ Times(c, told) \in Nat /\ Times(c, Made) \in Nat
          /\ Times(c, told) > 0 <=> c \in ToSet(told)
          /\ Times(c, Made) > 0 <=> c \in ToSet(Made)
      BY <1>1, TimesIs
    <2>2. Count(told, {c}) = Count(Made, {d \in {c} : Complete(d)})
      BY <1>1, <1>2
    <2>3. Complete(c) => Times(c, told) = Times(c, Made)
      <3>1. Complete(c) => {d \in {c} : Complete(d)} = {c}
        OBVIOUS
      <3>2. QED
        BY <2>1, <2>2, <3>1
    <2>4. ~Complete(c) => Times(c, told) = 0
      <3>1. ~Complete(c) => {d \in {c} : Complete(d)} = {}
        OBVIOUS
      <3>2. Count(Made, {}) = 0
        BY <1>1, CountNone
      <3>3. QED
        BY <2>1, <2>2, <3>1, <3>2
    <2>5. QED
      BY <2>1, <2>3, <2>4
  <1>4. StopReasonAgrees
    BY DEF StopReasonAgrees, Streaming
  <1>5. route # "chat"
    BY DEF Streaming
  <1>6. QED
    BY <1>3, <1>4, <1>5 DEF CallsKept, Made, told

\* What a handler has heard, or its client was given, for all three handlers.
CallsInv ==
    /\ TellInv
    /\ repeated = 0 /\ Streaming /\ ~over => StreamHeard
    /\ repeated = 0 /\ Streaming /\ over /\ success => StreamTold

\* It holds at the beginning.
LEMMA CallsInit == Calm /\ Init => CallsInv
  <1>1. SUFFICES ASSUME Calm, Init PROVE CallsInv
    OBVIOUS
  <1>2. TellInv
    BY <1>1, TellInit
  <1>3. ms.full = Received
    <2>1. text \in Seq(STRING) /\ sent = 0 /\ ms.full = <<>>
      BY <1>1, FeedAssumption DEF Init, FeedInit, MessageInit
    <2>2. QED
      BY <2>1, SubSeqEmpty DEF Received
  <1>4. written \in Seq(EarlyEvents(FirstToolIndex))
    BY <1>1, EmptySeq DEF Init, MessageInit
  <1>5. ms.index = 0 /\ ms.thinking = FALSE /\ ~over
    BY <1>1 DEF Init, MessageInit
  <1>6. QED
    BY <1>2, <1>3, <1>4, <1>5 DEF CallsInv, StreamHeard

\* Each step keeps it.
LEMMA CallsNext ==
  ASSUME Calm
  PROVE  CallsInv /\ [Next]_vars => CallsInv'
  <1>1. SUFFICES ASSUME CallsInv, [Next]_vars PROVE CallsInv'
    OBVIOUS
  <1>2. TellInv' /\ MessageTypes
    BY <1>1, TellNext DEF CallsInv, TellInv, EndInv
  <1>3. CASE AnswerChunk
    <2>1. ~over /\ over' = over /\ route' = route
      BY <1>3 DEF AnswerChunk, Reads, routeVars
    <2>2. ASSUME Streaming, repeated' = 0 PROVE StreamHeard'
      <3>1. PICK c \in Chunks : SendChunk(c) /\ WriteText(c.v)
        BY <1>3, <2>2 DEF AnswerChunk
      <3>2. ~Unnoticed(c) /\ repeated = 0
        BY <1>1, <2>2, <3>1 DEF CallsInv, TellInv, SendChunk
      <3>3. QED
        BY <1>1, <1>2, <2>1, <2>2, <3>1, <3>2, StreamChunk DEF CallsInv
    <2>3. QED
      BY <1>2, <2>1, <2>2 DEF CallsInv, Streaming
  <1>4. CASE Thought
    <2>1. ~over /\ over' = over /\ route' = route /\ repeated' = repeated
      BY <1>4 DEF Thought, Reads, routeVars, SendThought
    <2>2. ASSUME Streaming, repeated = 0 PROVE StreamHeard'
      BY <1>1, <1>2, <1>4, <2>1, <2>2, StreamThought DEF CallsInv, Thought, SendThought
    <2>3. QED
      BY <1>2, <2>1, <2>2 DEF CallsInv, Streaming
  <1>5. CASE LocalTool \/ UpstreamError
    <2>1. /\ ~over /\ over' = over /\ route' = route
          /\ UNCHANGED <<text, sent, repeated, ms, written>>
      BY <1>5 DEF LocalTool, UpstreamError, Reads, routeVars, SendLocal, messageVars, feedVars
    <2>2. StreamHeard => StreamHeard'
      BY <2>1 DEF StreamHeard, Received, FirstToolIndex
    <2>3. QED
      BY <1>1, <1>2, <2>1, <2>2 DEF CallsInv, Streaming
  <1>6. CASE EndAnswer
    <2>1. ~Streaming /\ route' = route
      BY <1>6 DEF EndAnswer, Closed
    <2>2. QED
      BY <1>2, <2>1 DEF CallsInv, Streaming
  <1>7. CASE EndStream \/ Document
    <2>1. ~over /\ over' = TRUE /\ route' = route /\ UNCHANGED feedVars
      BY <1>7 DEF EndStream, Document, Closed
    <2>2. ASSUME Streaming, repeated = 0 PROVE StreamTold'
      <3>1. WriteEnd
        BY <1>7, <2>2 DEF EndStream, Document
      <3>2. QED
        BY <1>1, <1>2, <2>1, <2>2, <3>1, StreamEnded DEF CallsInv
    <2>3. QED
      BY <1>2, <2>1, <2>2 DEF CallsInv, Streaming, feedVars
  <1>8. CASE ReadFails
    <2>1. over' = TRUE /\ success' = FALSE
      BY <1>8 DEF ReadFails, Closed
    <2>2. QED
      BY <1>2, <2>1 DEF CallsInv
  <1>9. CASE UNCHANGED vars
    <2>1. UNCHANGED <<text, sent, repeated, locals, ms, written, over, route, success>>
      BY <1>9 DEF vars, feedVars, answerVars, messageVars, routeVars
    <2>2. (StreamHeard => StreamHeard') /\ (StreamTold => StreamTold') /\ (Streaming <=> Streaming')
      BY <2>1 DEF StreamHeard, StreamTold, Deltas, Received, FirstToolIndex, Made, Streaming
    <2>3. QED
      BY <1>1, <1>2, <2>1, <2>2 DEF CallsInv
  <1>10. QED
    BY <1>1, <1>3, <1>4, <1>5, <1>6, <1>7, <1>8, <1>9 DEF Next

\* A client that is given an answer has every call of the upstream, none more often
\* than it was made, in each of the three handlers (chatNonStreaming.ts:335-362,
\* anthropic.ts:262-294 and 940-1064), until a chunk is only a resend, if the text can
\* be told from one.
THEOREM CallsAreKept ==
  ASSUME \A t \in Texts : CallsApart(t) /\ NoEcho(t)
  PROVE  Spec => []CallsKept
  <1>1. Calm
    BY DEF Calm
  <1>2. Init => CallsInv
    BY <1>1, CallsInit
  <1>3. CallsInv /\ [Next]_vars => CallsInv'
    BY <1>1, CallsNext
  <1>4. ASSUME CallsInv, repeated = 0 PROVE CallsKept
    <2>1. EndInv /\ MessageTypes
      BY <1>4 DEF CallsInv, TellInv, EndInv
    <2>2. CASE ~(over /\ (response.kind = "answer" \/ (Streaming /\ success)))
      <3>1. StopReasonAgrees
        <4>1. response.kind # "answer"
          BY <2>1, <2>2 DEF EndInv
        <4>2. QED
          BY <4>1 DEF StopReasonAgrees
      <3>2. QED
        BY <2>2, <3>1 DEF CallsKept
    <2>3. CASE over /\ Streaming /\ success
      BY <1>4, <2>1, <2>3, StreamKeeps DEF CallsInv
    <2>4. CASE over /\ ~Streaming /\ response.kind = "answer"
      BY <1>4, <2>1, <2>4, KeptKeeps DEF CallsInv, TellInv, Told
    <2>5. QED
      <3>1. Streaming => response.kind # "answer"
        BY <2>1 DEF EndInv
      <3>2. QED
        BY <2>2, <2>3, <2>4, <3>1
  <1>5. CallsInv => CallsKept
    BY <1>4 DEF CallsKept
  <1>6. QED
    BY <1>2, <1>3, <1>5, PTL DEF Spec

\* Without streaming, a client is told of a rejected call, and only then
\* (chatNonStreaming.ts:335-362), under the same conditions.
THEOREM RejectionIsTold ==
  ASSUME \A t \in Texts : CallsApart(t) /\ NoEcho(t)
  PROVE  Spec => []RejectionTold
  <1>1. Calm
    BY DEF Calm
  <1>2. TellInv /\ [Next]_vars => TellInv'
    BY <1>1, TellNext
  <1>3. TellInv => RejectionTold
    <2>1. TellInv => MessageTypes
      BY DEF TellInv, EndInv
    <2>2. QED
      BY <2>1, ToldTells DEF TellInv, RejectionTold, Made
  <1>4. QED
    BY <1>2, <1>3, TellInit, PTL DEF Spec
=============================================================================
