---------------------------- MODULE PromptProofs ----------------------------
(***************************************************************************)
(* Proofs about PromptRequest.  Clients can only get into conversations    *)
(* where every result comes right after its call, or has no call at all;   *)
(* what is written of such a conversation - the messages of a client, the  *)
(* segments, the letters - keeps everything in its order, and tells a call *)
(* and its result in the same way.                                         *)
(***************************************************************************)
EXTENDS PromptRequest, CommonLemmas

Calls == [id : Nat, name : STRING]
Turns(texts) == [role : {"user", "assistant"}, text : texts, calls : Seq(Calls), results : Seq(Nat)]

\* A conversation: only assistants call, only users have results; an id is that of one
\* call; a turn's results are those of calls of the turn before, or all calls are gone.
IsConversation(ts, texts) ==
    /\ "words" \in texts /\ ts \in Seq(Turns(texts))
    /\ \A t \in DOMAIN ts : IF ts[t].role = "user" THEN ts[t].calls = <<>> ELSE ts[t].results = <<>>
    /\ \A t, u \in DOMAIN ts : \A k \in DOMAIN ts[t].calls, l \in DOMAIN ts[u].calls :
         ts[t].calls[k].id = ts[u].calls[l].id => t = u /\ k = l
    /\ \A u \in DOMAIN ts :
         \/ u > 1 /\ \A k \in DOMAIN ts[u].results : \E l \in DOMAIN ts[u - 1].calls :
                       ts[u - 1].calls[l].id = ts[u].results[k]
         \/ \A k \in DOMAIN ts[u].results : \A t \in DOMAIN ts : \A l \in DOMAIN ts[t].calls :
              ts[t].calls[l].id # ts[u].results[k]

-----------------------------------------------------------------------------
(* The messages of a conversation *)

\* What the turns of a conversation are.
LEMMA TurnTypes ==
  ASSUME NEW ts, NEW texts, IsConversation(ts, texts)
  PROVE  /\ Len(ts) \in Nat /\ DOMAIN ts = 1..Len(ts)
         /\ \A t \in DOMAIN ts :
              /\ ts[t] = Turn(ts[t].role, ts[t].text, ts[t].calls, ts[t].results)
              /\ ts[t].role \in {"user", "assistant"} /\ ts[t].text \in texts
              /\ ts[t].calls \in Seq(Calls) /\ ts[t].results \in Seq(Nat)
              /\ Len(ts[t].calls) \in Nat /\ DOMAIN ts[t].calls = 1..Len(ts[t].calls)
              /\ Len(ts[t].results) \in Nat /\ DOMAIN ts[t].results = 1..Len(ts[t].results)
              /\ \A k \in DOMAIN ts[t].calls : ts[t].calls[k] \in Calls
              /\ \A k \in DOMAIN ts[t].results : ts[t].results[k] \in Nat
  <1>1. ts \in Seq(Turns(texts))
    BY DEF IsConversation
  <1>2. Len(ts) \in Nat /\ DOMAIN ts = 1..Len(ts)
    BY <1>1, LenProperties
  <1>3. ASSUME NEW t \in DOMAIN ts
        PROVE  /\ ts[t] = Turn(ts[t].role, ts[t].text, ts[t].calls, ts[t].results)
               /\ ts[t].role \in {"user", "assistant"} /\ ts[t].text \in texts
               /\ ts[t].calls \in Seq(Calls) /\ ts[t].results \in Seq(Nat)
    <2>1. ts[t] \in Turns(texts)
      BY <1>1, <1>2, ElementOfSeq
    <2>2. QED
      BY <2>1 DEF Turns, Turn
  <1>4. ASSUME NEW S, NEW s \in Seq(S)
        PROVE  Len(s) \in Nat /\ DOMAIN s = 1..Len(s) /\ \A k \in DOMAIN s : s[k] \in S
    BY LenProperties, ElementOfSeq
  <1>5. QED
    BY <1>2, <1>3, <1>4

\* The tool that an id names is that of its call.
LEMMA NameOfIs ==
  ASSUME NEW ts, NEW texts, IsConversation(ts, texts), NEW id
  PROVE  /\ NameOf(ts, id) \in STRING \cup {None}
         /\ (\A t \in DOMAIN ts : \A k \in DOMAIN ts[t].calls : ts[t].calls[k].id # id) => NameOf(ts, id) = None
         /\ \A t \in DOMAIN ts : \A k \in DOMAIN ts[t].calls :
              ts[t].calls[k].id = id => NameOf(ts, id) = ts[t].calls[k].name
  <1>1. \A c \in CallsWith(ts, id) :
          \E t \in DOMAIN ts : \E k \in DOMAIN ts[t].calls : c = ts[t].calls[k] /\ c.id = id
    BY DEF CallsWith, ToSet
  <1>2. CASE \A t \in DOMAIN ts : \A k \in DOMAIN ts[t].calls : ts[t].calls[k].id # id
    <2>1. CallsWith(ts, id) = {}
      BY <1>1, <1>2
    <2>2. QED
      BY <1>2, <2>1 DEF NameOf
  <1>3. ASSUME NEW t \in DOMAIN ts, NEW k \in DOMAIN ts[t].calls, ts[t].calls[k].id = id
        PROVE  NameOf(ts, id) = ts[t].calls[k].name /\ ts[t].calls[k].name \in STRING
    <2>1. ts[t].calls[k] \in CallsWith(ts, id)
      BY <1>3 DEF CallsWith, ToSet
    <2>2. \A c \in CallsWith(ts, id) : c = ts[t].calls[k]
      BY <1>1, <1>3 DEF IsConversation
    <2>3. ts[t].calls[k] \in Calls
      BY TurnTypes
    <2>4. QED
      BY <2>1, <2>2, <2>3 DEF NameOf, Calls
  <1>4. QED
    BY <1>2, <1>3

MessagesOf(ts, texts) ==
    [role : {"user", "assistant", "tool"}, text : texts, calls : Seq(Calls),
     id : Nat \cup {None}, name : STRING \cup {None}, of : DOMAIN ts]

ResultMessage(ts, u, k, named) ==
    LET id == ts[u].results[k]
    IN  Message("tool", "words", <<>>, id, IF named THEN NameOf(ts, id) ELSE None, u)

\* What is written of a turn: the assistant's message, or results and a user's text.
WrittenTurn(s, ts, texts, t, named) ==
    /\ s \in Seq(MessagesOf(ts, texts))
    /\ ts[t].role = "assistant" => Len(s) = 1 /\ s[1] = AssistantMessage(ts, t)
    /\ ts[t].role = "user" =>
         /\ Len(s) \in {Len(ts[t].results), Len(ts[t].results) + 1}
         /\ \A k \in 1..Len(ts[t].results) : s[k] = ResultMessage(ts, t, k, named)
         /\ Len(s) # Len(ts[t].results) => s[Len(ts[t].results) + 1] = UserMessage(ts, t)

\* The messages of a turn are messages.
LEMMA MessageTypes ==
  ASSUME NEW ts, NEW texts, IsConversation(ts, texts), NEW t \in DOMAIN ts, NEW named \in BOOLEAN
  PROVE  /\ AssistantMessage(ts, t) \in MessagesOf(ts, texts)
         /\ UserMessage(ts, t) \in MessagesOf(ts, texts)
         /\ \A k \in 1..Len(ts[t].results) : ResultMessage(ts, t, k, named) \in MessagesOf(ts, texts)
  <1>1. "words" \in texts /\ ts[t].text \in texts /\ ts[t].calls \in Seq(Calls) /\ <<>> \in Seq(Calls)
    BY TurnTypes, EmptySeq DEF IsConversation
  <1>2. AssistantMessage(ts, t) \in MessagesOf(ts, texts)
    BY <1>1 DEF AssistantMessage, Message, MessagesOf
  <1>3. UserMessage(ts, t) \in MessagesOf(ts, texts)
    BY <1>1 DEF UserMessage, Message, MessagesOf
  <1>4. ASSUME NEW k \in 1..Len(ts[t].results)
        PROVE  ResultMessage(ts, t, k, named) \in MessagesOf(ts, texts)
    <2> DEFINE id == ts[t].results[k]
               name == IF named THEN NameOf(ts, id) ELSE None
    <2>1. id \in Nat
      BY TurnTypes
    <2>2. name \in STRING \cup {None}
      <3> HIDE DEF id
      <3>1. NameOf(ts, id) \in STRING \cup {None}
        BY NameOfIs
      <3>2. QED
        BY <3>1
    <2>3. ResultMessage(ts, t, k, named) = Message("tool", "words", <<>>, id, name, t)
      BY DEF ResultMessage
    <2> HIDE DEF id, name
    <2>4. QED
      BY <1>1, <2>1, <2>2, <2>3 DEF Message, MessagesOf
  <1>5. QED
    BY <1>2, <1>3, <1>4

\* A user's turn writes its results, and then its text.
LEMMA UserTurns ==
  ASSUME NEW ts, NEW texts, IsConversation(ts, texts), NEW t \in DOMAIN ts, NEW named \in BOOLEAN,
         ts[t].role = "user", NEW x \in {<<>>, <<UserMessage(ts, t)>>}
  PROVE  /\ WrittenTurn(ResultMessages(ts, t, named) \o x, ts, texts, t, named)
         /\ Len(ResultMessages(ts, t, named) \o x) = Len(ts[t].results) + Len(x)
  <1> DEFINE M == MessagesOf(ts, texts)
             r == ResultMessages(ts, t, named)
             n == Len(ts[t].results)
             s == r \o x
  <1>1. n \in Nat /\ DOMAIN ts[t].results = 1..n
    BY TurnTypes
  <1>2. r = [k \in 1..n |-> ResultMessage(ts, t, k, named)]
    BY <1>1 DEF ResultMessages, ResultMessage
  <1>3. \A k \in 1..n : ResultMessage(ts, t, k, named) \in M
    BY MessageTypes
  <1>4. r \in [1..n -> M] /\ \A k \in 1..n : r[k] = ResultMessage(ts, t, k, named)
    <2> HIDE DEF r, n, M
    <2>1. QED
      BY <1>2, <1>3
  <1>5. r \in Seq(M) /\ Len(r) = n
    <2> HIDE DEF r, n, M
    <2>1. r \in Seq(M)
      BY <1>1, <1>4, SeqDef
    <2>2. QED
      BY <1>1, <1>4, <2>1, LenProperties
  <1>6. x \in Seq(M) /\ Len(x) \in {0, 1} /\ (Len(x) = 1 => x[1] = UserMessage(ts, t))
    <2>1. UserMessage(ts, t) \in M
      BY MessageTypes
    <2> DEFINE m == UserMessage(ts, t)
    <2> HIDE DEF M, m
    <2>2. CASE x = <<>>
      BY <2>2, EmptySeq
    <2>3. CASE x = <<m>>
      BY <2>1, <2>3 DEF m
    <2>4. QED
      BY <2>2, <2>3 DEF m
  <1>7. /\ s \in Seq(M) /\ Len(s) = n + Len(x)
        /\ \A k \in 1..n : s[k] = r[k]
        /\ \A k \in 1..Len(x) : s[n + k] = x[k]
    <2> HIDE DEF M, r, n
    <2>1. r \in Seq(M) /\ x \in Seq(M) /\ Len(r) = n
      BY <1>5, <1>6
    <2>2. QED
      BY ONLY <2>1, ConcatAt
  <1>8. /\ Len(s) \in {n, n + 1}
        /\ Len(s) # n => s[n + 1] = UserMessage(ts, t)
    <2> HIDE DEF M, r, n, s
    <2>1. QED
      BY <1>1, <1>6, <1>7
  <1>9. WrittenTurn(s, ts, texts, t, named)
    <2>1. \A k \in 1..n : s[k] = ResultMessage(ts, t, k, named)
      BY <1>4, <1>7
    <2>2. s \in Seq(MessagesOf(ts, texts))
      BY <1>7
    <2> HIDE DEF s, r, M
    <2>3. QED
      BY <1>8, <2>1, <2>2 DEF WrittenTurn
  <1>10. QED
    BY <1>7, <1>9

\* An assistant's turn writes one message.
LEMMA AssistantTurns ==
  ASSUME NEW ts, NEW texts, IsConversation(ts, texts), NEW t \in DOMAIN ts, NEW named,
         ts[t].role = "assistant"
  PROVE  WrittenTurn(<<AssistantMessage(ts, t)>>, ts, texts, t, named)
  <1> DEFINE M == MessagesOf(ts, texts)
             m == AssistantMessage(ts, t)
             s == <<m>>
  <1>1. m \in M
    BY MessageTypes
  <1>2. s \in Seq(M) /\ Len(s) = 1 /\ s[1] = m
    <2> HIDE DEF m, M
    <2>1. QED
      BY <1>1
  <1>3. WrittenTurn(s, ts, texts, t, named)
    <2> HIDE DEF s
    <2>1. QED
      BY <1>2 DEF WrittenTurn
  <1>4. QED
    BY <1>3

\* Whether a user's text is written.
Tells(api, ts, t) == ts[t].text # "none" /\ (api = "chat" \/ ts[t].results = <<>>)

\* The messages of each API are its turns, written one after the other.
LEMMA ChatWrites ==
  ASSUME NEW ts, NEW texts, IsConversation(ts, texts), NEW named \in BOOLEAN
  PROVE  \E q : /\ DOMAIN q = DOMAIN ts /\ q = [t \in DOMAIN ts |-> q[t]]
                /\ \A t \in DOMAIN ts :
                     /\ WrittenTurn(q[t], ts, texts, t, named)
                     /\ ts[t].role = "user" /\ Tells("chat", ts, t) => Len(q[t]) = Len(ts[t].results) + 1
                /\ ChatMessages(ts, named) = FlattenSeq(q)
  <1> DEFINE w(t) == IF ts[t].role = "assistant" THEN <<AssistantMessage(ts, t)>>
                     ELSE ResultMessages(ts, t, named)
                          \o (IF ts[t].text = "none" THEN <<>> ELSE <<UserMessage(ts, t)>>)
             q == [t \in DOMAIN ts |-> w(t)]
  <1>1. ChatMessages(ts, named) = FlattenSeq(q)
    BY DEF ChatMessages
  <1>2. ASSUME NEW t \in DOMAIN ts
        PROVE  /\ WrittenTurn(w(t), ts, texts, t, named)
               /\ ts[t].role = "user" /\ Tells("chat", ts, t) => Len(w(t)) = Len(ts[t].results) + 1
    <2>1. CASE ts[t].role = "assistant"
      BY <2>1, AssistantTurns
    <2>2. CASE ts[t].role = "user"
      <3> DEFINE x == IF ts[t].text = "none" THEN <<>> ELSE <<UserMessage(ts, t)>>
      <3>1. x \in {<<>>, <<UserMessage(ts, t)>>} /\ (Tells("chat", ts, t) => Len(x) = 1)
        BY DEF Tells
      <3>2. w(t) = ResultMessages(ts, t, named) \o x
        BY <2>2
      <3> HIDE DEF x, w
      <3>3. QED
        BY <2>2, <3>1, <3>2, UserTurns
    <2>3. QED
      BY <2>1, <2>2, TurnTypes
  <1> HIDE DEF w
  <1>3. DOMAIN q = DOMAIN ts /\ q = [t \in DOMAIN ts |-> q[t]] /\ \A t \in DOMAIN ts : q[t] = w(t)
    OBVIOUS
  <1> HIDE DEF q
  <1>4. QED
    BY <1>1, <1>2, <1>3

\* A client of the Anthropic API writes each turn out as results or as text.
LEMMA AnthropicWrites ==
  ASSUME NEW ts, NEW texts, IsConversation(ts, texts)
  PROVE  \E q : /\ DOMAIN q = DOMAIN ts /\ q = [t \in DOMAIN ts |-> q[t]]
                /\ \A t \in DOMAIN ts :
                     /\ WrittenTurn(q[t], ts, texts, t, FALSE)
                     /\ ts[t].role = "user" /\ Tells("messages", ts, t) => Len(q[t]) = Len(ts[t].results) + 1
                /\ AnthropicMessagesToOpenAI(ts) = FlattenSeq(q)
  <1> DEFINE w(t) == IF ts[t].role = "assistant" THEN <<AssistantMessage(ts, t)>>
                     ELSE IF ts[t].results # <<>> THEN ResultMessages(ts, t, FALSE)
                     ELSE <<UserMessage(ts, t)>>
             q == [t \in DOMAIN ts |-> w(t)]
  <1>1. AnthropicMessagesToOpenAI(ts) = FlattenSeq(q)
    BY DEF AnthropicMessagesToOpenAI
  <1>2. ASSUME NEW t \in DOMAIN ts
        PROVE  /\ WrittenTurn(w(t), ts, texts, t, FALSE)
               /\ ts[t].role = "user" /\ Tells("messages", ts, t) => Len(w(t)) = Len(ts[t].results) + 1
    <2>1. CASE ts[t].role = "assistant"
      BY <2>1, AssistantTurns
    <2>2. CASE ts[t].role = "user"
      <3> DEFINE x == IF ts[t].results # <<>> THEN <<>> ELSE <<UserMessage(ts, t)>>
                 r == ResultMessages(ts, t, FALSE)
                 M == MessagesOf(ts, texts)
      <3>1. x \in {<<>>, <<UserMessage(ts, t)>>} /\ (Tells("messages", ts, t) => Len(x) = 1)
        BY DEF Tells
      <3>2. r \in Seq(M) /\ UserMessage(ts, t) \in M
        <4>1. r \o <<>> \in Seq(M)
          BY <2>2, UserTurns DEF WrittenTurn
        <4>2. r = [k \in 1..Len(ts[t].results) |-> ResultMessage(ts, t, k, FALSE)]
          BY TurnTypes DEF ResultMessages, ResultMessage
        <4>3. \A k \in 1..Len(ts[t].results) : ResultMessage(ts, t, k, FALSE) \in M
          BY MessageTypes
        <4>4. Len(ts[t].results) \in Nat
          BY TurnTypes
        <4> HIDE DEF M, r
        <4>5. r \in [1..Len(ts[t].results) -> M]
          BY <4>2, <4>3
        <4>6. QED
          BY <4>4, <4>5, SeqDef, MessageTypes DEF M
      <3>3. w(t) = r \o x
        <4>1. CASE ts[t].results # <<>>
          <5>1. w(t) = r /\ x = <<>>
            BY <2>2, <4>1
          <5> HIDE DEF w, r, x
          <5>2. QED
            BY <3>2, <5>1, ConcatEmptySeq
        <4>2. CASE ts[t].results = <<>>
          <5>1. w(t) = <<UserMessage(ts, t)>> /\ x = <<UserMessage(ts, t)>>
            BY <2>2, <4>2
          <5>2. r = <<>>
            BY <4>2 DEF ResultMessages
          <5>3. x \in Seq(M)
            <6> HIDE DEF M, x
            <6>1. QED
              BY <3>2, <5>1
          <5> HIDE DEF w, r, x
          <5>4. QED
            BY <5>1, <5>2, <5>3, ConcatEmptySeq
        <4>3. QED
          BY <4>1, <4>2
      <3>4. /\ WrittenTurn(r \o x, ts, texts, t, FALSE)
            /\ Len(r \o x) = Len(ts[t].results) + Len(x)
        <4> HIDE DEF x
        <4>1. QED
          BY <2>2, <3>1, UserTurns
      <3> HIDE DEF x, w, r
      <3>5. QED
        BY <2>2, <3>1, <3>3, <3>4
    <2>3. QED
      BY <2>1, <2>2, TurnTypes
  <1> HIDE DEF w
  <1>3. DOMAIN q = DOMAIN ts /\ q = [t \in DOMAIN ts |-> q[t]] /\ \A t \in DOMAIN ts : q[t] = w(t)
    OBVIOUS
  <1> HIDE DEF q
  <1>4. QED
    BY <1>1, <1>2, <1>3

\* What a request says of a conversation: each assistant's turn is one message; the
\* results that have a call come right after it; what is told is there; in order.
Written(ms, ts, texts, api) ==
    /\ ms \in Seq(MessagesOf(ts, texts))
    /\ \A i, j \in 1..Len(ms) : i <= j => ms[i].of <= ms[j].of
    /\ \A i \in 1..Len(ms) :
         IF ms[i].role = "assistant" THEN ms[i] = AssistantMessage(ts, ms[i].of)
                                     ELSE ms[i].calls = <<>>
    /\ \A i, j \in 1..Len(ms) : \A k \in DOMAIN ms[i].calls, l \in DOMAIN ms[j].calls :
         ms[i].calls[k].id = ms[j].calls[l].id => i = j /\ k = l
    /\ \A i \in 1..Len(ms) : ms[i].role = "tool" =>
         \/ \E j \in 1..i - 1 : \E k \in DOMAIN ms[j].calls :
              /\ ms[j].calls[k].id = ms[i].id
              /\ ms[i].name \in {None, ms[j].calls[k].name}
              /\ \A m \in 1..Len(ms) : j < m /\ m < i =>
                   ms[m].role = "tool" /\ \E l \in DOMAIN ms[j].calls : ms[j].calls[l].id = ms[m].id
         \/ /\ \A j \in 1..Len(ms) : \A k \in DOMAIN ms[j].calls : ms[j].calls[k].id # ms[i].id
            /\ ms[i].name = None
    /\ \A t \in DOMAIN ts :
         /\ ts[t].role = "assistant" => \E i \in 1..Len(ms) : ms[i] = AssistantMessage(ts, t)
         /\ \A k \in DOMAIN ts[t].results :
              \E i \in 1..Len(ms) : ms[i].role = "tool" /\ ms[i].id = ts[t].results[k] /\ ms[i].of = t
         /\ ts[t].role = "user" /\ Tells(api, ts, t) => \E i \in 1..Len(ms) : ms[i] = UserMessage(ts, t)

\* A conversation of which every turn is written is written as a whole: in its order,
\* every result right after the message with its call.
LEMMA TurnsWrite ==
  ASSUME NEW ts, NEW texts, IsConversation(ts, texts), NEW named \in BOOLEAN, NEW api, NEW q,
         DOMAIN q = DOMAIN ts, q = [t \in DOMAIN ts |-> q[t]],
         \A t \in DOMAIN ts :
           /\ WrittenTurn(q[t], ts, texts, t, named)
           /\ ts[t].role = "user" /\ Tells(api, ts, t) => Len(q[t]) = Len(ts[t].results) + 1
  PROVE  Written(FlattenSeq(q), ts, texts, api)
  <1> DEFINE n == Len(ts)
             M == MessagesOf(ts, texts)
             ms == FlattenSeq(q)
             z == Len(ms)
  <1>1. n \in Nat /\ DOMAIN ts = 1..n
    BY TurnTypes
  <1>2. ms \in Seq(M) /\ \E b : Flat(q, n, ms, b)
    <2>1. q \in [1..n -> Seq(M)]
      <3>1. \A t \in 1..n : q[t] \in Seq(M)
        BY <1>1 DEF WrittenTurn
      <3> HIDE DEF n, M
      <3>2. QED
        BY <1>1, <3>1
    <2> HIDE DEF n, M
    <2>2. QED
      BY <1>1, <2>1, Flattens
  <1> HIDE DEF ms
  <1>3. PICK b : Flat(q, n, ms, b)
    BY <1>2
  <1>4. /\ Growing(b, n) /\ b[n] = z /\ z \in Nat
        /\ \A t \in 1..n : b[t - 1] \in Nat /\ b[t] \in Nat /\ b[t] = b[t - 1] + Len(q[t])
        /\ \A t \in 1..n : \A k \in 1..Len(q[t]) : ms[b[t - 1] + k] = q[t][k]
    <2>1. \A t \in 1..n : t - 1 \in 0..n /\ t \in 0..n
      BY <1>1
    <2> HIDE DEF n
    <2>2. z \in Nat
      BY <1>2, LenProperties
    <2>3. QED
      BY <1>3, <2>1, <2>2 DEF Flat, Growing
  <1> DEFINE In(i, t) == i \in Nat /\ t \in 1..n /\ b[t - 1] < i /\ i <= b[t]
  <1>5. \A i \in 1..z : \E t \in 1..n : In(i, t)
    <2> HIDE DEF n, z
    <2>1. \A i \in 1..b[n] : \E t \in 1..n : b[t - 1] < i /\ i <= b[t]
      BY <1>1, <1>4, Places
    <2>2. QED
      BY <1>4, <2>1
  <1>6. \A i, j \in Nat : \A t, u \in 1..n : In(i, t) /\ In(j, u) /\ i <= j => t <= u
    <2> HIDE DEF n, z
    <2>1. QED
      BY <1>1, <1>4, Places
  <1>7. \A i, t : In(i, t) => i \in 1..z
    <2> HIDE DEF n, z
    <2>1. QED
      BY <1>1, <1>4, Places
  <1>8. ASSUME NEW t \in 1..n, ts[t].role = "assistant"
        PROVE  /\ In(b[t], t) /\ ms[b[t]] = AssistantMessage(ts, t)
               /\ \A i : In(i, t) => i = b[t]
    <2>1. Len(q[t]) = 1 /\ q[t][1] = AssistantMessage(ts, t)
      BY <1>1, <1>8 DEF WrittenTurn
    <2>2. b[t] = b[t - 1] + 1 /\ ms[b[t - 1] + 1] = q[t][1] /\ b[t - 1] \in Nat
      <3>1. b[t] = b[t - 1] + Len(q[t]) /\ b[t - 1] \in Nat
        BY <1>4
      <3>2. 1 \in 1..Len(q[t])
        BY <2>1
      <3>3. ms[b[t - 1] + 1] = q[t][1]
        BY <1>4, <3>2
      <3>4. QED
        BY <2>1, <3>1, <3>3
    <2> HIDE DEF n
    <2>3. QED
      BY <2>1, <2>2
  <1>9. ASSUME NEW t \in 1..n, ts[t].role = "user"
        PROVE  /\ \A k \in 1..Len(ts[t].results) :
                    In(b[t - 1] + k, t) /\ ms[b[t - 1] + k] = ResultMessage(ts, t, k, named)
               /\ \A i : In(i, t) =>
                    \/ i - b[t - 1] \in 1..Len(ts[t].results)
                    \/ i - b[t - 1] = Len(ts[t].results) + 1 /\ ms[i] = UserMessage(ts, t)
               /\ Tells(api, ts, t) => In(b[t], t) /\ ms[b[t]] = UserMessage(ts, t)
    <2> DEFINE r == Len(ts[t].results)
               lq == Len(q[t])
               a == b[t - 1]
    <2>1. r \in Nat /\ a \in Nat /\ lq \in {r, r + 1} /\ b[t] = a + lq
      BY <1>1, <1>4, <1>9, TurnTypes DEF WrittenTurn
    <2>2. /\ \A k \in 1..r : q[t][k] = ResultMessage(ts, t, k, named)
          /\ lq = r + 1 => q[t][r + 1] = UserMessage(ts, t)
          /\ Tells(api, ts, t) => lq = r + 1
      <3>1. WrittenTurn(q[t], ts, texts, t, named)
        BY <1>1
      <3>2. /\ \A k \in 1..r : q[t][k] = ResultMessage(ts, t, k, named)
            /\ lq # r => q[t][r + 1] = UserMessage(ts, t)
        BY <1>9, <3>1 DEF WrittenTurn
      <3>3. Tells(api, ts, t) => lq = r + 1
        BY <1>1, <1>9
      <3> HIDE DEF r, lq
      <3>4. lq = r + 1 => lq # r
        BY <2>1
      <3>5. QED
        BY <3>2, <3>3, <3>4
    <2>3. \A k \in 1..lq : ms[a + k] = q[t][k]
      BY <1>4
    <2> HIDE DEF r, lq, n
    <2>4. ASSUME NEW k \in 1..r PROVE In(a + k, t) /\ ms[a + k] = ResultMessage(ts, t, k, named)
      <3>1. k \in 1..lq
        BY <2>1
      <3>2. a + k \in Nat /\ a < a + k /\ a + k <= b[t]
        BY <2>1, <3>1
      <3>3. ms[a + k] = ResultMessage(ts, t, k, named)
        BY <2>2, <2>3, <3>1
      <3>4. QED
        BY <3>2, <3>3
    <2>5. lq = r + 1 => ms[a + (r + 1)] = UserMessage(ts, t)
      <3>1. lq = r + 1 => r + 1 \in 1..lq
        BY <2>1
      <3>2. QED
        BY <2>2, <2>3, <3>1
    <2>6. ASSUME NEW i, In(i, t)
          PROVE  i - a \in 1..r \/ (i - a = r + 1 /\ ms[i] = UserMessage(ts, t))
      <3>1. i \in Nat /\ a < i /\ i <= a + lq
        BY <2>1, <2>6
      <3> HIDE DEF a
      <3>2. i - a \in 1..lq /\ i = a + (i - a)
        BY <2>1, <3>1
      <3>3. i - a \in 1..r \/ (lq = r + 1 /\ i - a = r + 1)
        BY <2>1, <3>2
      <3>4. QED
        BY <2>5, <3>2, <3>3
    <2>7. Tells(api, ts, t) => In(b[t], t) /\ ms[b[t]] = UserMessage(ts, t)
      <3>1. Tells(api, ts, t) => b[t] = a + (r + 1) /\ b[t] \in Nat /\ a < b[t] /\ b[t] <= b[t]
        BY <2>1, <2>2
      <3>2. QED
        BY <2>2, <2>5, <3>1
    <2>8. QED
      BY <2>4, <2>6, <2>7 DEF r
  <1> HIDE DEF In, n, z, M
  <1>10. ASSUME NEW i, NEW t, In(i, t)
         PROVE  /\ t \in 1..n /\ t \in DOMAIN ts /\ ms[i].of = t
                /\ IF ts[t].role = "assistant"
                   THEN i = b[t] /\ ms[i] = AssistantMessage(ts, t) /\ ms[i].role = "assistant"
                   ELSE /\ ts[t].role = "user" /\ ms[i].role \in {"user", "tool"} /\ ms[i].calls = <<>>
                        /\ ms[i].role = "tool" =>
                             /\ i - b[t - 1] \in 1..Len(ts[t].results)
                             /\ ms[i] = ResultMessage(ts, t, i - b[t - 1], named)
    <2>1. t \in 1..n /\ t \in DOMAIN ts /\ ts[t].role \in {"user", "assistant"} /\ i \in Nat /\ b[t - 1] \in Nat
      BY <1>1, <1>4, <1>10, TurnTypes DEF In
    <2>2. CASE ts[t].role = "assistant"
      BY <1>8, <1>10, <2>1, <2>2 DEF AssistantMessage, Message
    <2>3. CASE ts[t].role = "user"
      <3>1. CASE i - b[t - 1] \in 1..Len(ts[t].results)
        <4> DEFINE k == i - b[t - 1]
        <4>1. k \in 1..Len(ts[t].results) /\ b[t - 1] + k = i
          BY <2>1, <3>1
        <4> HIDE DEF k
        <4>2. ms[i] = ResultMessage(ts, t, k, named)
          BY <1>9, <2>1, <2>3, <4>1
        <4>3. ms[i].of = t /\ ms[i].role = "tool" /\ ms[i].calls = <<>>
          BY <4>2 DEF ResultMessage, Message
        <4>4. QED
          BY <2>1, <2>3, <4>1, <4>2, <4>3 DEF k
      <3>2. CASE ms[i] = UserMessage(ts, t)
        BY <2>1, <2>3, <3>2 DEF UserMessage, Message
      <3>3. QED
        BY <1>9, <1>10, <2>1, <2>3, <3>1, <3>2
    <2>4. QED
      BY <2>1, <2>2, <2>3
  <1>11. \A i, j \in 1..z : i <= j => ms[i].of <= ms[j].of
    <2> SUFFICES ASSUME NEW i \in 1..z, NEW j \in 1..z, i <= j PROVE ms[i].of <= ms[j].of
      OBVIOUS
    <2>1. PICK t \in 1..n : In(i, t)
      BY <1>5
    <2>2. PICK u \in 1..n : In(j, u)
      BY <1>5
    <2>3. t <= u
      BY <1>4, <1>6, <2>1, <2>2
    <2>4. QED
      BY <1>10, <2>1, <2>2, <2>3
  <1>12. \A i \in 1..z : IF ms[i].role = "assistant" THEN ms[i] = AssistantMessage(ts, ms[i].of)
                                                    ELSE ms[i].calls = <<>>
    <2> SUFFICES ASSUME NEW i \in 1..z
                 PROVE  IF ms[i].role = "assistant" THEN ms[i] = AssistantMessage(ts, ms[i].of)
                                                    ELSE ms[i].calls = <<>>
      OBVIOUS
    <2>1. PICK t \in 1..n : In(i, t)
      BY <1>5
    <2>2. QED
      BY <1>10, <2>1
  <1>13. ASSUME NEW i \in 1..z, NEW k \in DOMAIN ms[i].calls
         PROVE  \E t \in 1..n : /\ i = b[t] /\ ts[t].role = "assistant" /\ t \in DOMAIN ts
                                /\ k \in DOMAIN ts[t].calls /\ ms[i].calls = ts[t].calls
    <2>1. PICK t \in 1..n : In(i, t)
      BY <1>5
    <2>2. ms[i].calls # <<>>
      BY <1>13
    <2>3. ts[t].role = "assistant" /\ i = b[t] /\ ms[i] = AssistantMessage(ts, t) /\ t \in DOMAIN ts
      BY <1>10, <2>1, <2>2
    <2>4. ms[i].calls = ts[t].calls
      BY <2>3 DEF AssistantMessage, Message
    <2>5. QED
      BY <1>13, <2>3, <2>4
  <1>14. \A i, j \in 1..z : \A k \in DOMAIN ms[i].calls, l \in DOMAIN ms[j].calls :
           ms[i].calls[k].id = ms[j].calls[l].id => i = j /\ k = l
    <2> SUFFICES ASSUME NEW i \in 1..z, NEW j \in 1..z, NEW k \in DOMAIN ms[i].calls,
                        NEW l \in DOMAIN ms[j].calls, ms[i].calls[k].id = ms[j].calls[l].id
                 PROVE  i = j /\ k = l
      OBVIOUS
    <2>1. PICK t \in 1..n : i = b[t] /\ t \in DOMAIN ts /\ k \in DOMAIN ts[t].calls /\ ms[i].calls = ts[t].calls
      BY <1>13
    <2>2. PICK u \in 1..n : j = b[u] /\ u \in DOMAIN ts /\ l \in DOMAIN ts[u].calls /\ ms[j].calls = ts[u].calls
      BY <1>13
    <2>3. t = u /\ k = l
      BY <2>1, <2>2 DEF IsConversation
    <2>4. QED
      BY <2>1, <2>2, <2>3
  <1> DEFINE Called(i) ==
               \E j \in 1..i - 1 : \E k \in DOMAIN ms[j].calls :
                 /\ ms[j].calls[k].id = ms[i].id
                 /\ ms[i].name \in {None, ms[j].calls[k].name}
                 /\ \A m \in 1..z : j < m /\ m < i =>
                      ms[m].role = "tool" /\ \E l \in DOMAIN ms[j].calls : ms[j].calls[l].id = ms[m].id
             Orphan(i) ==
               /\ \A j \in 1..z : \A k \in DOMAIN ms[j].calls : ms[j].calls[k].id # ms[i].id
               /\ ms[i].name = None
  <1>15. ASSUME NEW i \in 1..z, ms[i].role = "tool" PROVE Called(i) \/ Orphan(i)
    <2>1. PICK u \in 1..n : In(i, u)
      BY <1>5
    <2> DEFINE r == i - b[u - 1]
               id == ts[u].results[r]
    <2>2. /\ u \in DOMAIN ts /\ ts[u].role = "user" /\ r \in 1..Len(ts[u].results)
          /\ r \in DOMAIN ts[u].results /\ ms[i] = ResultMessage(ts, u, r, named)
      BY <1>10, <1>15, <2>1, TurnTypes
    <2>3. ms[i].id = id /\ ms[i].name = IF named THEN NameOf(ts, id) ELSE None
      BY <2>2 DEF ResultMessage, Message
    <2>4. CASE \A k \in DOMAIN ts[u].results : \A t \in DOMAIN ts : \A l \in DOMAIN ts[t].calls :
                 ts[t].calls[l].id # ts[u].results[k]
      <3>1. \A t \in DOMAIN ts : \A l \in DOMAIN ts[t].calls : ts[t].calls[l].id # id
        BY <2>2, <2>4
      <3> HIDE DEF id
      <3>2. NameOf(ts, id) = None
        BY <3>1, NameOfIs
      <3>3. \A j \in 1..z : \A k \in DOMAIN ms[j].calls : ms[j].calls[k].id # id
        <4> SUFFICES ASSUME NEW j \in 1..z, NEW k \in DOMAIN ms[j].calls PROVE ms[j].calls[k].id # id
          OBVIOUS
        <4>1. PICK t \in 1..n : t \in DOMAIN ts /\ k \in DOMAIN ts[t].calls /\ ms[j].calls = ts[t].calls
          BY <1>13
        <4>2. QED
          BY <3>1, <4>1
      <3>4. Orphan(i)
        BY <2>3, <3>2, <3>3
      <3>5. QED
        BY <3>4
    <2>5. CASE u > 1 /\ \A k \in DOMAIN ts[u].results : \E l \in DOMAIN ts[u - 1].calls :
                 ts[u - 1].calls[l].id = ts[u].results[k]
      <3> DEFINE t == u - 1
                 j == b[t]
      <3>1. t \in 1..n /\ t \in DOMAIN ts /\ t = u - 1
        BY <1>1, <2>5
      <3>2. PICK k \in DOMAIN ts[t].calls : ts[t].calls[k].id = id
        BY <2>2, <2>5
      <3>3. ts[t].role = "assistant"
        <4>1. ts[t].calls # <<>>
          BY <3>2
        <4>2. QED
          BY <3>1, <4>1, TurnTypes DEF IsConversation
      <3>4. In(j, t) /\ ms[j] = AssistantMessage(ts, t)
        BY <1>8, <3>1, <3>3
      <3>5. ms[j].calls = ts[t].calls
        BY <3>4 DEF AssistantMessage, Message
      <3>6. j \in 1..i - 1 /\ i \in Nat /\ j \in Nat
        <4>1. j \in 1..z /\ j \in Nat
          BY <1>4, <1>7, <3>4
        <4>2. b[u - 1] < i
          BY <2>1 DEF In
        <4>3. QED
          BY <1>4, <4>1, <4>2
      <3>7. ms[i].name \in {None, ms[j].calls[k].name}
        <4> HIDE DEF id, j, t
        <4>1. NameOf(ts, id) = ts[t].calls[k].name
          BY <3>1, <3>2, NameOfIs
        <4>2. QED
          BY <2>3, <3>5, <4>1
      <3>8. ASSUME NEW m \in 1..z, j < m, m < i
            PROVE  ms[m].role = "tool" /\ \E l \in DOMAIN ms[j].calls : ms[j].calls[l].id = ms[m].id
        <4>1. In(m, u)
          <5>1. m \in Nat /\ b[u - 1] < m /\ m <= b[u] /\ u \in 1..n
            <6>1. i <= b[u] /\ b[u] \in Nat
              BY <1>4, <2>1 DEF In
            <6>2. QED
              BY <1>4, <3>1, <3>6, <3>8, <6>1
          <5>2. QED
            BY <5>1 DEF In
        <4> DEFINE p == m - b[u - 1]
        <4>2. p \in 1..Len(ts[u].results) /\ b[u - 1] + p = m
          <5>1. b[u - 1] \in Nat /\ b[u - 1] < m /\ Len(ts[u].results) \in Nat
            BY <1>4, <2>2, <4>1, TurnTypes DEF In
          <5>2. r <= Len(ts[u].results) /\ r = i - b[u - 1]
            BY <2>2
          <5> HIDE DEF r, j
          <5>3. QED
            BY <1>4, <3>6, <3>8, <5>1, <5>2
        <4>3. ms[m] = ResultMessage(ts, u, p, named)
          <5> HIDE DEF p
          <5>1. QED
            BY <1>9, <2>2, <4>2
        <4>4. ms[m].role = "tool" /\ ms[m].id = ts[u].results[p]
          BY <4>3 DEF ResultMessage, Message
        <4>5. p \in DOMAIN ts[u].results
          BY <2>2, <4>2, TurnTypes
        <4> HIDE DEF p, j
        <4>6. QED
          BY <2>5, <3>5, <4>4, <4>5
      <3>9. Called(i)
        <4> HIDE DEF id, j, t
        <4>1. k \in DOMAIN ms[j].calls /\ ms[j].calls[k].id = ms[i].id
          BY <2>3, <3>2, <3>5
        <4>2. QED
          BY <3>6, <3>7, <3>8, <4>1
      <3>10. QED
        BY <3>9
    <2>6. QED
      BY <2>2, <2>4, <2>5 DEF IsConversation
  <1>16. ASSUME NEW t \in DOMAIN ts
         PROVE  /\ ts[t].role = "assistant" => \E i \in 1..z : ms[i] = AssistantMessage(ts, t)
                /\ \A k \in DOMAIN ts[t].results :
                     \E i \in 1..z : ms[i].role = "tool" /\ ms[i].id = ts[t].results[k] /\ ms[i].of = t
                /\ ts[t].role = "user" /\ Tells(api, ts, t) => \E i \in 1..z : ms[i] = UserMessage(ts, t)
    <2>1. t \in 1..n
      BY <1>1
    <2>2. ts[t].role = "assistant" => \E i \in 1..z : ms[i] = AssistantMessage(ts, t)
      BY <1>7, <1>8, <2>1
    <2>3. ASSUME NEW k \in DOMAIN ts[t].results
          PROVE  \E i \in 1..z : ms[i].role = "tool" /\ ms[i].id = ts[t].results[k] /\ ms[i].of = t
      <3>1. ts[t].role = "user" /\ k \in 1..Len(ts[t].results)
        <4>1. ts[t].results # <<>>
          BY <2>3
        <4>2. QED
          BY <2>3, <4>1, TurnTypes DEF IsConversation
      <3>2. In(b[t - 1] + k, t) /\ ms[b[t - 1] + k] = ResultMessage(ts, t, k, named)
        BY <1>9, <2>1, <3>1
      <3>3. QED
        BY <1>7, <3>2 DEF ResultMessage, Message
    <2>4. ts[t].role = "user" /\ Tells(api, ts, t) => \E i \in 1..z : ms[i] = UserMessage(ts, t)
      BY <1>7, <1>9, <2>1
    <2>5. QED
      BY <2>2, <2>3, <2>4
  <1>17. Written(ms, ts, texts, api)
    BY <1>2, <1>11, <1>12, <1>14, <1>15, <1>16 DEF Written, M, z
  <1>18. QED
    BY <1>17 DEF ms

-----------------------------------------------------------------------------
(* The segments of a prompt *)

\* The types of messages.
LEMMA MessageFacts ==
  ASSUME NEW ms, NEW ts, NEW texts, NEW api, IsConversation(ts, texts), Written(ms, ts, texts, api)
  PROVE  /\ Len(ms) \in Nat /\ DOMAIN ms = 1..Len(ms)
         /\ \A i \in 1..Len(ms) :
              /\ ms[i].role \in {"user", "assistant", "tool"} /\ ms[i].of \in Nat
              /\ ms[i].id \in Nat \cup {None}
              /\ ms[i].calls \in Seq(Calls) /\ Len(ms[i].calls) \in Nat
              /\ DOMAIN ms[i].calls = 1..Len(ms[i].calls)
              /\ \A k \in DOMAIN ms[i].calls : ms[i].calls[k] \in Calls
  <1>1. ms \in Seq(MessagesOf(ts, texts))
    BY DEF Written
  <1>2. Len(ms) \in Nat /\ DOMAIN ms = 1..Len(ms) /\ \A i \in 1..Len(ms) : ms[i] \in MessagesOf(ts, texts)
    BY <1>1, LenProperties, ElementOfSeq
  <1>3. DOMAIN ts \subseteq Nat
    BY TurnTypes
  <1>4. ASSUME NEW i \in 1..Len(ms)
        PROVE  /\ ms[i].role \in {"user", "assistant", "tool"} /\ ms[i].of \in Nat
               /\ ms[i].calls \in Seq(Calls) /\ ms[i].id \in Nat \cup {None}
    BY <1>2, <1>3 DEF MessagesOf
  <1>5. ASSUME NEW s \in Seq(Calls)
        PROVE  Len(s) \in Nat /\ DOMAIN s = 1..Len(s) /\ \A k \in DOMAIN s : s[k] \in Calls
    BY LenProperties, ElementOfSeq
  <1>6. QED
    BY <1>2, <1>4, <1>5

\* A result is told as its call is; without a call it is a result.
Answers(ms, i, j, k, opts) ==
    /\ j \in 1..i - 1 /\ k \in DOMAIN ms[j].calls /\ ms[j].calls[k].id = ms[i].id
    /\ CallTurns(ms, i) = {j}
    /\ ResultAs(ms, i, opts) = CallAs(ms, j, ms[j].calls[k], opts)
    /\ \A m \in 1..Len(ms) : j < m /\ m < i =>
         ms[m].role = "tool" /\ \E l \in DOMAIN ms[j].calls : ms[j].calls[l].id = ms[m].id

Orphaned(ms, i, opts) ==
    /\ \A j \in 1..Len(ms) : \A k \in DOMAIN ms[j].calls : ms[j].calls[k].id # ms[i].id
    /\ CallTurns(ms, i) = {} /\ ResultAs(ms, i, opts) = "xml"

\* A result is that of one message before it, or of none at all.
LEMMA Fate ==
  ASSUME NEW ms, NEW ts, NEW texts, NEW api, IsConversation(ts, texts), Written(ms, ts, texts, api),
         NEW opts, NEW i \in 1..Len(ms), ms[i].role = "tool"
  PROVE  (\E j \in 1..i - 1 : \E k \in DOMAIN ms[j].calls : Answers(ms, i, j, k, opts))
         \/ Orphaned(ms, i, opts)
  <1>1. /\ Len(ms) \in Nat /\ \A j \in 1..i - 1 : j \in 1..Len(ms)
        /\ \A j \in 1..Len(ms) : \A k \in DOMAIN ms[j].calls : ms[j].calls[k].name \in STRING
    <2>1. Len(ms) \in Nat /\ \A j \in 1..i - 1 : j \in 1..Len(ms)
      BY MessageFacts
    <2>2. \A j \in 1..Len(ms) : \A k \in DOMAIN ms[j].calls : ms[j].calls[k] \in Calls
      BY MessageFacts
    <2>3. QED
      BY <2>1, <2>2 DEF Calls
  <1>2. \A j : j \in CallTurns(ms, i) <=>
                 j \in 1..i - 1 /\ \E k \in DOMAIN ms[j].calls : ms[j].calls[k].id = ms[i].id
    BY DEF CallTurns, ToSet
  <1>3. CASE /\ \A j \in 1..Len(ms) : \A k \in DOMAIN ms[j].calls : ms[j].calls[k].id # ms[i].id
             /\ ms[i].name = None
    <2>1. CallTurns(ms, i) = {}
      BY <1>1, <1>2, <1>3
    <2>2. ToolName(ms, i) = None
      BY <1>3, <2>1 DEF ToolName
    <2>3. ResultAs(ms, i, opts) = "xml"
      <3>1. ~ResultTooOld(ms, i, opts)
        BY <2>1 DEF ResultTooOld
      <3>2. QED
        BY <2>2, <3>1 DEF ResultAs
    <2>4. QED
      BY <1>3, <2>1, <2>3 DEF Orphaned
  <1>4. ASSUME NEW j \in 1..i - 1, NEW k \in DOMAIN ms[j].calls, ms[j].calls[k].id = ms[i].id,
               ms[i].name \in {None, ms[j].calls[k].name},
               \A m \in 1..Len(ms) : j < m /\ m < i =>
                 ms[m].role = "tool" /\ \E l \in DOMAIN ms[j].calls : ms[j].calls[l].id = ms[m].id
        PROVE  Answers(ms, i, j, k, opts)
    <2> DEFINE c == ms[j].calls[k]
    <2>1. \A l \in CallTurns(ms, i) : l = j
      <3>1. \A l \in 1..Len(ms) : \A m \in DOMAIN ms[l].calls :
              ms[l].calls[m].id = ms[j].calls[k].id => l = j
        BY <1>1 DEF Written
      <3>2. QED
        BY <1>1, <1>2, <1>4, <3>1
    <2>2. CallTurns(ms, i) = {j}
      <3>1. j \in CallTurns(ms, i)
        BY <1>2, <1>4
      <3>2. QED
        BY <2>1, <3>1
    <2>3. Max(CallTurns(ms, i)) = j
      <3>1. \E x \in {j} : \A y \in {j} : x >= y
        OBVIOUS
      <3>2. QED
        BY <2>2, <3>1 DEF Max
    <2>4. CallOf(ms, i) = c
      <3>1. c \in ToSet(ms[j].calls) /\ c.id = ms[i].id
        BY <1>4 DEF ToSet
      <3>2. \A d \in ToSet(ms[j].calls) : d.id = ms[i].id => d = c
        <4> SUFFICES ASSUME NEW l \in DOMAIN ms[j].calls, ms[j].calls[l].id = ms[i].id
                     PROVE  ms[j].calls[l] = c
          BY DEF ToSet
        <4>1. l = k
          BY <1>1, <1>4 DEF Written
        <4>2. QED
          BY <4>1
      <3> HIDE DEF c
      <3>3. QED
        BY <2>3, <3>1, <3>2 DEF CallOf
    <2>5. c.name \in STRING /\ c.name # None
      BY <1>1, PromptAssumption
    <2>6. ToolName(ms, i) = c.name
      <3> HIDE DEF c
      <3>1. ms[i].name \in {None, c.name}
        BY <1>4 DEF c
      <3>2. QED
        BY <2>2, <2>4, <2>5, <3>1 DEF ToolName
    <2>7. ResultTooOld(ms, i, opts) <=> TooOld(ms, j, opts)
      <3>1. CallTurns(ms, i) # {}
        BY <2>2
      <3>2. QED
        BY <2>3, <3>1 DEF ResultTooOld
    <2>8. ResultAs(ms, i, opts) = CallAs(ms, j, c, opts)
      <3> HIDE DEF c
      <3>1. CASE opts.tools = {}
        BY <3>1, <2>6 DEF ResultAs, CallAs, Unregistered
      <3>2. CASE opts.tools # {} /\ c.name \notin opts.tools
        <4>1. Unregistered(c.name, opts)
          BY <3>2 DEF Unregistered
        <4>2. CallAs(ms, j, c, opts) = "unregistered"
          BY <4>1 DEF CallAs
        <4>3. ResultAs(ms, i, opts) = "unregistered"
          BY <2>5, <2>6, <3>2, <4>1 DEF ResultAs
        <4>4. QED
          BY <4>2, <4>3
      <3>3. CASE opts.tools # {} /\ c.name \in opts.tools
        <4>1. ~Unregistered(c.name, opts)
          BY <3>3 DEF Unregistered
        <4>2. CallAs(ms, j, c, opts) = IF TooOld(ms, j, opts) THEN "earlier" ELSE "xml"
          BY <3>3, <4>1 DEF CallAs
        <4>3. ResultAs(ms, i, opts) = IF ResultTooOld(ms, i, opts) THEN "earlier" ELSE "xml"
          BY <2>5, <2>6, <3>3, <4>1 DEF ResultAs
        <4>4. QED
          BY <2>7, <4>2, <4>3
      <3>4. QED
        BY <3>1, <3>2, <3>3
    <2>9. QED
      BY <1>4, <2>2, <2>8 DEF Answers
  <1>5. QED
    BY <1>3, <1>4 DEF Written

Ways == {"xml", "earlier", "unregistered"}
Showings == [what : {"call", "result"}, id : Nat \cup {None}, as : Ways]
Segments ==
    [kind : {"user", "assist", "result", "system"}, of : Nat, hasText : BOOLEAN,
     shown : Seq(Showings), size : Nat \ {0}]

\* A sequence of one.
LEMMA One ==
  ASSUME NEW S, NEW x \in S
  PROVE  <<x>> \in Seq(S) /\ Len(<<x>>) = 1 /\ <<x>>[1] = x
  OBVIOUS

\* Calls and results are told in three ways.
LEMMA WaysAre ==
  ASSUME NEW ms, NEW i, NEW c, NEW opts
  PROVE  CallAs(ms, i, c, opts) \in Ways /\ ResultAs(ms, i, opts) \in Ways
  <1>1. CallAs(ms, i, c, opts) \in Ways
    <2>1. CASE Unregistered(c.name, opts)
      BY <2>1 DEF CallAs, Ways
    <2>2. CASE ~Unregistered(c.name, opts)
      BY <2>2 DEF CallAs, Ways
    <2>3. QED
      BY <2>1, <2>2
  <1>2. ResultAs(ms, i, opts) \in Ways
    BY DEF ResultAs, Ways
  <1>3. QED
    BY <1>1, <1>2

\* What a message becomes.
SegmentsOf(ms, i, opts) ==
    CASE ms[i].role = "user" -> UserSegments(ms, i)
      [] ms[i].role = "assistant" -> AssistantSegments(ms, i, opts)
      [] ms[i].role = "tool" -> ResultSegments(ms, i, opts)

Parts(s, ms, i) ==
    s \in Seq(Segments) /\ \A x \in 1..Len(s) : s[x].of = ms[i].of /\ s[x].kind # "system"

\* A user's message makes at most one segment, which shows nothing.
LEMMA UserSegmentsAre ==
  ASSUME NEW ms, NEW i, NEW opts, ms[i].role = "user", ms[i].of \in Nat
  PROVE  LET s == SegmentsOf(ms, i, opts)
         IN  /\ Parts(s, ms, i)
             /\ \A x \in 1..Len(s) : s[x].kind = "user" /\ s[x].shown = <<>>
             /\ ms[i].text # "none" => Len(s) = 1 /\ s[1].hasText
  <1> DEFINE a == Segment("user", ms[i].of, TRUE, <<>>, LargeText)
             b == Segment("user", ms[i].of, TRUE, <<>>, 1)
             s == SegmentsOf(ms, i, opts)
  <1>1. <<>> \in Seq(Showings) /\ LargeText \in Nat /\ LargeText # 0
    BY EmptySeq, HistoryAssumption
  <1>2. /\ a \in Segments /\ a.of = ms[i].of /\ a.kind = "user" /\ a.shown = <<>> /\ a.hasText
        /\ b \in Segments /\ b.of = ms[i].of /\ b.kind = "user" /\ b.shown = <<>> /\ b.hasText
    BY <1>1 DEF Segment, Segments
  <1>3. s = UserSegments(ms, i)
    BY DEF SegmentsOf
  <1>4. /\ ms[i].text = "none" => s = <<>>
        /\ ms[i].text # "none" => s = <<a>> \/ s = <<b>>
    BY <1>3 DEF UserSegments
  <1> HIDE DEF a, b, s
  <1>5. CASE s = <<>>
    <2>1. s \in Seq(Segments) /\ Len(s) = 0 /\ ms[i].text = "none"
      <3>1. <<>> # <<a>> /\ <<>> # <<b>>
        OBVIOUS
      <3>2. QED
        BY <1>4, <1>5, <3>1, EmptySeq
    <2>2. QED
      BY <2>1 DEF Parts, s
  <1>6. ASSUME NEW x \in {a, b}, s = <<x>>
        PROVE  /\ Parts(s, ms, i) /\ Len(s) = 1 /\ s[1].hasText
               /\ \A y \in 1..Len(s) : s[y].kind = "user" /\ s[y].shown = <<>>
    <2>1. s \in Seq(Segments) /\ Len(s) = 1 /\ s[1] = x
      BY <1>2, <1>6, One
    <2>2. x.of = ms[i].of /\ x.kind = "user" /\ x.shown = <<>> /\ x.hasText
      BY <1>2
    <2>3. \A y \in 1..Len(s) : s[y] = x
      BY <2>1
    <2>4. QED
      BY <2>1, <2>2, <2>3 DEF Parts
  <1>7. QED
    BY <1>4, <1>5, <1>6 DEF s

\* An assistant's message makes one segment, with all its calls.
LEMMA AssistantSegmentsAre ==
  ASSUME NEW ms, NEW i, NEW opts, ms[i].role = "assistant", ms[i].of \in Nat, ms[i].calls \in Seq(Calls)
  PROVE  LET s == SegmentsOf(ms, i, opts)
         IN  /\ Parts(s, ms, i) /\ Len(s) \in {0, 1}
             /\ ms[i].text # "none" \/ ms[i].calls # <<>> => Len(s) = 1
             /\ \A x \in 1..Len(s) :
                  /\ s[x].kind = "assist" /\ s[x].hasText = (ms[i].text # "none")
                  /\ DOMAIN s[x].shown = DOMAIN ms[i].calls
                  /\ \A k \in DOMAIN ms[i].calls :
                       s[x].shown[k] = Shown("call", ms[i].calls[k].id, CallAs(ms, i, ms[i].calls[k], opts))
  <1> DEFINE n == Len(ms[i].calls)
             c == [k \in DOMAIN ms[i].calls |->
                    Shown("call", ms[i].calls[k].id, CallAs(ms, i, ms[i].calls[k], opts))]
             size == Len(c) + (IF ms[i].text = "none" THEN 0 ELSE 1)
             a == Segment("assist", ms[i].of, ms[i].text # "none", c, size)
             s == SegmentsOf(ms, i, opts)
  <1>1. n \in Nat /\ DOMAIN ms[i].calls = 1..n /\ (n = 0 => ms[i].calls = <<>>)
    BY LenProperties, EmptySeq
  <1>2. \A k \in 1..n :
          Shown("call", ms[i].calls[k].id, CallAs(ms, i, ms[i].calls[k], opts)) \in Showings
    <2> SUFFICES ASSUME NEW k \in 1..n
                 PROVE  Shown("call", ms[i].calls[k].id, CallAs(ms, i, ms[i].calls[k], opts)) \in Showings
      OBVIOUS
    <2>1. ms[i].calls[k] \in Calls
      BY ElementOfSeq
    <2>2. ms[i].calls[k].id \in Nat /\ CallAs(ms, i, ms[i].calls[k], opts) \in Ways
      BY <2>1, WaysAre DEF Calls
    <2>3. QED
      BY <2>2 DEF Shown, Showings
  <1>3. /\ c \in [1..n -> Showings] /\ DOMAIN c = DOMAIN ms[i].calls
        /\ \A k \in DOMAIN ms[i].calls :
             c[k] = Shown("call", ms[i].calls[k].id, CallAs(ms, i, ms[i].calls[k], opts))
    <2> HIDE DEF n
    <2>1. QED
      BY <1>1, <1>2
  <1>4. c \in Seq(Showings) /\ Len(c) = n
    <2> HIDE DEF c, n
    <2>1. c \in Seq(Showings)
      BY <1>1, <1>3, SeqDef
    <2>2. QED
      BY <1>1, <1>3, <2>1, LenProperties
  <1>5. s = IF size = 0 THEN <<>> ELSE <<a>>
    BY DEF SegmentsOf, AssistantSegments
  <1>6. size \in Nat /\ (ms[i].text # "none" \/ ms[i].calls # <<>> => size # 0)
    <2> HIDE DEF c, n
    <2>1. QED
      BY <1>1, <1>4
  <1>7. CASE size = 0
    <2>1. s = <<>>
      BY <1>5, <1>7
    <2> HIDE DEF s, c, size, n
    <2>2. s \in Seq(Segments) /\ Len(s) = 0
      BY <2>1, EmptySeq
    <2>3. QED
      BY <1>6, <1>7, <2>2 DEF Parts, s
  <1>8. CASE size # 0
    <2>1. s = <<a>>
      BY <1>5, <1>8
    <2>2. /\ a \in Segments /\ a.of = ms[i].of /\ a.kind = "assist" /\ a.shown = c
          /\ a.hasText = (ms[i].text # "none")
      <3> HIDE DEF c, size
      <3>1. QED
        BY <1>4, <1>6, <1>8 DEF Segment, Segments
    <2> HIDE DEF s, c, size, n, a
    <2>3. s \in Seq(Segments) /\ Len(s) = 1 /\ s[1] = a
      BY <2>1, <2>2, One
    <2>4. \A x \in 1..Len(s) : s[x] = a
      BY <2>3
    <2>5. Parts(s, ms, i)
      BY <2>2, <2>3, <2>4 DEF Parts
    <2>6. \A x \in 1..Len(s) :
                  /\ s[x].kind = "assist" /\ s[x].hasText = (ms[i].text # "none")
                  /\ DOMAIN s[x].shown = DOMAIN ms[i].calls
                  /\ \A k \in DOMAIN ms[i].calls :
                       s[x].shown[k] = Shown("call", ms[i].calls[k].id, CallAs(ms, i, ms[i].calls[k], opts))
      BY <1>3, <2>2, <2>4
    <2>7. QED
      BY <2>3, <2>5, <2>6 DEF s
  <1>9. QED
    BY <1>7, <1>8

\* A result is one segment, after a made-up call if it has none.
LEMMA ResultSegmentsAre ==
  ASSUME NEW ms, NEW i, NEW opts, ms[i].role = "tool", ms[i].of \in Nat, ms[i].id \in Nat \cup {None}
  PROVE  LET s == SegmentsOf(ms, i, opts)
             as == ResultAs(ms, i, opts)
             made == as = "xml" /\ CallTurns(ms, i) = {}
         IN  /\ Parts(s, ms, i) /\ Len(s) = (IF made THEN 2 ELSE 1)
             /\ s[Len(s)].shown = <<Shown("result", ms[i].id, as)>>
             /\ s[Len(s)].kind = (IF as = "xml" THEN "result" ELSE "user")
             /\ made => s[1].shown = <<Shown("call", ms[i].id, "xml")>> /\ s[1].kind = "assist"
  <1> DEFINE s == SegmentsOf(ms, i, opts)
             as == ResultAs(ms, i, opts)
             r == <<Shown("result", ms[i].id, as)>>
             c == <<Shown("call", ms[i].id, "xml")>>
             u == Segment("user", ms[i].of, FALSE, r, 1)
             v == Segment("result", ms[i].of, FALSE, r, 1)
             w == Segment("assist", ms[i].of, FALSE, c, 1)
  <1>1. r \in Seq(Showings) /\ c \in Seq(Showings)
    <2>1. as \in Ways
      BY WaysAre
    <2> HIDE DEF as
    <2>2. Shown("result", ms[i].id, as) \in Showings /\ Shown("call", ms[i].id, "xml") \in Showings
      BY <2>1 DEF Shown, Showings, Ways
    <2>3. QED
      BY <2>2, One
  <1>2. /\ u \in Segments /\ u.of = ms[i].of /\ u.kind = "user" /\ u.shown = r
        /\ v \in Segments /\ v.of = ms[i].of /\ v.kind = "result" /\ v.shown = r
        /\ w \in Segments /\ w.of = ms[i].of /\ w.kind = "assist" /\ w.shown = c
    <2> HIDE DEF r, c
    <2>1. QED
      BY <1>1 DEF Segment, Segments
  <1>3. s = IF as # "xml" THEN <<u>>
            ELSE (IF CallTurns(ms, i) = {} THEN <<w>> ELSE <<>>) \o <<v>>
    BY DEF SegmentsOf, ResultSegments
  <1> HIDE DEF s, as, r, c, u, v, w
  <1>4. ASSUME NEW x \in {u, v}, s = <<x>>
        PROVE  Parts(s, ms, i) /\ Len(s) = 1 /\ s[1] = x
    <2>1. s \in Seq(Segments) /\ Len(s) = 1 /\ s[1] = x
      BY <1>2, <1>4, One
    <2>2. \A y \in 1..Len(s) : s[y] = x
      BY <2>1
    <2>3. QED
      BY <1>2, <2>1, <2>2 DEF Parts
  <1>5. CASE as # "xml"
    <2>1. s = <<u>>
      BY <1>3, <1>5
    <2>2. Parts(s, ms, i) /\ Len(s) = 1 /\ s[1] = u
      BY <1>4, <2>1
    <2>3. QED
      BY <1>2, <1>5, <2>2 DEF s, as, r
  <1>6. CASE as = "xml" /\ CallTurns(ms, i) # {}
    <2>1. s = <<v>>
      <3>1. <<v>> \in Seq(Segments)
        BY <1>2, One
      <3>2. s = <<>> \o <<v>>
        BY <1>3, <1>6
      <3>3. QED
        BY <3>1, <3>2, ConcatEmptySeq
    <2>2. Parts(s, ms, i) /\ Len(s) = 1 /\ s[1] = v
      BY <1>4, <2>1
    <2>3. QED
      BY <1>2, <1>6, <2>2 DEF s, as, r
  <1>7. CASE as = "xml" /\ CallTurns(ms, i) = {}
    <2>1. s = <<w>> \o <<v>>
      BY <1>3, <1>7
    <2>2. /\ <<w>> \in Seq(Segments) /\ Len(<<w>>) = 1 /\ <<w>>[1] = w
          /\ <<v>> \in Seq(Segments) /\ Len(<<v>>) = 1 /\ <<v>>[1] = v
      BY <1>2, One
    <2>3. s \in Seq(Segments) /\ Len(s) = 2 /\ s[1] = w /\ s[2] = v
      <3>1. /\ s \in Seq(Segments) /\ Len(s) = Len(<<w>>) + Len(<<v>>)
            /\ \A k \in 1..Len(<<w>>) : s[k] = <<w>>[k]
            /\ \A k \in 1..Len(<<v>>) : s[Len(<<w>>) + k] = <<v>>[k]
        BY ONLY <2>1, <2>2, ConcatAt
      <3>2. 1 \in 1..Len(<<w>>) /\ 1 \in 1..Len(<<v>>)
        BY <2>2
      <3>3. QED
        BY <2>2, <3>1, <3>2
    <2>4. \A y \in 1..Len(s) : s[y] \in {v, w}
      BY <2>3
    <2>5. Parts(s, ms, i)
      BY <1>2, <2>3, <2>4 DEF Parts
    <2>6. QED
      BY <1>2, <1>7, <2>3, <2>5 DEF s, as, r, c
  <1>8. QED
    BY <1>5, <1>6, <1>7

\* Where the segments of each message are, after the first o segments.
Placed(ss, ms, opts, o, d) ==
    /\ o \in {0, 1} /\ Growing(d, Len(ms)) /\ Len(ss) = o + d[Len(ms)]
    /\ o = 1 => ss[1] = Segment("system", 0, FALSE, <<>>, 1)
    /\ \A i \in 1..Len(ms) :
         /\ Parts(SegmentsOf(ms, i, opts), ms, i)
         /\ d[i] = d[i - 1] + Len(SegmentsOf(ms, i, opts))
         /\ \A x \in 1..Len(SegmentsOf(ms, i, opts)) :
              ss[o + (d[i - 1] + x)] = SegmentsOf(ms, i, opts)[x]

\* The segments of the prompt are those of its messages, one after the other.
LEMMA SegmentsArePlaced ==
  ASSUME NEW ms, NEW ts, NEW texts, NEW api, IsConversation(ts, texts), Written(ms, ts, texts, api),
         NEW opts
  PROVE  /\ BuildQwenMessages(ms, opts) \in Seq(Segments)
         /\ \E o, d : Placed(BuildQwenMessages(ms, opts), ms, opts, o, d)
  <1> DEFINE n == Len(ms)
             q == [i \in DOMAIN ms |-> SegmentsOf(ms, i, opts)]
             v == FlattenSeq(q)
             u == SystemSegments(ms, opts)
             f == Segment("system", 0, FALSE, <<>>, 1)
             ss == BuildQwenMessages(ms, opts)
  <1>1. n \in Nat /\ DOMAIN ms = 1..n
    BY MessageFacts
  <1>2. ss = u \o v
    BY DEF BuildQwenMessages, SegmentsOf
  <1>3. ASSUME NEW i \in 1..n PROVE Parts(SegmentsOf(ms, i, opts), ms, i)
    <2>1. /\ ms[i].role \in {"user", "assistant", "tool"} /\ ms[i].of \in Nat
          /\ ms[i].calls \in Seq(Calls) /\ ms[i].id \in Nat \cup {None}
      BY MessageFacts
    <2>2. QED
      BY <2>1, UserSegmentsAre, AssistantSegmentsAre, ResultSegmentsAre
  <1>4. q \in [1..n -> Seq(Segments)] /\ \A i \in 1..n : q[i] = SegmentsOf(ms, i, opts)
    <2>1. \A i \in 1..n : SegmentsOf(ms, i, opts) \in Seq(Segments)
      BY <1>3 DEF Parts
    <2> HIDE DEF n
    <2>2. QED
      BY <1>1, <2>1
  <1>5. v \in Seq(Segments) /\ \E d : Flat(q, n, v, d)
    <2> HIDE DEF n, q
    <2>1. QED
      BY <1>1, <1>4, Flattens
  <1>6. PICK d : Flat(q, n, v, d)
    BY <1>5
  <1>7. u \in Seq(Segments) /\ Len(u) \in {0, 1} /\ (Len(u) = 1 => u[1] = f)
    <2>1. f \in Segments
      BY EmptySeq DEF Segment, Segments
    <2>2. u = <<>> \/ u = <<f>>
      BY DEF SystemSegments
    <2> HIDE DEF u, f
    <2>3. CASE u = <<>>
      BY <2>3, EmptySeq
    <2>4. CASE u = <<f>>
      BY <2>1, <2>4, One
    <2>5. QED
      BY <2>2, <2>3, <2>4
  <1> HIDE DEF ss, u, v, q, f
  <1>8. /\ ss \in Seq(Segments) /\ Len(v) \in Nat /\ Len(ss) = Len(u) + Len(v)
        /\ \A k \in 1..Len(u) : ss[k] = u[k]
        /\ \A k \in 1..Len(v) : ss[Len(u) + k] = v[k]
    <2>1. u \in Seq(Segments) /\ v \in Seq(Segments) /\ ss = u \o v
      BY <1>2, <1>5, <1>7
    <2>2. QED
      BY ONLY <2>1, ConcatAt
  <1>9. Len(u) = 1 => ss[1] = f
    <2>1. Len(u) = 1 => 1 \in 1..Len(u)
      OBVIOUS
    <2>2. QED
      BY <1>7, <1>8, <2>1
  <1>10. /\ Growing(d, n) /\ d[n] = Len(v)
         /\ \A i \in 1..n : d[i] = d[i - 1] + Len(SegmentsOf(ms, i, opts))
         /\ \A i \in 1..n : \A k \in 1..Len(SegmentsOf(ms, i, opts)) :
              v[d[i - 1] + k] = SegmentsOf(ms, i, opts)[k]
    BY <1>4, <1>6 DEF Flat
  <1>11. ASSUME NEW i \in 1..n, NEW x \in 1..Len(SegmentsOf(ms, i, opts))
         PROVE  ss[Len(u) + (d[i - 1] + x)] = SegmentsOf(ms, i, opts)[x]
    <2> DEFINE l == Len(SegmentsOf(ms, i, opts))
               a == d[i - 1]
    <2>1. a \in Nat /\ d[i] \in Nat /\ d[i] <= d[n] /\ d[i] = a + l /\ l \in Nat
      <3>1. i - 1 \in 0..n /\ i \in 0..n /\ n \in 0..n /\ i <= n
        BY <1>1
      <3>2. a \in Nat /\ d[i] \in Nat
        BY <1>10, <3>1 DEF Growing
      <3>3. d[i] <= d[n]
        <4> HIDE DEF n
        <4>1. QED
          BY <1>1, <1>10, <3>1, Grows
      <3>4. l \in Nat
        BY <1>3, LenProperties DEF Parts
      <3>5. QED
        BY <1>10, <3>2, <3>3, <3>4
    <2>2. a + x \in 1..Len(v)
      <3>1. x \in 1..l
        OBVIOUS
      <3> HIDE DEF l, a
      <3>2. QED
        BY <1>8, <1>10, <2>1, <3>1
    <2>3. v[a + x] = SegmentsOf(ms, i, opts)[x]
      BY <1>10
    <2> HIDE DEF a
    <2>4. ss[Len(u) + (a + x)] = v[a + x]
      BY <1>8, <2>2
    <2>5. QED
      BY <2>3, <2>4 DEF a
  <1>12. Placed(ss, ms, opts, Len(u), d)
    BY <1>3, <1>7, <1>8, <1>9, <1>10, <1>11 DEF Placed, f
  <1>13. QED
    BY <1>8, <1>12 DEF ss

\* Every segment but the system's is one of a message, in their order.
From(y, ms, opts, o, d, i) ==
    i \in 1..Len(ms) /\ y \in Nat /\ o + d[i - 1] < y /\ y <= o + d[i]

Ordered(ss, ms, opts, o, d) ==
    /\ \A y \in 1..Len(ss) :
         \/ o = 1 /\ y = 1
         \/ \E i \in 1..Len(ms) : From(y, ms, opts, o, d, i)
    /\ o = 1 => \A i \in 1..Len(ms) : ~From(1, ms, opts, o, d, i)
    /\ \A i, j \in 1..Len(ms), y, z \in Nat :
         From(y, ms, opts, o, d, i) /\ From(z, ms, opts, o, d, j) /\ y <= z => i <= j
    /\ \A i \in 1..Len(ms), y \in Nat : From(y, ms, opts, o, d, i) =>
         /\ y \in 1..Len(ss) /\ y - o - d[i - 1] \in 1..Len(SegmentsOf(ms, i, opts))
         /\ ss[y] = SegmentsOf(ms, i, opts)[y - o - d[i - 1]]
    /\ \A i \in 1..Len(ms) : \A x \in 1..Len(SegmentsOf(ms, i, opts)) :
         /\ From(o + (d[i - 1] + x), ms, opts, o, d, i)
         /\ ss[o + (d[i - 1] + x)] = SegmentsOf(ms, i, opts)[x]

\* Every segment but that of the system comes from a message, in their order.
LEMMA Origins ==
  ASSUME NEW ms, NEW opts, NEW ss, NEW o, NEW d, Placed(ss, ms, opts, o, d), Len(ms) \in Nat
  PROVE  Ordered(ss, ms, opts, o, d)
  <1> DEFINE n == Len(ms)
             l(i) == Len(SegmentsOf(ms, i, opts))
             F(y, i) == From(y, ms, opts, o, d, i)
  <1>1. /\ o \in {0, 1} /\ Growing(d, n) /\ Len(ss) = o + d[n]
        /\ \A i \in 1..n : d[i] = d[i - 1] + l(i)
        /\ \A i \in 1..n : \A x \in 1..l(i) : ss[o + (d[i - 1] + x)] = SegmentsOf(ms, i, opts)[x]
    BY DEF Placed
  <1>2. \A i \in 1..n : d[i - 1] \in Nat /\ d[i] \in Nat /\ l(i) \in Nat
    <2>1. \A i \in 1..n : i - 1 \in 0..n /\ i \in 0..n
      OBVIOUS
    <2>2. \A i \in 1..n : SegmentsOf(ms, i, opts) \in Seq(Segments)
      BY DEF Placed, Parts
    <2>3. \A i \in 1..n : l(i) \in Nat
      BY <2>2, LenProperties
    <2> HIDE DEF l, n
    <2>4. QED
      BY <1>1, <2>1, <2>3 DEF Growing
  <1>3. d[n] \in Nat
    BY <1>1 DEF Growing
  <1>4. n \in Nat
    OBVIOUS
  <1>5. /\ \A p \in 1..d[n] : \E i \in 1..n : d[i - 1] < p /\ p <= d[i]
        /\ \A i, j \in 1..n, p, r \in Nat :
             d[i - 1] < p /\ p <= d[i] /\ d[j - 1] < r /\ r <= d[j] /\ p <= r => i <= j
        /\ \A i \in 1..n, p \in Nat : d[i - 1] < p /\ p <= d[i] => p \in 1..d[n]
    <2> HIDE DEF n
    <2>1. QED
      BY <1>1, <1>4, Places
  <1>6. \A y, i : F(y, i) <=> i \in 1..n /\ y \in Nat /\ o + d[i - 1] < y /\ y <= o + d[i]
    BY DEF From
  <1> HIDE DEF n, l, F
  <1>7. \A y, i : F(y, i) => i \in 1..n /\ y \in Nat /\ y - o \in Nat /\ d[i - 1] < y - o /\ y - o <= d[i]
    BY <1>1, <1>2, <1>6
  <1>8. \A y \in 1..Len(ss) : (o = 1 /\ y = 1) \/ \E i \in 1..n : F(y, i)
    <2> SUFFICES ASSUME NEW y \in 1..Len(ss), ~(o = 1 /\ y = 1) PROVE \E i \in 1..n : F(y, i)
      OBVIOUS
    <2>1. y - o \in 1..d[n]
      BY <1>1, <1>3
    <2>2. PICK i \in 1..n : d[i - 1] < y - o /\ y - o <= d[i]
      BY <1>5, <2>1
    <2>3. y \in Nat /\ o + d[i - 1] < y /\ y <= o + d[i]
      BY <1>1, <1>2, <1>3, <2>2
    <2>4. QED
      BY <1>6, <2>3
  <1>9. o = 1 => \A i \in 1..n : ~F(1, i)
    BY <1>2, <1>6
  <1>10. \A i, j \in 1..n, y, z \in Nat : F(y, i) /\ F(z, j) /\ y <= z => i <= j
    <2> SUFFICES ASSUME NEW i \in 1..n, NEW j \in 1..n, NEW y \in Nat, NEW z \in Nat,
                        F(y, i), F(z, j), y <= z
                 PROVE  i <= j
      OBVIOUS
    <2>1. y - o \in Nat /\ z - o \in Nat /\ y - o <= z - o
      BY <1>1, <1>7
    <2>2. QED
      BY <1>5, <1>7, <2>1
  <1>11. ASSUME NEW i \in 1..n, NEW y \in Nat, F(y, i)
         PROVE  /\ y \in 1..Len(ss) /\ y - o - d[i - 1] \in 1..l(i)
                /\ ss[y] = SegmentsOf(ms, i, opts)[y - o - d[i - 1]]
    <2>1. y - o \in Nat /\ d[i - 1] < y - o /\ y - o <= d[i]
      BY <1>7, <1>11
    <2>2. y - o \in 1..d[n]
      BY <1>5, <2>1
    <2>3. y \in 1..Len(ss)
      BY <1>1, <1>3, <2>2
    <2> DEFINE x == y - o - d[i - 1]
    <2>4. x \in 1..l(i) /\ o + (d[i - 1] + x) = y
      BY <1>1, <1>2, <2>1
    <2> HIDE DEF x
    <2>5. ss[y] = SegmentsOf(ms, i, opts)[x]
      BY <1>1, <2>4
    <2>6. QED
      BY <2>3, <2>4, <2>5 DEF x
  <1>12. ASSUME NEW i \in 1..n, NEW x \in 1..l(i)
         PROVE  F(o + (d[i - 1] + x), i) /\ ss[o + (d[i - 1] + x)] = SegmentsOf(ms, i, opts)[x]
    <2>1. /\ o + (d[i - 1] + x) \in Nat /\ o + d[i - 1] < o + (d[i - 1] + x)
          /\ o + (d[i - 1] + x) <= o + d[i]
      BY <1>1, <1>2
    <2>2. QED
      BY <1>1, <1>6, <2>1
  <1>13. QED
    BY <1>8, <1>9, <1>10, <1>11, <1>12 DEF Ordered, n, l, F

\* How the calls of message i are shown.
CallsShown(ms, i, opts) ==
    {Shown("call", ms[i].calls[k].id, CallAs(ms, i, ms[i].calls[k], opts)) : k \in DOMAIN ms[i].calls}

\* What the segments of a prompt say: calls as their messages say, or made up; results,
\* each in a segment of its own, as a result after its call, or in prose.
Tell(ss, ms, opts) ==
    /\ ss \in Seq(Segments)
    /\ \A y, z \in 1..Len(ss) : y <= z => ss[y].of <= ss[z].of
    /\ \A y \in 1..Len(ss) : \A s \in ToSet(ss[y].shown) :
         \/ s.what = "call" /\ \E i \in 1..Len(ms) :
              s \in CallsShown(ms, i, opts) /\ ToSet(ss[y].shown) = CallsShown(ms, i, opts)
         \/ /\ s.what = "call" /\ s.as = "xml"
            /\ \A i \in 1..Len(ms) : \A k \in DOMAIN ms[i].calls : ms[i].calls[k].id # s.id
         \/ /\ s.what = "result" /\ ss[y].shown = <<s>>
            /\ ss[y].kind = (IF s.as = "xml" THEN "result" ELSE "user")
            /\ \E i \in 1..Len(ms) :
                 ms[i].role = "tool" /\ s.id = ms[i].id /\ s.as = ResultAs(ms, i, opts)
    /\ \A y \in 1..Len(ss) : ss[y].kind = "result" =>
         \E a \in 1..y - 1 :
           /\ Shown("call", ss[y].shown[1].id, "xml") \in ToSet(ss[a].shown)
           /\ \A w \in 1..Len(ss) : a < w /\ w <= y =>
                ss[w].kind = "result" \/ \E s \in ToSet(ss[a].shown) : s.as # "xml"
    /\ \A i \in 1..Len(ms) :
         /\ ms[i].role = "assistant" /\ (ms[i].text # "none" \/ ms[i].calls # <<>>) =>
              \E y \in 1..Len(ss) : /\ ss[y].of = ms[i].of /\ ss[y].hasText = (ms[i].text # "none")
                                    /\ ToSet(ss[y].shown) = CallsShown(ms, i, opts)
         /\ ms[i].role = "tool" =>
              \E y \in 1..Len(ss) :
                /\ ss[y].of = ms[i].of
                /\ Shown("result", ms[i].id, ResultAs(ms, i, opts)) \in ToSet(ss[y].shown)
         /\ ms[i].role = "user" /\ ms[i].text # "none" =>
              \E y \in 1..Len(ss) : ss[y].of = ms[i].of /\ ss[y].hasText

\* What the prompt tells of the messages.
LEMMA PromptTells ==
  ASSUME NEW ms, NEW ts, NEW texts, NEW api, IsConversation(ts, texts), Written(ms, ts, texts, api),
         NEW opts
  PROVE  Tell(BuildQwenMessages(ms, opts), ms, opts)
  <1> DEFINE n == Len(ms)
             ss == BuildQwenMessages(ms, opts)
             S(i) == SegmentsOf(ms, i, opts)
  <1>1. ss \in Seq(Segments) /\ \E o, d : Placed(ss, ms, opts, o, d)
    BY SegmentsArePlaced
  <1> HIDE DEF ss
  <1>2. PICK o, d : Placed(ss, ms, opts, o, d)
    BY <1>1
  <1> DEFINE F(y, i) == From(y, ms, opts, o, d, i)
             X(y, i) == y - o - d[i - 1]
             P(i, x) == o + (d[i - 1] + x)
  <1>3. n \in Nat /\ o \in {0, 1} /\ Len(ss) \in Nat
    <2>1. n \in Nat
      BY MessageFacts
    <2>2. QED
      BY <1>1, <1>2, <2>1, LenProperties DEF Placed
  <1>4. /\ \A y \in 1..Len(ss) : (o = 1 /\ y = 1) \/ \E i \in 1..n : F(y, i)
        /\ o = 1 => \A i \in 1..n : ~F(1, i)
        /\ \A i, j \in 1..n, y, z \in Nat : F(y, i) /\ F(z, j) /\ y <= z => i <= j
        /\ \A i \in 1..n, y \in Nat : F(y, i) =>
             y \in 1..Len(ss) /\ X(y, i) \in 1..Len(S(i)) /\ ss[y] = S(i)[X(y, i)]
        /\ \A i \in 1..n : \A x \in 1..Len(S(i)) : F(P(i, x), i) /\ ss[P(i, x)] = S(i)[x]
    <2>1. Placed(ss, ms, opts, o, d) /\ Len(ms) \in Nat
      BY <1>2, <1>3
    <2>2. Ordered(ss, ms, opts, o, d)
      BY ONLY <2>1, Origins
    <2>3. QED
      BY <2>2 DEF Ordered
  <1>5. \A i \in 1..n : d[i - 1] \in Nat
    <2>1. \A i \in 1..n : i - 1 \in 0..n
      BY <1>3
    <2>2. QED
      BY <1>2, <2>1 DEF Placed, Growing
  <1>6. o = 1 => ss[1].of = 0 /\ ss[1].kind = "system" /\ ss[1].shown = <<>>
    BY <1>2 DEF Placed, Segment
  <1>7. ASSUME NEW i \in 1..n
        PROVE  /\ ms[i].role \in {"user", "assistant", "tool"} /\ ms[i].of \in Nat
               /\ ms[i].calls \in Seq(Calls) /\ ms[i].id \in Nat \cup {None}
               /\ \A x \in 1..Len(S(i)) : S(i)[x].of = ms[i].of /\ S(i)[x].kind # "system"
    <2>1. Parts(S(i), ms, i)
      BY <1>2 DEF Placed
    <2>2. QED
      BY <2>1, MessageFacts DEF Parts
  <1>8. ASSUME NEW i \in 1..n, ms[i].role = "user"
        PROVE  /\ \A x \in 1..Len(S(i)) : S(i)[x].kind = "user" /\ S(i)[x].shown = <<>>
               /\ ms[i].text # "none" => Len(S(i)) = 1 /\ S(i)[1].hasText
    BY <1>7, <1>8, UserSegmentsAre
  <1>9. ASSUME NEW i \in 1..n, ms[i].role = "assistant"
        PROVE  /\ Len(S(i)) \in {0, 1} /\ (ms[i].text # "none" \/ ms[i].calls # <<>> => Len(S(i)) = 1)
               /\ \A x \in 1..Len(S(i)) :
                    /\ S(i)[x].kind = "assist" /\ S(i)[x].hasText = (ms[i].text # "none")
                    /\ ToSet(S(i)[x].shown) = CallsShown(ms, i, opts)
    <2>1. /\ Len(S(i)) \in {0, 1} /\ (ms[i].text # "none" \/ ms[i].calls # <<>> => Len(S(i)) = 1)
          /\ \A x \in 1..Len(S(i)) :
               /\ S(i)[x].kind = "assist" /\ S(i)[x].hasText = (ms[i].text # "none")
               /\ DOMAIN S(i)[x].shown = DOMAIN ms[i].calls
               /\ \A k \in DOMAIN ms[i].calls :
                    S(i)[x].shown[k] = Shown("call", ms[i].calls[k].id, CallAs(ms, i, ms[i].calls[k], opts))
      BY <1>7, <1>9, AssistantSegmentsAre
    <2> HIDE DEF S
    <2>2. \A x \in 1..Len(S(i)) : ToSet(S(i)[x].shown) = CallsShown(ms, i, opts)
      BY <2>1 DEF ToSet, CallsShown
    <2>3. QED
      BY <2>1, <2>2
  <1> DEFINE as(i) == ResultAs(ms, i, opts)
             made(i) == as(i) = "xml" /\ CallTurns(ms, i) = {}
  <1>10. ASSUME NEW i \in 1..n, ms[i].role = "tool"
         PROVE  /\ Len(S(i)) = (IF made(i) THEN 2 ELSE 1)
                /\ S(i)[Len(S(i))].shown = <<Shown("result", ms[i].id, as(i))>>
                /\ S(i)[Len(S(i))].kind = (IF as(i) = "xml" THEN "result" ELSE "user")
                /\ made(i) => S(i)[1].shown = <<Shown("call", ms[i].id, "xml")>> /\ S(i)[1].kind = "assist"
    BY <1>7, <1>10, ResultSegmentsAre
  <1>11. ASSUME NEW i \in 1..n, ms[i].role = "tool"
         PROVE  \/ ~made(i) /\ \E j \in 1..i - 1 : \E k \in DOMAIN ms[j].calls : Answers(ms, i, j, k, opts)
                \/ made(i) /\ Orphaned(ms, i, opts)
    <2>1. CASE Orphaned(ms, i, opts)
      BY <2>1 DEF Orphaned
    <2>2. ASSUME NEW j \in 1..i - 1, NEW k \in DOMAIN ms[j].calls, Answers(ms, i, j, k, opts)
          PROVE  ~made(i)
      BY <2>2 DEF Answers
    <2>3. QED
      BY <1>11, <2>1, <2>2, Fate
  <1> HIDE DEF n, S, F, X, P, made
  \* The order of the segments.
  <1>12. \A y, z \in 1..Len(ss) : y <= z => ss[y].of <= ss[z].of
    <2> SUFFICES ASSUME NEW y \in 1..Len(ss), NEW z \in 1..Len(ss), y <= z PROVE ss[y].of <= ss[z].of
      OBVIOUS
    <2>1. \A w \in 1..Len(ss) : \A i \in 1..n : F(w, i) => ss[w].of = ms[i].of /\ ms[i].of \in Nat
      BY <1>4, <1>7
    <2>2. CASE o = 1 /\ y = 1
      <3>1. ss[y].of = 0 /\ ss[z].of \in Nat
        BY <1>4, <1>6, <2>1, <2>2
      <3>2. QED
        BY <3>1
    <2>3. CASE ~(o = 1 /\ y = 1)
      <3>1. ~(o = 1 /\ z = 1)
        BY <2>3
      <3>2. PICK i \in 1..n : F(y, i)
        BY <1>4, <2>3
      <3>3. PICK j \in 1..n : F(z, j)
        BY <1>4, <3>1
      <3>4. i <= j
        BY <1>4, <3>2, <3>3
      <3>5. ms[i].of <= ms[j].of
        BY <3>4 DEF Written, n
      <3>6. QED
        BY <2>1, <3>2, <3>3, <3>5
    <2>4. QED
      BY <2>2, <2>3
  \* What they show.
  <1>13. ASSUME NEW y \in 1..Len(ss), NEW s \in ToSet(ss[y].shown)
         PROVE  \/ s.what = "call" /\ \E i \in 1..n :
                     s \in CallsShown(ms, i, opts) /\ ToSet(ss[y].shown) = CallsShown(ms, i, opts)
                \/ /\ s.what = "call" /\ s.as = "xml"
                   /\ \A i \in 1..n : \A k \in DOMAIN ms[i].calls : ms[i].calls[k].id # s.id
                \/ /\ s.what = "result" /\ ss[y].shown = <<s>>
                   /\ ss[y].kind = (IF s.as = "xml" THEN "result" ELSE "user")
                   /\ \E i \in 1..n : ms[i].role = "tool" /\ s.id = ms[i].id /\ s.as = as(i)
    <2>1. ss[y].shown # <<>> /\ \A x : ss[y].shown = <<x>> => s = x
      BY <1>13 DEF ToSet
    <2>2. PICK i \in 1..n : F(y, i)
      BY <1>4, <1>6, <2>1
    <2>3. X(y, i) \in 1..Len(S(i)) /\ ss[y] = S(i)[X(y, i)]
      BY <1>4, <2>2
    <2>4. CASE ms[i].role = "user"
      BY <1>8, <2>1, <2>3, <2>4
    <2>5. CASE ms[i].role = "assistant"
      <3>1. ToSet(ss[y].shown) = CallsShown(ms, i, opts)
        BY <1>9, <2>3, <2>5
      <3>2. s.what = "call"
        BY <3>1 DEF CallsShown, Shown
      <3>3. QED
        BY <3>1, <3>2
    <2>6. CASE ms[i].role = "tool"
      <3> DEFINE r == Shown("result", ms[i].id, as(i))
                 c == Shown("call", ms[i].id, "xml")
      <3>1. CASE X(y, i) = Len(S(i))
        <4>1. ss[y].shown = <<r>> /\ ss[y].kind = (IF as(i) = "xml" THEN "result" ELSE "user")
          BY <1>10, <2>3, <2>6, <3>1
        <4>2. s = r
          BY <2>1, <4>1
        <4>3. s.what = "result" /\ s.id = ms[i].id /\ s.as = as(i)
          BY <4>2 DEF Shown
        <4> HIDE DEF r, as
        <4>4. QED
          BY <2>6, <4>1, <4>2, <4>3
      <3>2. CASE X(y, i) # Len(S(i))
        <4>1. made(i) /\ X(y, i) = 1
          BY <1>10, <2>3, <2>6, <3>2
        <4>2. ss[y].shown = <<c>>
          BY <1>10, <2>3, <2>6, <4>1
        <4>3. s.what = "call" /\ s.as = "xml" /\ s.id = ms[i].id
          BY <2>1, <4>2 DEF Shown
        <4>4. Orphaned(ms, i, opts)
          BY <1>11, <2>6, <4>1
        <4>5. QED
          BY <4>3, <4>4 DEF Orphaned, n
      <3>3. QED
        BY <3>1, <3>2
    <2>7. QED
      BY <1>7, <2>4, <2>5, <2>6
  \* A result comes after its call, right after it but for results.
  <1>14. ASSUME NEW y \in 1..Len(ss), ss[y].kind = "result"
         PROVE  \E a \in 1..y - 1 :
                  /\ Shown("call", ss[y].shown[1].id, "xml") \in ToSet(ss[a].shown)
                  /\ \A w \in 1..Len(ss) : a < w /\ w <= y =>
                       ss[w].kind = "result" \/ \E s \in ToSet(ss[a].shown) : s.as # "xml"
    <2>1. PICK i \in 1..n : F(y, i)
      BY <1>4, <1>6, <1>14
    <2>2. X(y, i) \in 1..Len(S(i)) /\ ss[y] = S(i)[X(y, i)]
      BY <1>4, <2>1
    <2>3. ms[i].role = "tool"
      BY <1>7, <1>8, <1>9, <1>14, <2>2
    <2>4. X(y, i) = Len(S(i)) /\ as(i) = "xml"
      BY <1>10, <1>14, <2>2, <2>3
    <2>5. ss[y].shown[1].id = ms[i].id
      <3>1. ss[y].shown = <<Shown("result", ms[i].id, as(i))>>
        BY <1>10, <2>2, <2>3, <2>4
      <3>2. QED
        BY <3>1 DEF Shown
    <2>6. d[i - 1] \in Nat /\ y \in Nat
      BY <1>3, <1>5
    <2>7. CASE made(i)
      <3> DEFINE a == P(i, 1)
      <3>1. Len(S(i)) = 2
        BY <1>10, <2>3, <2>7
      <3>2. a = y - 1 /\ y - 1 \in 1..y - 1
        <4>1. y - o - d[i - 1] = 2 /\ a = o + (d[i - 1] + 1)
          BY <2>4, <3>1 DEF X, P
        <4> HIDE DEF a
        <4>2. QED
          BY <1>3, <2>6, <4>1
      <3>3. ss[a] = S(i)[1]
        BY <1>4, <3>1
      <3>4. Shown("call", ms[i].id, "xml") \in ToSet(ss[a].shown)
        <4>1. ss[a].shown = <<Shown("call", ms[i].id, "xml")>>
          BY <1>10, <2>3, <2>7, <3>3
        <4> HIDE DEF a
        <4>2. QED
          BY <4>1 DEF ToSet
      <3>5. \A w \in 1..Len(ss) : a < w /\ w <= y => w = y
        <4> HIDE DEF a
        <4>1. QED
          BY <1>3, <2>6, <3>2
      <3> HIDE DEF a
      <3>6. QED
        BY <1>14, <2>5, <3>2, <3>4, <3>5
    <2>8. CASE ~made(i)
      <3>1. PICK j \in 1..i - 1 : \E k \in DOMAIN ms[j].calls : Answers(ms, i, j, k, opts)
        BY <1>11, <2>3, <2>8
      <3>2. PICK k \in DOMAIN ms[j].calls : Answers(ms, i, j, k, opts)
        BY <3>1
      <3>3. j \in 1..n /\ j < i /\ i \in Nat /\ j \in Nat
        BY <1>3
      <3>4. ms[j].role = "assistant" /\ ms[j].calls # <<>>
        BY <3>2, <3>3 DEF Written, n
      <3>5. Len(S(j)) = 1 /\ ToSet(S(j)[1].shown) = CallsShown(ms, j, opts)
        BY <1>9, <3>3, <3>4
      <3> DEFINE a == P(j, 1)
      <3>6. F(a, j) /\ ss[a] = S(j)[1] /\ a \in Nat
        <4>1. F(a, j) /\ ss[a] = S(j)[1]
          BY <1>4, <3>3, <3>5
        <4>2. d[j - 1] \in Nat
          BY <1>5, <3>3
        <4>3. a \in Nat
          BY <1>3, <4>2 DEF P
        <4>4. QED
          BY <4>1, <4>3
      <3> HIDE DEF a
      <3>7. a \in 1..Len(ss) /\ a < y
        <4>1. a \in 1..Len(ss)
          BY <1>4, <3>3, <3>6
        <4>2. ~(y <= a)
          BY <1>4, <2>1, <2>6, <3>3, <3>6
        <4>3. QED
          BY <2>6, <3>6, <4>1, <4>2
      <3>8. ToSet(ss[a].shown) = CallsShown(ms, j, opts)
        BY <3>5, <3>6
      <3>9. Shown("call", ss[y].shown[1].id, "xml") \in ToSet(ss[a].shown)
        <4>1. ms[j].calls[k].id = ms[i].id /\ CallAs(ms, j, ms[j].calls[k], opts) = "xml"
          BY <2>4, <3>2 DEF Answers
        <4>2. Shown("call", ms[i].id, "xml") \in CallsShown(ms, j, opts)
          BY <4>1 DEF CallsShown
        <4>3. QED
          BY <2>5, <3>8, <4>2
      <3>10. ASSUME NEW w \in 1..Len(ss), a < w, w <= y
             PROVE  ss[w].kind = "result" \/ \E s \in ToSet(ss[a].shown) : s.as # "xml"
        <4>1. PICK m \in 1..n : F(w, m)
          <5>1. ~(o = 1 /\ w = 1)
            BY <3>7, <3>10
          <5>2. QED
            BY <1>4, <5>1
        <4>2. X(w, m) \in 1..Len(S(m)) /\ ss[w] = S(m)[X(w, m)] /\ w \in Nat /\ m \in Nat
          BY <1>3, <1>4, <4>1
        <4>3. j <= m /\ m <= i
          <5>1. j <= m
            BY <1>4, <3>3, <3>6, <3>10, <4>1, <4>2
          <5>2. m <= i
            BY <1>4, <2>1, <2>6, <3>10, <4>1, <4>2
          <5>3. QED
            BY <5>1, <5>2
        <4>4. m # j
          <5> SUFFICES ASSUME m = j PROVE FALSE
            OBVIOUS
          <5>1. X(w, j) = 1
            BY <3>5, <4>2
          <5>2. w = a
            <6>1. w - o - d[j - 1] = 1 /\ a = o + (d[j - 1] + 1) /\ d[j - 1] \in Nat
              BY <1>5, <3>3, <5>1 DEF X, P, a
            <6>2. QED
              BY <1>3, <4>2, <6>1
          <5>3. QED
            BY <3>6, <3>10, <5>2
        <4>5. CASE m = i
          <5>1. Len(S(i)) = 1
            BY <1>10, <2>3, <2>8
          <5>2. X(w, m) = Len(S(i))
            BY <4>2, <4>5, <5>1
          <5>3. QED
            BY <1>10, <2>3, <2>4, <4>2, <4>5, <5>2
        <4>6. CASE m # i
          <5>1. j < m /\ m < i
            BY <3>3, <4>2, <4>3, <4>4, <4>6
          <5>2. ms[m].role = "tool" /\ \E l \in DOMAIN ms[j].calls : ms[j].calls[l].id = ms[m].id
            BY <3>2, <5>1 DEF Answers, n
          <5>3. PICK l \in DOMAIN ms[j].calls : ms[j].calls[l].id = ms[m].id
            BY <5>2
          <5>4. ~made(m) /\ \E p \in 1..m - 1 : \E r \in DOMAIN ms[p].calls : Answers(ms, m, p, r, opts)
            <6>1. ~Orphaned(ms, m, opts)
              BY <3>3, <5>3 DEF Orphaned, n
            <6>2. QED
              BY <1>11, <5>2, <6>1
          <5>5. PICK p \in 1..m - 1 : \E r \in DOMAIN ms[p].calls : Answers(ms, m, p, r, opts)
            BY <5>4
          <5>6. PICK r \in DOMAIN ms[p].calls : Answers(ms, m, p, r, opts)
            BY <5>5
          <5>7. p = j /\ r = l
            <6>1. p \in 1..n /\ ms[p].calls[r].id = ms[j].calls[l].id
              BY <1>3, <5>3, <5>6 DEF Answers
            <6>2. QED
              BY <3>3, <5>3, <5>6, <6>1 DEF Written, n
          <5>8. as(m) = CallAs(ms, j, ms[j].calls[l], opts)
            BY <5>6, <5>7 DEF Answers
          <5>9. CASE as(m) = "xml"
            <6>1. Len(S(m)) = 1 /\ S(m)[Len(S(m))].kind = "result"
              BY <1>10, <5>2, <5>4, <5>9
            <6>2. X(w, m) = Len(S(m))
              BY <4>2, <6>1
            <6>3. QED
              BY <4>2, <6>1, <6>2
          <5>10. CASE as(m) # "xml"
            <6> DEFINE s == Shown("call", ms[j].calls[l].id, CallAs(ms, j, ms[j].calls[l], opts))
            <6>1. s \in CallsShown(ms, j, opts)
              BY <5>3 DEF CallsShown
            <6>2. s.as = CallAs(ms, j, ms[j].calls[l], opts)
              BY DEF Shown
            <6> HIDE DEF s, as
            <6>3. QED
              BY <3>8, <5>8, <5>10, <6>1, <6>2
          <5>11. QED
            BY <5>9, <5>10
        <4>7. QED
          BY <4>5, <4>6
      <3>11. QED
        BY <2>6, <3>6, <3>7, <3>9, <3>10
    <2>9. QED
      BY <2>7, <2>8
  \* Nothing is left out.
  <1>15. ASSUME NEW i \in 1..n, NEW x \in 1..Len(S(i))
         PROVE  \E y \in 1..Len(ss) : ss[y] = S(i)[x] /\ ss[y].of = ms[i].of
    <2>1. F(P(i, x), i) /\ ss[P(i, x)] = S(i)[x]
      BY <1>4
    <2>2. P(i, x) \in Nat
      BY <2>1 DEF F, From
    <2>3. P(i, x) \in 1..Len(ss)
      BY <1>4, <2>1, <2>2
    <2>4. QED
      BY <1>7, <2>1, <2>3
  <1>16. ASSUME NEW i \in 1..n
         PROVE  /\ ms[i].role = "assistant" /\ (ms[i].text # "none" \/ ms[i].calls # <<>>) =>
                     \E y \in 1..Len(ss) : /\ ss[y].of = ms[i].of /\ ss[y].hasText = (ms[i].text # "none")
                                           /\ ToSet(ss[y].shown) = CallsShown(ms, i, opts)
                /\ ms[i].role = "tool" =>
                     \E y \in 1..Len(ss) :
                       ss[y].of = ms[i].of /\ Shown("result", ms[i].id, as(i)) \in ToSet(ss[y].shown)
                /\ ms[i].role = "user" /\ ms[i].text # "none" =>
                     \E y \in 1..Len(ss) : ss[y].of = ms[i].of /\ ss[y].hasText
    <2>1. CASE ms[i].role = "assistant" /\ (ms[i].text # "none" \/ ms[i].calls # <<>>)
      <3>1. 1 \in 1..Len(S(i))
        BY <1>9, <2>1
      <3>2. PICK y \in 1..Len(ss) : ss[y] = S(i)[1] /\ ss[y].of = ms[i].of
        BY <1>15, <3>1
      <3>3. S(i)[1].hasText = (ms[i].text # "none") /\ ToSet(S(i)[1].shown) = CallsShown(ms, i, opts)
        BY <1>9, <2>1, <3>1
      <3>4. QED
        BY <2>1, <3>2, <3>3
    <2>2. CASE ms[i].role = "tool"
      <3>1. Len(S(i)) \in 1..Len(S(i))
        BY <1>10, <2>2
      <3>2. PICK y \in 1..Len(ss) : ss[y] = S(i)[Len(S(i))] /\ ss[y].of = ms[i].of
        BY <1>15, <3>1
      <3> DEFINE r == Shown("result", ms[i].id, as(i))
      <3>3. ss[y].shown = <<r>>
        BY <1>10, <2>2, <3>2
      <3>4. r \in ToSet(ss[y].shown)
        <4> HIDE DEF r
        <4>1. QED
          BY <3>3 DEF ToSet
      <3>5. QED
        BY <2>2, <3>2, <3>4
    <2>3. CASE ms[i].role = "user" /\ ms[i].text # "none"
      <3>1. 1 \in 1..Len(S(i)) /\ S(i)[1].hasText
        BY <1>8, <2>3
      <3>2. PICK y \in 1..Len(ss) : ss[y] = S(i)[1] /\ ss[y].of = ms[i].of
        BY <1>15, <3>1
      <3>3. QED
        BY <2>3, <3>1, <3>2
    <2>4. QED
      BY <2>1, <2>2, <2>3
  <1>17. Tell(ss, ms, opts)
    BY <1>1, <1>12, <1>13, <1>14, <1>16 DEF Tell, n
  <1>18. QED
    BY <1>17 DEF ss

-----------------------------------------------------------------------------
(* The letters of a prompt, and where it is cut *)

Separator(i) == IF i = 1 THEN 0 ELSE Gap

\* The letters of segment i: a separator after place e[i - 1], and then its own.
Lettered(v, ss, e) ==
    /\ v \in Seq(Nat) /\ Growing(e, Len(ss)) /\ e[Len(ss)] = Len(v)
    /\ \A i \in 1..Len(ss) :
         /\ e[i] = e[i - 1] + Separator(i) + ss[i].size
         /\ \A p \in Nat : e[i - 1] < p /\ p <= e[i] =>
              v[p] = IF p <= e[i - 1] + Separator(i) THEN 0 ELSE i

\* The types of segments.
LEMMA SegmentFacts ==
  ASSUME NEW ss \in Seq(Segments)
  PROVE  /\ Len(ss) \in Nat /\ DOMAIN ss = 1..Len(ss)
         /\ \A i \in 1..Len(ss) :
              ss[i].size \in Nat /\ ss[i].size > 0 /\ ss[i].of \in Nat /\ Separator(i) \in Nat
  <1>1. Len(ss) \in Nat /\ DOMAIN ss = 1..Len(ss)
    BY LenProperties
  <1>2. ASSUME NEW i \in 1..Len(ss)
        PROVE  ss[i].size \in Nat /\ ss[i].size > 0 /\ ss[i].of \in Nat /\ Separator(i) \in Nat
    <2>1. ss[i] \in Segments
      BY ElementOfSeq
    <2>2. QED
      BY <2>1, HistoryAssumption DEF Segments, Separator
  <1>3. QED
    BY <1>1, <1>2

\* The letters of a prompt, segment by segment.
LEMMA LettersAre ==
  ASSUME NEW ss \in Seq(Segments)
  PROVE  \E e : Lettered(Letters(ss), ss, e)
  <1> DEFINE n == Len(ss)
             z(i) == [g \in 1..(IF i = 1 THEN 0 ELSE Gap) |-> 0]
             w(i) == [u \in 1..ss[i].size |-> i]
             q == [i \in DOMAIN ss |-> z(i) \o w(i)]
             v == Letters(ss)
  <1>1. /\ n \in Nat /\ DOMAIN ss = 1..n
        /\ \A i \in 1..n : ss[i].size \in Nat /\ Separator(i) \in Nat
    BY SegmentFacts
  <1>2. v = FlattenSeq(q)
    BY DEF Letters
  <1>3. ASSUME NEW i \in 1..n
        PROVE  /\ q[i] \in Seq(Nat) /\ Len(q[i]) = Separator(i) + ss[i].size
               /\ \A k \in 1..Separator(i) : q[i][k] = 0
               /\ \A k \in 1..ss[i].size : q[i][Separator(i) + k] = i
    <2> DEFINE zi == z(i)
               wi == w(i)
               g == Separator(i)
               m == ss[i].size
    <2>1. g \in Nat /\ m \in Nat
      BY <1>1
    <2>2. zi = [k \in 1..g |-> 0] /\ wi = [k \in 1..m |-> i]
      BY DEF Separator
    <2>3. q[i] = zi \o wi
      BY <1>1
    <2>4. i \in Nat
      BY <1>1
    <2> HIDE DEF zi, wi, g, m, q
    <2>5. zi \in [1..g -> Nat] /\ wi \in [1..m -> Nat]
      BY <2>2, <2>4
    <2>6. zi \in Seq(Nat) /\ wi \in Seq(Nat)
      BY <2>1, <2>5, SeqDef
    <2>7. Len(zi) = g /\ Len(wi) = m
      BY <2>1, <2>5, <2>6, LenProperties
    <2>8. /\ zi \o wi \in Seq(Nat) /\ Len(zi \o wi) = Len(zi) + Len(wi)
          /\ \A k \in 1..Len(zi) : (zi \o wi)[k] = zi[k]
          /\ \A k \in 1..Len(wi) : (zi \o wi)[Len(zi) + k] = wi[k]
      BY ONLY <2>6, ConcatAt
    <2>9. (\A k \in 1..g : zi[k] = 0) /\ (\A k \in 1..m : wi[k] = i)
      BY <2>2
    <2>10. QED
      BY <2>3, <2>7, <2>8, <2>9 DEF g, m
  <1>4. q \in [1..n -> Seq(Nat)]
    <2>1. q = [i \in 1..n |-> q[i]]
      BY <1>1
    <2> HIDE DEF q
    <2>2. QED
      BY <1>3, <2>1
  <1>5. FlattenSeq(q) \in Seq(Nat) /\ \E e : Flat(q, n, FlattenSeq(q), e)
    <2> HIDE DEF q, n
    <2>1. QED
      BY <1>1, <1>4, Flattens
  <1> HIDE DEF q
  <1>6. PICK e : Flat(q, n, v, e)
    BY <1>2, <1>5
  <1> HIDE DEF v
  <1>7. /\ Growing(e, n) /\ e[n] = Len(v)
        /\ \A i \in 1..n : e[i - 1] \in Nat /\ e[i] = e[i - 1] + Len(q[i])
        /\ \A i \in 1..n : \A k \in 1..Len(q[i]) : v[e[i - 1] + k] = q[i][k]
    <2>1. \A i \in 1..n : i - 1 \in 0..n
      BY <1>1
    <2>2. QED
      BY <1>6, <2>1 DEF Flat, Growing
  <1>8. ASSUME NEW i \in 1..n
        PROVE  /\ e[i] = e[i - 1] + Separator(i) + ss[i].size
               /\ \A p \in Nat : e[i - 1] < p /\ p <= e[i] =>
                    v[p] = IF p <= e[i - 1] + Separator(i) THEN 0 ELSE i
    <2> DEFINE g == Separator(i)
               m == ss[i].size
               a == e[i - 1]
    <2>1. g \in Nat /\ m \in Nat /\ a \in Nat /\ e[i] = a + (g + m) /\ Len(q[i]) = g + m
      BY <1>1, <1>3, <1>7
    <2>2. /\ \A k \in 1..g : q[i][k] = 0
          /\ \A k \in 1..m : q[i][g + k] = i
          /\ \A k \in 1..g + m : v[a + k] = q[i][k]
      BY <1>3, <1>7
    <2> HIDE DEF g, m, a
    <2>3. ASSUME NEW p \in Nat, a < p, p <= a + (g + m)
          PROVE  v[p] = IF p <= a + g THEN 0 ELSE i
      <3> DEFINE k == p - a
      <3>1. k \in 1..g + m /\ a + k = p
        BY <2>1, <2>3
      <3> HIDE DEF k
      <3>2. v[p] = q[i][k]
        BY <2>2, <3>1
      <3>3. CASE p <= a + g
        <4>1. k \in 1..g
          BY <2>1, <3>1, <3>3
        <4>2. QED
          BY <2>2, <3>2, <3>3, <4>1
      <3>4. CASE ~(p <= a + g)
        <4>1. k - g \in 1..m /\ g + (k - g) = k
          BY <2>1, <3>1, <3>4
        <4>2. q[i][g + (k - g)] = i
          BY <2>2, <4>1
        <4>3. QED
          BY <3>2, <3>4, <4>1, <4>2
      <3>5. QED
        BY <3>3, <3>4
    <2>4. a + (g + m) = a + g + m
      BY <2>1
    <2>5. QED
      BY <2>1, <2>3, <2>4 DEF a, g, m
  <1>9. Lettered(v, ss, e)
    BY <1>2, <1>5, <1>7, <1>8 DEF Lettered
  <1>10. QED
    BY <1>9 DEF v

\* The letters of a segment are next to each other, in the order of the segments.
LEMMA LetterFacts ==
  ASSUME NEW ss \in Seq(Segments), NEW v, NEW e, Lettered(v, ss, e)
  PROVE  /\ \A i \in 1..Len(ss) :
              e[i - 1] \in Nat /\ e[i] \in Nat /\ e[i] = e[i - 1] + Separator(i) + ss[i].size
         /\ \A p \in 1..Len(v) : v[p] \in 0..Len(ss)
         /\ \A i \in 1..Len(ss), p \in Nat :
              p \in 1..Len(v) /\ v[p] = i <=> e[i - 1] + Separator(i) < p /\ p <= e[i]
         /\ \A p, r \in 1..Len(v) : p <= r /\ v[r] # 0 => v[p] <= v[r]
         /\ \A p \in 2..Len(v) : v[p] # 0 /\ v[p - 1] = 0 =>
              /\ p - 1 - Gap \in Nat
              /\ \A r \in Nat : p - Gap <= r /\ r < p => v[r] = 0
  <1> DEFINE n == Len(ss)
             s(i) == Separator(i)
             z == Len(v)
  <1>1. n \in Nat /\ \A i \in 1..n : ss[i].size \in Nat /\ ss[i].size > 0 /\ s(i) \in Nat
    BY SegmentFacts
  <1>2. /\ Growing(e, n) /\ e[n] = z /\ z \in Nat /\ v \in Seq(Nat)
        /\ \A i \in 1..n : e[i] = e[i - 1] + s(i) + ss[i].size
        /\ \A i \in 1..n, p \in Nat : e[i - 1] < p /\ p <= e[i] =>
             v[p] = IF p <= e[i - 1] + s(i) THEN 0 ELSE i
    BY LenProperties DEF Lettered
  <1>3. \A i \in 1..n : e[i - 1] \in Nat /\ e[i] \in Nat
    <2>1. \A i \in 1..n : i - 1 \in 0..n /\ i \in 0..n
      BY <1>1
    <2>2. QED
      BY <1>2, <2>1 DEF Growing
  <1>4. /\ \A p \in 1..z : \E i \in 1..n : e[i - 1] < p /\ p <= e[i]
        /\ \A i, j \in 1..n, p, r \in Nat :
             e[i - 1] < p /\ p <= e[i] /\ e[j - 1] < r /\ r <= e[j] /\ p <= r => i <= j
        /\ \A i \in 1..n, p \in Nat : e[i - 1] < p /\ p <= e[i] => p \in 1..z
    <2> HIDE DEF n, z
    <2>1. QED
      BY <1>1, <1>2, Places
  <1> HIDE DEF n, z, s
  <1>5. \A p \in 1..z : v[p] \in 0..n
    <2> SUFFICES ASSUME NEW p \in 1..z PROVE v[p] \in 0..n
      OBVIOUS
    <2>1. PICK i \in 1..n : e[i - 1] < p /\ p <= e[i]
      BY <1>4
    <2>2. v[p] = IF p <= e[i - 1] + s(i) THEN 0 ELSE i
      BY <1>2, <2>1
    <2>3. QED
      BY <1>1, <2>2
  <1>6. ASSUME NEW i \in 1..n, NEW p \in Nat
        PROVE  p \in 1..z /\ v[p] = i <=> e[i - 1] + s(i) < p /\ p <= e[i]
    <2>1. ASSUME e[i - 1] + s(i) < p, p <= e[i] PROVE p \in 1..z /\ v[p] = i
      <3>1. e[i - 1] < p /\ ~(p <= e[i - 1] + s(i))
        BY <1>1, <1>3, <2>1
      <3>2. QED
        BY <1>2, <1>4, <2>1, <3>1
    <2>2. ASSUME p \in 1..z, v[p] = i PROVE e[i - 1] + s(i) < p /\ p <= e[i]
      <3>1. PICK j \in 1..n : e[j - 1] < p /\ p <= e[j]
        BY <1>4, <2>2
      <3>2. v[p] = IF p <= e[j - 1] + s(j) THEN 0 ELSE j
        BY <1>2, <3>1
      <3>3. i # 0
        BY <1>1
      <3>4. j = i /\ ~(p <= e[j - 1] + s(j))
        BY <2>2, <3>2, <3>3
      <3>5. QED
        BY <1>1, <1>3, <3>1, <3>4
    <2>3. QED
      BY <2>1, <2>2
  <1>7. ASSUME NEW p \in 1..z, NEW r \in 1..z, p <= r, v[r] # 0
        PROVE  v[p] <= v[r]
    <2>1. PICK i \in 1..n : e[i - 1] < p /\ p <= e[i]
      BY <1>4
    <2>2. PICK j \in 1..n : e[j - 1] < r /\ r <= e[j]
      BY <1>4
    <2>3. v[p] \in {0, i} /\ v[r] = j /\ p \in Nat /\ r \in Nat
      BY <1>2, <1>7, <2>1, <2>2
    <2>4. i <= j
      BY <1>4, <1>7, <2>1, <2>2, <2>3
    <2>5. QED
      BY <1>1, <2>3, <2>4
  <1>8. ASSUME NEW p \in 2..z, v[p] # 0, v[p - 1] = 0
        PROVE  /\ p - 1 - Gap \in Nat
               /\ \A r \in Nat : p - Gap <= r /\ r < p => v[r] = 0
    <2>1. p \in 1..z /\ p \in Nat /\ p - 1 \in 1..z /\ p - 1 \in Nat
      BY <1>2
    <2>2. PICK i \in 1..n : e[i - 1] < p /\ p <= e[i]
      BY <1>4, <2>1
    <2>3. e[i - 1] + s(i) < p /\ e[i - 1] \in Nat /\ s(i) \in Nat /\ e[i] \in Nat
      BY <1>1, <1>2, <1>3, <1>8, <2>1, <2>2
    <2>4. ~(e[i - 1] + s(i) < p - 1)
      <3>1. i # 0
        BY <1>1
      <3>2. ~(e[i - 1] + s(i) < p - 1 /\ p - 1 <= e[i])
        BY <1>6, <1>8, <2>1, <3>1
      <3>3. QED
        BY <2>1, <2>2, <2>3, <3>2
    <2>5. p - 1 = e[i - 1] + s(i)
      BY <2>1, <2>3, <2>4
    <2>6. i # 1
      <3> SUFFICES ASSUME i = 1 PROVE FALSE
        OBVIOUS
      <3>1. e[i - 1] = 0 /\ s(i) = 0
        BY <1>2 DEF Growing, s, Separator
      <3>2. QED
        BY <2>1, <2>5, <3>1
    <2>7. s(i) = Gap /\ Gap \in Nat
      BY <2>6, HistoryAssumption DEF s, Separator
    <2>8. ASSUME NEW r \in Nat, p - Gap <= r, r < p PROVE v[r] = 0
      <3>1. e[i - 1] < r /\ r <= e[i - 1] + s(i) /\ r <= e[i]
        BY <2>1, <2>2, <2>3, <2>5, <2>7, <2>8
      <3>2. QED
        BY <1>2, <3>1
    <2>9. QED
      BY <2>1, <2>3, <2>5, <2>7, <2>8
  <1>9. \A i \in 1..n : e[i] = e[i - 1] + s(i) + ss[i].size
    BY <1>2
  <1>10. QED
    BY <1>3, <1>5, <1>6, <1>7, <1>8, <1>9 DEF n, z, s

\* Where the prompt is cut: inline begins at q, and g letters of a separator go.
Cut(sp, v, q, g) ==
    /\ q \in 1..Len(v) + 1 /\ g \in Nat /\ q - 1 - g \in Nat
    /\ sp.older \in Seq(Nat) /\ Len(sp.older) = q - 1 - g
    /\ \A p \in 1..q - 1 - g : sp.older[p] = v[p]
    /\ sp.inline \in Seq(Nat) /\ Len(sp.inline) = Len(v) - q + 1
    /\ \A p \in 1..Len(v) - q + 1 : sp.inline[p] = v[q + p - 1]
    /\ Len(sp.inline) <= MaxInline
    /\ \A p \in Nat : q - g <= p /\ p < q => v[p] = 0

\* Two parts of a sequence.
LEMMA TwoParts ==
  ASSUME NEW v \in Seq(Nat), NEW q \in 1..Len(v) + 1, NEW g \in Nat, q - 1 - g \in Nat,
         Len(v) - q + 1 <= MaxInline,
         \A p \in Nat : q - g <= p /\ p < q => v[p] = 0
  PROVE  Cut([older |-> SubSeq(v, 1, q - 1 - g), inline |-> SubSeq(v, q, Len(v))], v, q, g)
  <1> DEFINE n == Len(v)
             b == q - 1 - g
             x == SubSeq(v, 1, b)
             y == SubSeq(v, q, n)
  <1>1. n \in Nat /\ b \in Nat /\ q \in Nat /\ q \in 1..n + 1 /\ b <= n
    BY LenProperties
  <1>2. \A p \in 1..n : v[p] \in Nat
    BY ElementOfSeq
  <1> HIDE DEF n
  <1>3. x \in Seq(Nat) /\ Len(x) = b /\ \A p \in 1..b : x[p] = v[p]
    <2> HIDE DEF b
    <2>1. 1 \in Int /\ b \in Int /\ \A p \in 1..b : v[p] \in Nat
      BY <1>1, <1>2
    <2>2. /\ x \in Seq(Nat) /\ Len(x) = (IF 1 <= b THEN b - 1 + 1 ELSE 0)
          /\ \A p \in 1..b - 1 + 1 : x[p] = v[1 + p - 1]
      BY ONLY <2>1, SubSeqProperties
    <2>3. (IF 1 <= b THEN b - 1 + 1 ELSE 0) = b /\ b - 1 + 1 = b /\ \A p \in 1..b : 1 + p - 1 = p
      BY <1>1
    <2> HIDE DEF x
    <2>4. QED
      BY <2>2, <2>3
  <1>4. y \in Seq(Nat) /\ Len(y) = n - q + 1 /\ \A p \in 1..n - q + 1 : y[p] = v[q + p - 1]
    <2>1. q \in Int /\ n \in Int /\ \A p \in q..n : v[p] \in Nat
      BY <1>1, <1>2
    <2>2. /\ y \in Seq(Nat) /\ Len(y) = (IF q <= n THEN n - q + 1 ELSE 0)
          /\ \A p \in 1..n - q + 1 : y[p] = v[q + p - 1]
      BY ONLY <2>1, SubSeqProperties
    <2>3. (IF q <= n THEN n - q + 1 ELSE 0) = n - q + 1
      BY <1>1
    <2>4. QED
      BY <2>2, <2>3
  <1>5. n - q + 1 <= MaxInline
    BY DEF n
  <1> HIDE DEF x, y, b
  <1>6. QED
    <2> DEFINE sp == [older |-> x, inline |-> y]
    <2>1. sp.older = x /\ sp.inline = y
      OBVIOUS
    <2> HIDE DEF sp
    <2>2. q - 1 - g = b
      BY DEF b
    <2>3. Cut(sp, v, q, g)
      BY <1>1, <1>3, <1>4, <1>5, <2>1, <2>2 DEF Cut, n
    <2>4. QED
      BY <2>3 DEF sp, x, y, b, n

\* The split of a prompt is one cut of its letters.
LEMMA Splits ==
  ASSUME NEW ss \in Seq(Segments), NEW e, Lettered(Letters(ss), ss, e)
  PROVE  \E q, g : Cut(SplitPrompt(ss), Letters(ss), q, g)
  <1> DEFINE v == Letters(ss)
             n == Len(v)
             fits == {p \in CutPoints(ss, v) : n - p + 1 <= MaxInline}
             sp == SplitPrompt(ss)
  <1>1. v \in Seq(Nat)
    BY DEF Lettered
  <1>2. n \in Nat /\ MaxInline \in Nat /\ MaxInline > 0
    BY <1>1, LenProperties, HistoryAssumption
  <1>3. sp = IF n <= MaxInline THEN [older |-> <<>>, inline |-> v]
             ELSE IF fits # {} THEN [older |-> Older(v, Min(fits)), inline |-> SubSeq(v, Min(fits), n)]
             ELSE [older |-> SubSeq(v, 1, n - MaxInline), inline |-> SubSeq(v, n - MaxInline + 1, n)]
    BY DEF SplitPrompt
  <1>4. \A p \in fits :
          /\ p \in 2..n /\ n - p + 1 <= MaxInline /\ p - 1 - Gap \in Nat
          /\ \A r \in Nat : p - Gap <= r /\ r < p => v[r] = 0
    <2>1. \A p \in fits : p \in 2..n /\ v[p] # 0 /\ v[p - 1] = 0 /\ n - p + 1 <= MaxInline
      BY DEF CutPoints
    <2>2. \A p \in 2..n : v[p] # 0 /\ v[p - 1] = 0 =>
              p - 1 - Gap \in Nat /\ \A r \in Nat : p - Gap <= r /\ r < p => v[r] = 0
      BY LetterFacts
    <2>3. QED
      BY <2>1, <2>2
  <1> HIDE DEF v, sp, fits
  <1>5. CASE n <= MaxInline
    <2>1. sp.older = <<>> /\ sp.inline = v
      BY <1>3, <1>5
    <2>2. <<>> \in Seq(Nat) /\ Len(<<>>) = 0
      BY EmptySeq
    <2>3. Cut(sp, v, 1, 0)
      <3>1. 1 - 1 - 0 = 0 /\ n - 1 + 1 = n /\ \A p \in 1..n : 1 + p - 1 = p
        BY <1>2
      <3>2. 1 \in 1..n + 1 /\ 0 \in Nat /\ (\A p \in Nat : ~(1 - 0 <= p /\ p < 1)) /\ \A p \in 1..0 : FALSE
        BY <1>2
      <3> HIDE DEF n
      <3>3. Len(v) = n
        BY DEF n
      <3>4. QED
        BY <1>1, <1>5, <2>1, <2>2, <3>1, <3>2, <3>3 DEF Cut
    <2>4. QED
      BY <2>3 DEF sp, v
  <1>6. CASE ~(n <= MaxInline) /\ fits # {}
    <2> DEFINE q == Min(fits)
    <2>1. fits \in SUBSET Nat
      BY <1>4
    <2>2. \E x \in fits : \A y \in fits : x <= y
      BY <1>6, <2>1, Least
    <2>3. q \in fits
      BY <2>2 DEF Min
    <2> HIDE DEF q
    <2>4. q \in 1..n + 1 /\ Gap \in Nat /\ q - 1 - Gap \in Nat /\ n - q + 1 <= MaxInline
          /\ \A p \in Nat : q - Gap <= p /\ p < q => v[p] = 0
      BY <1>2, <1>4, <2>3, HistoryAssumption
    <2>5. Cut([older |-> SubSeq(v, 1, q - 1 - Gap), inline |-> SubSeq(v, q, n)], v, q, Gap)
      BY ONLY <1>1, <2>4, TwoParts DEF n
    <2>6. sp = [older |-> SubSeq(v, 1, q - 1 - Gap), inline |-> SubSeq(v, q, n)]
      BY <1>3, <1>6 DEF q, Older
    <2>7. QED
      BY <2>5, <2>6 DEF sp, v
  <1>7. CASE ~(n <= MaxInline) /\ fits = {}
    <2> DEFINE q == n - MaxInline + 1
    <2>1. q \in 1..n + 1 /\ 0 \in Nat /\ q - 1 - 0 \in Nat /\ n - q + 1 <= MaxInline
          /\ (\A p \in Nat : q - 0 <= p /\ p < q => v[p] = 0) /\ q - 1 - 0 = n - MaxInline
      <3> HIDE DEF n
      <3>1. QED
        BY <1>2, <1>7
    <2> HIDE DEF q
    <2>2. Cut([older |-> SubSeq(v, 1, q - 1 - 0), inline |-> SubSeq(v, q, n)], v, q, 0)
      BY ONLY <1>1, <2>1, TwoParts DEF n
    <2>3. sp = [older |-> SubSeq(v, 1, q - 1 - 0), inline |-> SubSeq(v, q, n)]
      BY <1>3, <1>7, <2>1 DEF q
    <2>4. QED
      BY <2>2, <2>3 DEF sp, v
  <1>8. QED
    BY <1>5, <1>6, <1>7

\* Older and inline are the whole prompt, without the separator between them.
Without(w, v, q, g) ==
    /\ DOMAIN w = 1..Len(v) - g
    /\ \A p \in 1..Len(v) - g : w[p] = IF p <= q - 1 - g THEN v[p] ELSE v[p + g]

\* The two parts have the letters, but for the separator.
LEMMA PartsAre ==
  ASSUME NEW v \in Seq(Nat), NEW q, NEW g, NEW sp, Cut(sp, v, q, g)
  PROVE  Without(sp.older \o sp.inline, v, q, g)
  <1> DEFINE n == Len(v)
             x == sp.older
             y == sp.inline
             b == q - 1 - g
             c == n - q + 1
             w == x \o y
  <1>1. /\ x \in Seq(Nat) /\ Len(x) = b /\ \A p \in 1..b : x[p] = v[p]
        /\ y \in Seq(Nat) /\ Len(y) = c /\ \A p \in 1..c : y[p] = v[q + p - 1]
        /\ q \in 1..n + 1 /\ g \in Nat /\ b \in Nat
    BY DEF Cut
  <1>2. n \in Nat
    BY LenProperties
  <1> HIDE DEF x, y, n
  <1>3. /\ w \in Seq(Nat) /\ Len(w) = Len(x) + Len(y)
        /\ \A k \in 1..Len(x) : w[k] = x[k]
        /\ \A k \in 1..Len(y) : w[Len(x) + k] = y[k]
    <2>1. x \in Seq(Nat) /\ y \in Seq(Nat)
      BY <1>1
    <2>2. QED
      BY ONLY <2>1, ConcatAt
  <1> HIDE DEF w
  <1>4. DOMAIN w = 1..Len(w)
    BY <1>3, LenProperties
  <1>5. b + c = n - g /\ c \in Nat /\ n - g \in Nat
    BY <1>1, <1>2
  <1>6. ASSUME NEW p \in 1..n - g
        PROVE  w[p] = IF p <= b THEN v[p] ELSE v[p + g]
    <2>1. CASE p <= b
      <3>1. p \in 1..b
        BY <1>1, <1>5, <2>1
      <3>2. QED
        BY <1>1, <1>3, <2>1, <3>1
    <2>2. CASE ~(p <= b)
      <3>1. p - b \in 1..c /\ b + (p - b) = p /\ q + (p - b) - 1 = p + g
        BY <1>1, <1>2, <1>5, <2>2
      <3> HIDE DEF b, c
      <3>2. w[b + (p - b)] = y[p - b] /\ y[p - b] = v[q + (p - b) - 1]
        BY <1>1, <1>3, <3>1
      <3>3. QED
        BY <2>2, <3>1, <3>2
    <2>3. QED
      BY <2>1, <2>2
  <1>7. Len(w) = n - g
    BY <1>1, <1>3, <1>5
  <1>8. QED
    BY <1>4, <1>6, <1>7 DEF Without, w, x, y, n

PlacesOf(w, i) == {p \in DOMAIN w : w[p] = i}

\* The two parts have all letters of every segment.
LEMMA AllThere ==
  ASSUME NEW ss \in Seq(Segments), NEW v \in Seq(Nat), NEW e, Lettered(v, ss, e),
         NEW q, NEW g, NEW sp, Cut(sp, v, q, g), NEW i \in 1..Len(ss)
  PROVE  Cardinality(PlacesOf(sp.older \o sp.inline, i)) = ss[i].size
  <1> DEFINE n == Len(v)
             w == sp.older \o sp.inline
             b == q - 1 - g
             a == e[i - 1] + Separator(i)
             z == e[i]
             m == ss[i].size
             P == {p \in DOMAIN w : w[p] = i}
  <1>1. DOMAIN w = 1..n - g /\ \A p \in 1..n - g : w[p] = IF p <= b THEN v[p] ELSE v[p + g]
    <2>1. Without(w, v, q, g)
      BY PartsAre
    <2> HIDE DEF w
    <2>2. QED
      BY <2>1 DEF Without
  <1>2. a \in Nat /\ z \in Nat /\ z = a + m /\ m \in Nat /\ m > 0 /\ i # 0
    <2>1. e[i - 1] \in Nat /\ z \in Nat /\ z = e[i - 1] + Separator(i) + m
      BY LetterFacts
    <2>2. Separator(i) \in Nat /\ m \in Nat /\ m > 0 /\ i # 0
      BY SegmentFacts
    <2> HIDE DEF z, m
    <2>3. QED
      BY <2>1, <2>2
  <1>3. \A p \in Nat : p \in 1..n /\ v[p] = i <=> a < p /\ p <= z
    BY LetterFacts
  <1>4. /\ q \in 1..n + 1 /\ g \in Nat /\ b \in Nat /\ n \in Nat /\ b <= n - g
        /\ \A p \in Nat : q - g <= p /\ p < q => v[p] = 0
    BY LenProperties DEF Cut
  <1> HIDE DEF n, w, a, z, m
  <1>5. z \in 1..n /\ a + 1 \in 1..n
    <2>1. a < z /\ z <= z /\ a < a + 1 /\ a + 1 <= z /\ a + 1 \in Nat
      BY <1>2
    <2>2. QED
      BY <1>2, <1>3, <2>1
  <1>6. \A p \in Nat : a < p /\ p <= z => ~(b < p /\ p <= b + g)
    <2> SUFFICES ASSUME NEW p \in Nat, a < p, p <= z, b < p, p <= b + g PROVE FALSE
      OBVIOUS
    <2>1. q - g <= p /\ p < q
      BY <1>4
    <2>2. v[p] = 0 /\ v[p] = i
      BY <1>3, <1>4, <2>1
    <2>3. QED
      BY <1>2, <2>2
  <1> HIDE DEF b
  <1>7. PICK h \in {0, g} :
          /\ \/ h = 0 /\ (g = 0 \/ z <= b)
             \/ h = g /\ a >= b + g
          /\ \A p \in 1..n - g : w[p] = i <=> a - h < p /\ p <= z - h
    <2>1. CASE g = 0
      <3>1. \A p \in 1..n - g : p \in 1..n /\ p + g = p
        BY <1>4, <2>1
      <3>2. \A p \in 1..n - g : w[p] = v[p]
        BY <1>1, <3>1
      <3>3. \A p \in 1..n - g : w[p] = i <=> a < p /\ p <= z
        BY <1>3, <3>1, <3>2
      <3>4. a - 0 = a /\ z - 0 = z
        BY <1>2
      <3>5. QED
        BY <2>1, <3>3, <3>4
    <2>2. CASE g > 0 /\ z <= b
      <3>1. ASSUME NEW p \in 1..n - g PROVE w[p] = i <=> a < p /\ p <= z
        <4>1. p \in 1..n /\ p \in Nat /\ p + g \in 1..n /\ p + g \in Nat
          BY <1>4
        <4>2. CASE p <= b
          BY <1>1, <1>3, <4>1, <4>2
        <4>3. CASE ~(p <= b)
          <5>1. ~(p + g <= z) /\ ~(p <= z)
            BY <1>2, <1>4, <2>2, <4>1, <4>3
          <5>2. w[p] = v[p + g]
            BY <1>1, <4>3
          <5>3. QED
            BY <1>3, <4>1, <5>1, <5>2
        <4>4. QED
          BY <4>2, <4>3
      <3>2. a - 0 = a /\ z - 0 = z
        BY <1>2
      <3>3. QED
        BY <2>2, <3>1, <3>2
    <2>3. CASE g > 0 /\ ~(z <= b)
      <3>1. a >= b + g
        <4>1. ~(a < b + 1 /\ b + 1 <= z)
          <5>1. b + 1 \in Nat /\ b < b + 1 /\ b + 1 <= b + g
            BY <1>4, <2>3
          <5>2. QED
            BY <1>6, <5>1
        <4>2. a > b
          BY <1>2, <1>4, <2>3, <4>1
        <4>3. ~(a + 1 <= b + g)
          <5>1. a + 1 \in Nat /\ a < a + 1 /\ a + 1 <= z /\ b < a + 1
            BY <1>2, <1>4, <4>2
          <5>2. QED
            BY <1>6, <5>1
        <4>4. QED
          BY <1>2, <1>4, <4>3
      <3>2. ASSUME NEW p \in 1..n - g PROVE w[p] = i <=> a - g < p /\ p <= z - g
        <4>1. p \in 1..n /\ p \in Nat /\ p + g \in 1..n /\ p + g \in Nat
          BY <1>4
        <4>2. CASE p <= b
          <5>1. ~(a < p) /\ ~(a - g < p)
            BY <1>2, <1>4, <3>1, <4>1, <4>2
          <5>2. w[p] = v[p]
            BY <1>1, <4>2
          <5>3. QED
            BY <1>3, <4>1, <5>1, <5>2
        <4>3. CASE ~(p <= b)
          <5>1. w[p] = v[p + g]
            BY <1>1, <4>3
          <5>2. w[p] = i <=> a < p + g /\ p + g <= z
            BY <1>3, <4>1, <5>1
          <5>3. QED
            BY <1>2, <1>4, <4>1, <5>2
        <4>4. QED
          BY <4>2, <4>3
      <3>3. QED
        BY <3>1, <3>2
    <2>4. QED
      BY <1>4, <2>1, <2>2, <2>3
  <1>8. \A p \in Int : a - h < p /\ p <= z - h => p \in 1..n - g
    BY <1>2, <1>4, <1>5, <1>7
  <1>9. P = (a - h + 1)..(z - h)
    <2>1. P = {p \in 1..n - g : w[p] = i}
      BY <1>1
    <2>2. \A p : p \in P <=> p \in 1..n - g /\ a - h < p /\ p <= z - h
      BY <1>7, <2>1
    <2>3. \A p \in Int : a - h < p /\ p <= z - h <=> p \in (a - h + 1)..(z - h)
      BY <1>2, <1>4
    <2>4. \A p : p \in (a - h + 1)..(z - h) \/ p \in 1..n - g => p \in Int
      BY <1>2, <1>4
    <2> HIDE DEF P
    <2>5. \A p : p \in P <=> p \in (a - h + 1)..(z - h)
      BY <1>8, <2>2, <2>3, <2>4
    <2>6. QED
      BY <2>5
  <1>10. Cardinality(P) = m
    <2>1. a - h + 1 \in Int /\ z - h \in Int /\ ~(a - h + 1 > z - h) /\ (z - h) - (a - h + 1) + 1 = m
      BY <1>2, <1>4
    <2>2. QED
      BY <1>9, <2>1, FS_Interval
  <1>11. QED
    BY <1>10 DEF PlacesOf, P, w, m

-----------------------------------------------------------------------------
(* The prompt of a request *)

Texts == client.texts \cup {"none", "words"}

\* The conversation is one that a client can get into.
Talked == client \in Clients /\ IsConversation(turns, Texts)

\* A request goes on with the prompt that was built of the conversation.
Built ==
    Requesting => segs = BuildQwenMessages(Messages, Options(tools)) /\ split = SplitPrompt(segs)

\* What is known of the prompt: its segments tell of the messages, and split is cut
\* from its letters.
Told(ms, v, e, q, g) ==
    /\ Written(ms, turns, Texts, client.api) /\ Tell(segs, ms, Options(tools))
    /\ v \in Seq(Nat) /\ Lettered(v, segs, e) /\ Cut(split, v, q, g)

\* A client's messages are written of its conversation.
LEMMA MessagesWrite ==
  ASSUME Talked
  PROVE  Written(Messages, turns, Texts, client.api)
  <1>1. IsConversation(turns, Texts) /\ client.api \in {"chat", "messages"} /\ client.named \in BOOLEAN
    BY PromptAssumption DEF Talked
  <1>2. CASE client.api = "chat"
    <2>1. PICK q :
            /\ DOMAIN q = DOMAIN turns /\ q = [t \in DOMAIN turns |-> q[t]]
            /\ \A t \in DOMAIN turns :
                 /\ WrittenTurn(q[t], turns, Texts, t, client.named)
                 /\ turns[t].role = "user" /\ Tells("chat", turns, t) => Len(q[t]) = Len(turns[t].results) + 1
            /\ ChatMessages(turns, client.named) = FlattenSeq(q)
      BY ONLY <1>1, ChatWrites
    <2>2. Written(FlattenSeq(q), turns, Texts, "chat")
      BY ONLY <1>1, <2>1, TurnsWrite
    <2>3. QED
      BY <1>2, <2>1, <2>2 DEF Messages
  <1>3. CASE client.api = "messages"
    <2>1. PICK q :
            /\ DOMAIN q = DOMAIN turns /\ q = [t \in DOMAIN turns |-> q[t]]
            /\ \A t \in DOMAIN turns :
                 /\ WrittenTurn(q[t], turns, Texts, t, FALSE)
                 /\ turns[t].role = "user" /\ Tells("messages", turns, t) => Len(q[t]) = Len(turns[t].results) + 1
            /\ AnthropicMessagesToOpenAI(turns) = FlattenSeq(q)
      BY ONLY <1>1, AnthropicWrites
    <2>2. Written(FlattenSeq(q), turns, Texts, "messages")
      BY ONLY <1>1, <2>1, TurnsWrite
    <2>3. QED
      BY <1>3, <2>1, <2>2 DEF Messages
  <1>4. QED
    BY <1>1, <1>2, <1>3

\* The prompt of a request, and its split.
LEMMA PromptIsTold ==
  ASSUME Talked, Built, Requesting
  PROVE  segs \in Seq(Segments) /\ \E v, e, q, g : Told(Messages, v, e, q, g)
  <1>1. Written(Messages, turns, Texts, client.api) /\ IsConversation(turns, Texts)
    BY MessagesWrite DEF Talked
  <1>2. segs = BuildQwenMessages(Messages, Options(tools)) /\ split = SplitPrompt(segs)
    BY DEF Built
  <1>3. Tell(segs, Messages, Options(tools))
    BY <1>1, <1>2, PromptTells
  <1>4. segs \in Seq(Segments)
    BY <1>3 DEF Tell
  <1>5. PICK e : Lettered(Letters(segs), segs, e)
    BY <1>4, LettersAre
  <1>6. PICK q, g : Cut(split, Letters(segs), q, g)
    BY <1>2, <1>4, <1>5, Splits
  <1>7. Letters(segs) \in Seq(Nat)
    BY <1>5 DEF Lettered
  <1>8. QED
    BY <1>1, <1>3, <1>4, <1>5, <1>6, <1>7 DEF Told

\* The message of a turn with calls.
LEMMA CallsWritten ==
  ASSUME NEW ms, NEW ts, NEW texts, NEW api, IsConversation(ts, texts), Written(ms, ts, texts, api),
         NEW t \in DOMAIN ts, NEW k \in DOMAIN ts[t].calls
  PROVE  \E j \in 1..Len(ms) :
           /\ ms[j].role = "assistant" /\ ms[j].of = t /\ ms[j].calls = ts[t].calls
           /\ ms[j].calls # <<>> /\ k \in DOMAIN ms[j].calls
  <1>1. ts[t].role = "assistant" /\ ts[t].calls # <<>>
    <2>1. ts[t].calls # <<>>
      OBVIOUS
    <2>2. ts[t].role \in {"user", "assistant"}
      BY TurnTypes
    <2>3. QED
      BY <2>1, <2>2 DEF IsConversation
  <1>2. PICK j \in 1..Len(ms) : ms[j] = AssistantMessage(ts, t)
    BY <1>1 DEF Written
  <1>3. ms[j].role = "assistant" /\ ms[j].of = t /\ ms[j].calls = ts[t].calls
    BY <1>2 DEF AssistantMessage, Message
  <1>4. QED
    BY <1>1, <1>3

\* A call is told in one way, and its result, if there is one, in the same.
LEMMA OneFate ==
  ASSUME NEW ms, NEW ts, NEW texts, NEW api, IsConversation(ts, texts), Written(ms, ts, texts, api),
         NEW opts, NEW i \in 1..Len(ms), ms[i].role = "tool",
         NEW j \in 1..Len(ms), NEW k \in DOMAIN ms[j].calls, ms[j].calls[k].id = ms[i].id
  PROVE  ResultAs(ms, i, opts) = CallAs(ms, j, ms[j].calls[k], opts)
  <1>1. ~Orphaned(ms, i, opts)
    BY DEF Orphaned
  <1>2. PICK m \in 1..i - 1 : \E l \in DOMAIN ms[m].calls : Answers(ms, i, m, l, opts)
    BY <1>1, Fate
  <1>3. PICK l \in DOMAIN ms[m].calls : Answers(ms, i, m, l, opts)
    BY <1>2
  <1>4. m \in 1..Len(ms)
    BY MessageFacts
  <1>5. m = j /\ l = k
    BY <1>3, <1>4 DEF Answers, Written
  <1>6. QED
    BY <1>3, <1>5 DEF Answers

\* The fields of a showing.
LEMMA Showing ==
  ASSUME NEW what, NEW id, NEW as
  PROVE  /\ Shown(what, id, as).what = what /\ Shown(what, id, as).id = id
         /\ Shown(what, id, as).as = as
  BY DEF Shown

\* What is shown of a call.
LEMMA CallShown ==
  ASSUME NEW ms, Talked, Written(ms, turns, Texts, client.api), Tell(segs, ms, Options(tools)),
         NEW j \in 1..Len(ms), NEW k \in DOMAIN ms[j].calls,
         NEW y \in 1..Len(segs), NEW s \in ToSet(segs[y].shown),
         s.what = "call", s.id = ms[j].calls[k].id
  PROVE  /\ s.as = CallAs(ms, j, ms[j].calls[k], Options(tools))
         /\ ToSet(segs[y].shown) = CallsShown(ms, j, Options(tools))
  <1>1. PICK i \in 1..Len(ms) :
          /\ s \in CallsShown(ms, i, Options(tools))
          /\ ToSet(segs[y].shown) = CallsShown(ms, i, Options(tools))
    BY DEF Tell
  <1>2. PICK l \in DOMAIN ms[i].calls :
          s = Shown("call", ms[i].calls[l].id, CallAs(ms, i, ms[i].calls[l], Options(tools)))
    BY <1>1 DEF CallsShown
  <1>3. s.id = ms[i].calls[l].id /\ s.as = CallAs(ms, i, ms[i].calls[l], Options(tools))
    BY <1>2, Showing
  <1>4. \A a, b \in 1..Len(ms) : \A x \in DOMAIN ms[a].calls, z \in DOMAIN ms[b].calls :
          ms[a].calls[x].id = ms[b].calls[z].id => a = b /\ x = z
    BY DEF Written
  <1>5. ms[i].calls[l].id = ms[j].calls[k].id
    BY <1>3
  <1>6. i = j /\ l = k
    BY <1>4, <1>5
  <1>7. QED
    BY <1>1, <1>3, <1>6

\* What is in ShownAs.
LEMMA ShownIs ==
  ASSUME NEW what, NEW id
  PROVE  \A w : w \in ShownAs(what, id) <=>
           \E i \in DOMAIN segs : \E s \in ToSet(segs[i].shown) : s.what = what /\ s.id = id /\ s.as = w
  BY DEF ShownAs

\* A call and its result are told in the same way.
LEMMA SameFateHolds ==
  ASSUME NEW ms, Talked, Written(ms, turns, Texts, client.api), Tell(segs, ms, Options(tools))
  PROVE  SameFate
  <1> DEFINE opts == Options(tools)
  <1>1. IsConversation(turns, Texts) /\ segs \in Seq(Segments)
    BY DEF Talked, Tell
  <1>2. DOMAIN segs = 1..Len(segs)
    BY <1>1, SegmentFacts
  <1>3. ASSUME NEW t \in DOMAIN turns, NEW u \in DOMAIN turns, NEW k \in DOMAIN turns[t].calls,
               NEW l \in DOMAIN turns[u].results, turns[u].results[l] = turns[t].calls[k].id
        PROVE  ShownAs("call", turns[t].calls[k].id) = ShownAs("result", turns[t].calls[k].id)
    <2> DEFINE id == turns[t].calls[k].id
    <2>1. PICK j \in 1..Len(ms) :
            /\ ms[j].role = "assistant" /\ ms[j].of = t /\ ms[j].calls = turns[t].calls
            /\ ms[j].calls # <<>> /\ k \in DOMAIN ms[j].calls
      BY <1>1, CallsWritten
    <2>2. PICK i \in 1..Len(ms) : ms[i].role = "tool" /\ ms[i].id = turns[u].results[l]
      BY DEF Written
    <2>3. ms[i].id = id /\ ms[j].calls[k].id = id
      BY <1>3, <2>1, <2>2
    <2> DEFINE way == CallAs(ms, j, ms[j].calls[k], opts)
    <2>4. \A m \in 1..Len(ms) : ms[m].role = "tool" /\ ms[m].id = id => ResultAs(ms, m, opts) = way
      BY <1>1, <2>1, <2>3, OneFate
    <2> HIDE DEF way, id, opts
    <2>5. ShownAs("call", id) = {way}
      <3>1. ASSUME NEW y \in 1..Len(segs), NEW s \in ToSet(segs[y].shown), s.what = "call", s.id = id
            PROVE  s.as = way
        BY <2>1, <2>3, <3>1, CallShown DEF way, opts
      <3>2. Shown("call", id, way) \in CallsShown(ms, j, opts)
        BY <2>1, <2>3 DEF CallsShown, way
      <3>3. PICK y \in 1..Len(segs) : ToSet(segs[y].shown) = CallsShown(ms, j, opts)
        BY <2>1 DEF Tell, opts
      <3>4. Shown("call", id, way) \in ToSet(segs[y].shown)
        BY <3>2, <3>3
      <3>5. way \in ShownAs("call", id)
        BY <1>2, <3>4, Showing, ShownIs
      <3>6. \A w \in ShownAs("call", id) : w = way
        BY <1>2, <3>1, ShownIs
      <3>7. QED
        BY <3>5, <3>6
    <2>6. ShownAs("result", id) = {way}
      <3>1. ASSUME NEW y \in 1..Len(segs), NEW s \in ToSet(segs[y].shown), s.what = "result", s.id = id
            PROVE  s.as = way
        <4>1. PICK m \in 1..Len(ms) : ms[m].role = "tool" /\ s.id = ms[m].id /\ s.as = ResultAs(ms, m, opts)
          BY <3>1 DEF Tell, opts
        <4>2. QED
          BY <2>4, <3>1, <4>1
      <3>2. PICK y \in 1..Len(segs) : Shown("result", ms[i].id, ResultAs(ms, i, opts)) \in ToSet(segs[y].shown)
        BY <2>2 DEF Tell, opts
      <3>3. Shown("result", id, way) \in ToSet(segs[y].shown)
        BY <2>2, <2>3, <2>4, <3>2
      <3>4. way \in ShownAs("result", id)
        BY <1>2, <3>3, Showing, ShownIs
      <3>5. \A w \in ShownAs("result", id) : w = way
        BY <1>2, <3>1, ShownIs
      <3>6. QED
        BY <3>4, <3>5
    <2>7. QED
      BY <2>5, <2>6 DEF id
  <1>4. QED
    BY <1>3 DEF SameFate, ToSet

\* From the first letter inline on, every segment has one there.
LEMMA AllInline ==
  ASSUME NEW ss \in Seq(Segments), NEW v \in Seq(Nat), NEW e, Lettered(v, ss, e),
         NEW q, NEW g, NEW sp, Cut(sp, v, q, g), sp.inline[1] # 0
  PROVE  \A p \in DOMAIN sp.inline : sp.inline[p] # 0 =>
           /\ sp.inline[1] \in 1..Len(ss) /\ sp.inline[p] \in 1..Len(ss) /\ sp.inline[1] <= sp.inline[p]
           /\ \A a \in 1..Len(ss) : sp.inline[1] <= a =>
                \E r \in DOMAIN sp.inline : sp.inline[r] = a
  <1> DEFINE n == Len(v)
             y == sp.inline
  <1>1. /\ y \in Seq(Nat) /\ Len(y) = n - q + 1 /\ q \in 1..n + 1
        /\ \A p \in 1..n - q + 1 : y[p] = v[q + p - 1]
    BY DEF Cut
  <1>2. n \in Nat /\ DOMAIN y = 1..n - q + 1
    BY <1>1, LenProperties
  <1>3. /\ \A p \in 1..n : v[p] \in 0..Len(ss)
        /\ \A p, r \in 1..n : p <= r /\ v[r] # 0 => v[p] <= v[r]
    BY LetterFacts
  <1>4. /\ \A i \in 1..Len(ss) : e[i - 1] + Separator(i) < e[i] /\ e[i] \in Nat
        /\ \A i \in 1..Len(ss), p \in Nat : p \in 1..n /\ v[p] = i <=> e[i - 1] + Separator(i) < p /\ p <= e[i]
    <2>1. \A i \in 1..Len(ss) : e[i - 1] \in Nat /\ e[i] \in Nat /\ e[i] = e[i - 1] + Separator(i) + ss[i].size
      BY LetterFacts
    <2>2. \A i \in 1..Len(ss) : ss[i].size \in Nat /\ ss[i].size > 0 /\ Separator(i) \in Nat
      BY SegmentFacts
    <2>3. \A a, b, c, m \in Nat : c = a + b + m /\ m > 0 => a + b < c
      OBVIOUS
    <2>4. \A i \in 1..Len(ss) : e[i - 1] + Separator(i) < e[i] /\ e[i] \in Nat
      BY <2>1, <2>2, <2>3
    <2>5. QED
      BY <2>4, LetterFacts
  <1>5. Len(ss) \in Nat
    BY SegmentFacts
  <1> HIDE DEF n, y
  <1>6. ASSUME NEW p \in DOMAIN y, y[p] # 0, y[1] # 0
        PROVE  /\ y[1] \in 1..Len(ss) /\ y[p] \in 1..Len(ss) /\ y[1] <= y[p]
               /\ \A a \in 1..Len(ss) : y[1] <= a => \E r \in DOMAIN y : y[r] = a
    <2>1. /\ q \in 1..n /\ q + p - 1 \in 1..n /\ q <= q + p - 1
          /\ 1 \in 1..n - q + 1 /\ q + 1 - 1 = q /\ p \in 1..n - q + 1
      BY <1>1, <1>2
    <2>2. y[1] = v[q] /\ y[p] = v[q + p - 1]
      BY <1>1, <2>1
    <2>3. y[1] \in 1..Len(ss) /\ y[p] \in 1..Len(ss) /\ y[1] <= y[p]
      BY <1>3, <1>5, <1>6, <2>1, <2>2
    <2>4. ASSUME NEW a \in 1..Len(ss), y[1] <= a
          PROVE  \E r \in DOMAIN y : y[r] = a
      <3>1. e[a] \in 1..n /\ v[e[a]] = a /\ e[a] \in Nat
        BY <1>4
      <3>2. e[a] >= q
        <4> SUFFICES ASSUME ~(e[a] >= q) PROVE FALSE
          OBVIOUS
        <4>1. e[a] <= q
          BY <2>1, <3>1
        <4>2. a <= v[q]
          BY <1>3, <1>6, <2>1, <2>2, <3>1, <4>1
        <4>3. v[q] = a
          BY <2>2, <2>3, <2>4, <4>2
        <4>4. q <= e[a]
          BY <1>4, <2>1, <4>3
        <4>5. QED
          BY <2>1, <3>1, <4>4
      <3> DEFINE r == e[a] - q + 1
      <3>3. r \in 1..n - q + 1 /\ q + r - 1 = e[a]
        BY <1>2, <2>1, <3>1, <3>2
      <3> HIDE DEF r
      <3>4. y[r] = a /\ r \in DOMAIN y
        BY <1>1, <1>2, <3>1, <3>3
      <3>5. QED
        BY <3>4
    <2>5. QED
      BY <2>3, <2>4
  <1>7. QED
    BY <1>6 DEF y

\* A result has a call before it.
LEMMA CallFirstHolds ==
  ASSUME NEW ms, NEW opts, Tell(segs, ms, opts)
  PROVE  CallFirst
  <1>1. DOMAIN segs = 1..Len(segs)
    BY SegmentFacts DEF Tell
  <1>2. QED
    BY <1>1 DEF Tell, CallFirst

\* A result inline has its call inline, but for a cut that SameSide excepts.
LEMMA SameSideHolds ==
  ASSUME NEW ms, NEW v, NEW e, NEW q, NEW g, Talked, Told(ms, v, e, q, g)
  PROVE  SameSide
  <1> DEFINE opts == Options(tools)
             y == split.inline
  <1>1. /\ IsConversation(turns, Texts) /\ Written(ms, turns, Texts, client.api)
        /\ Tell(segs, ms, opts) /\ segs \in Seq(Segments)
        /\ v \in Seq(Nat) /\ Lettered(v, segs, e) /\ Cut(split, v, q, g)
    BY DEF Talked, Told, Tell
  <1>2. DOMAIN segs = 1..Len(segs) /\ Len(segs) \in Nat
    BY <1>1, SegmentFacts
  <1> SUFFICES ASSUME y[1] # 0, segs[y[1]].kind # "result",
                      NEW t \in DOMAIN turns, NEW k \in DOMAIN turns[t].calls, ~Prosaic(t),
                      NEW p \in DOMAIN y, ShowsXml(y, p, "result", turns[t].calls[k].id)
               PROVE  \E r \in DOMAIN y : ShowsXml(y, r, "call", turns[t].calls[k].id)
    BY DEF SameSide
  <1> DEFINE id == turns[t].calls[k].id
             c == Shown("call", id, "xml")
             s == Shown("result", id, "xml")
             b == y[p]
  <1>3. b # 0 /\ s \in ToSet(segs[b].shown)
    BY DEF ShowsXml
  <1>4. /\ y[1] \in 1..Len(segs) /\ b \in 1..Len(segs) /\ y[1] <= b
        /\ \A a \in 1..Len(segs) : y[1] <= a => \E r \in DOMAIN y : y[r] = a
    BY <1>1, <1>3, AllInline
  <1> HIDE DEF y, b, opts
  <1>5. segs[b].shown = <<s>> /\ segs[b].kind = "result"
    <2>1. s.what = "result" /\ s.as = "xml"
      BY Showing
    <2>2. \A w \in ToSet(segs[b].shown) : w.what # "call" =>
            segs[b].shown = <<w>> /\ segs[b].kind = (IF w.as = "xml" THEN "result" ELSE "user")
      BY <1>1, <1>4 DEF Tell
    <2> HIDE DEF s
    <2>3. QED
      BY <1>3, <2>1, <2>2
  <1>6. segs[b].shown[1].id = id
    <2>1. s.id = id
      BY Showing
    <2> HIDE DEF s
    <2>2. QED
      BY <1>5, <2>1
  <1>7. PICK a \in 1..b - 1 :
          /\ c \in ToSet(segs[a].shown)
          /\ \A w \in 1..Len(segs) : a < w /\ w <= b =>
               segs[w].kind = "result" \/ \E x \in ToSet(segs[a].shown) : x.as # "xml"
    BY <1>1, <1>4, <1>5, <1>6 DEF Tell
  <1>8. a \in 1..Len(segs)
    BY <1>2, <1>4
  <1>9. \A x \in ToSet(segs[a].shown) : x.as = "xml"
    <2> SUFFICES ASSUME NEW x \in ToSet(segs[a].shown), x.as # "xml" PROVE FALSE
      OBVIOUS
    <2>1. PICK j \in 1..Len(ms) : ms[j].calls = turns[t].calls /\ k \in DOMAIN ms[j].calls
      BY <1>1, CallsWritten
    <2>2. c.what = "call" /\ c.id = ms[j].calls[k].id
      BY <2>1, Showing
    <2> HIDE DEF c
    <2>3. ToSet(segs[a].shown) = CallsShown(ms, j, opts)
      BY <1>1, <1>7, <1>8, <2>1, <2>2, CallShown DEF opts
    <2>4. PICK l \in DOMAIN ms[j].calls : x = Shown("call", ms[j].calls[l].id, CallAs(ms, j, ms[j].calls[l], opts))
      BY <2>3 DEF CallsShown
    <2>5. x.what = "call" /\ x.id = turns[t].calls[l].id /\ l \in DOMAIN turns[t].calls
      BY <2>1, <2>4, Showing
    <2>6. x.as \in ShownAs("call", turns[t].calls[l].id)
      BY <1>2, <1>8, <2>5, ShownIs
    <2>7. QED
      BY <2>5, <2>6 DEF Prosaic
  <1>10. y[1] <= a
    <2> SUFFICES ASSUME ~(y[1] <= a) PROVE FALSE
      OBVIOUS
    <2>1. a < y[1] /\ y[1] <= b
      BY <1>2, <1>4, <1>8
    <2>2. segs[y[1]].kind = "result"
      BY <1>4, <1>7, <1>9, <2>1
    <2>3. QED
      BY <2>2 DEF y
  <1>11. PICK r \in DOMAIN y : y[r] = a
    BY <1>4, <1>8, <1>10
  <1>12. y[r] # 0 /\ c \in ToSet(segs[y[r]].shown)
    BY <1>2, <1>7, <1>8, <1>11
  <1>13. QED
    BY <1>12 DEF ShowsXml, y

-----------------------------------------------------------------------------
(* The files of a message *)

Files == [kind : {"context", "images"}, of : Accounts \cup {None}]

\* What an attempt has uploaded, phase by phase.
Uploaded ==
    /\ phase \in {"client", "pick", "images", "context", "acquire", "fetch"}
    /\ acct \in Accounts \cup {None} /\ retrySame \in Accounts \cup {None}
    /\ images \in BOOLEAN /\ files \in Seq(Files)
    /\ phase \in {"images", "context"} => acct # None /\ context = "none"
    /\ phase = "context" /\ HasImages => images
    /\ phase \in {"acquire", "fetch"} =>
         /\ context \in {"none", "sent", "failed", "skipped"}
         /\ context = "none" => split.older = <<>>
         /\ context = "sent" => File("context") \in ToSet(files)
         /\ context # "skipped" => acct # None /\ (HasImages => File("images") \in ToSet(files))

\* Every turn is in the segments.
LEMMA TurnsTold ==
  ASSUME NEW ms, Talked, Written(ms, turns, Texts, client.api), Tell(segs, ms, Options(tools)),
         NEW t \in DOMAIN turns
  PROVE  LET mine == {i \in DOMAIN segs : segs[i].of = t}
         IN  /\ turns[t].text # "none" =>
                  \/ \E i \in mine : segs[i].hasText
                  \/ client.api = "messages" /\ turns[t].results # <<>>
             /\ \A k \in DOMAIN turns[t].calls :
                  \E i \in mine : \E s \in ToSet(segs[i].shown) : s.what = "call" /\ s.id = turns[t].calls[k].id
             /\ \A k \in DOMAIN turns[t].results :
                  \E i \in mine : \E s \in ToSet(segs[i].shown) : s.what = "result" /\ s.id = turns[t].results[k]
  <1> DEFINE opts == Options(tools)
             mine == {i \in DOMAIN segs : segs[i].of = t}
  <1>1. IsConversation(turns, Texts) /\ client.api \in {"chat", "messages"}
    BY PromptAssumption DEF Talked
  <1>2. DOMAIN segs = 1..Len(segs)
    BY SegmentFacts DEF Tell
  <1>3. \A y \in 1..Len(segs) : segs[y].of = t => y \in mine
    BY <1>2
  <1> HIDE DEF mine
  <1>4. ASSUME turns[t].text # "none", ~(client.api = "messages" /\ turns[t].results # <<>>)
        PROVE  \E i \in mine : segs[i].hasText
    <2>1. CASE turns[t].role = "assistant"
      <3>1. PICK j \in 1..Len(ms) : ms[j] = AssistantMessage(turns, t)
        BY <2>1 DEF Written
      <3>2. ms[j].role = "assistant" /\ ms[j].of = t /\ ms[j].text # "none"
        BY <1>4, <3>1 DEF AssistantMessage, Message
      <3>3. PICK y \in 1..Len(segs) : segs[y].of = t /\ segs[y].hasText = TRUE
        <4>1. PICK y \in 1..Len(segs) : segs[y].of = ms[j].of /\ segs[y].hasText = (ms[j].text # "none")
          BY <3>2 DEF Tell
        <4>2. QED
          BY <3>2, <4>1
      <3>4. QED
        BY <1>3, <3>3
    <2>2. CASE turns[t].role = "user"
      <3>1. Tells(client.api, turns, t)
        BY <1>1, <1>4 DEF Tells
      <3>2. PICK j \in 1..Len(ms) : ms[j] = UserMessage(turns, t)
        BY <2>2, <3>1 DEF Written
      <3>3. ms[j].role = "user" /\ ms[j].of = t /\ ms[j].text # "none"
        BY <1>4, <3>2 DEF UserMessage, Message
      <3>4. PICK y \in 1..Len(segs) : segs[y].of = ms[j].of /\ segs[y].hasText
        BY <3>3 DEF Tell
      <3>5. QED
        BY <1>3, <3>3, <3>4
    <2>3. QED
      BY <1>1, <2>1, <2>2, TurnTypes
  <1>5. ASSUME NEW k \in DOMAIN turns[t].calls
        PROVE  \E i \in mine : \E s \in ToSet(segs[i].shown) : s.what = "call" /\ s.id = turns[t].calls[k].id
    <2>1. PICK j \in 1..Len(ms) :
            /\ ms[j].role = "assistant" /\ ms[j].of = t /\ ms[j].calls = turns[t].calls
            /\ ms[j].calls # <<>> /\ k \in DOMAIN ms[j].calls
      BY <1>1, CallsWritten
    <2>2. PICK y \in 1..Len(segs) : segs[y].of = ms[j].of /\ ToSet(segs[y].shown) = CallsShown(ms, j, opts)
      BY <2>1 DEF Tell
    <2>3. Shown("call", ms[j].calls[k].id, CallAs(ms, j, ms[j].calls[k], opts)) \in ToSet(segs[y].shown)
      BY <2>1, <2>2 DEF CallsShown
    <2>4. y \in mine
      BY <1>3, <2>1, <2>2
    <2>5. QED
      BY <2>1, <2>3, <2>4, Showing
  <1>6. ASSUME NEW k \in DOMAIN turns[t].results
        PROVE  \E i \in mine : \E s \in ToSet(segs[i].shown) : s.what = "result" /\ s.id = turns[t].results[k]
    <2>1. PICK j \in 1..Len(ms) : ms[j].role = "tool" /\ ms[j].id = turns[t].results[k] /\ ms[j].of = t
      BY DEF Written
    <2>2. PICK y \in 1..Len(segs) :
            segs[y].of = ms[j].of /\ Shown("result", ms[j].id, ResultAs(ms, j, opts)) \in ToSet(segs[y].shown)
      BY <2>1 DEF Tell
    <2>3. y \in mine
      BY <1>3, <2>1, <2>2
    <2>4. QED
      BY <2>1, <2>2, <2>3, Showing
  <1>7. QED
    BY <1>4, <1>5, <1>6 DEF mine

\* The prompt of a request that is sent has everything.
LEMMA NothingLostNow ==
  ASSUME Talked, Built, Uploaded
  PROVE  NothingLost
  <1> SUFFICES ASSUME phase = "fetch", context \notin {"failed", "skipped"} PROVE NothingLost
    BY DEF NothingLost
  <1>1. Requesting
    BY DEF Requesting
  <1>2. segs \in Seq(Segments) /\ \E v, e, q, g : Told(Messages, v, e, q, g)
    BY <1>1, PromptIsTold
  <1>3. PICK v, e, q, g : Told(Messages, v, e, q, g)
    BY <1>2
  <1>4. /\ Written(Messages, turns, Texts, client.api) /\ Tell(segs, Messages, Options(tools))
        /\ v \in Seq(Nat) /\ Lettered(v, segs, e) /\ Cut(split, v, q, g)
    BY <1>3 DEF Told
  <1>5. DOMAIN segs = 1..Len(segs) /\ Len(segs) \in Nat
    BY <1>2, SegmentFacts
  <1>6. /\ context = "none" => split.older = <<>>
        /\ context = "sent" => File("context") \in ToSet(files)
        /\ HasImages => File("images") \in ToSet(files)
        /\ context \in {"none", "sent"}
    BY DEF Uploaded
  <1>7. ASSUME NEW i \in DOMAIN segs
        PROVE  Reaches(i)
    <2> DEFINE parts == split.older \o split.inline
    <2>1. Cardinality(PlacesOf(parts, i)) = segs[i].size
      BY <1>2, <1>4, <1>5, AllThere
    <2>2. CASE File("context") \in ToSet(files)
      BY <2>1, <2>2 DEF Reaches, PlacesOf
    <2>3. CASE File("context") \notin ToSet(files)
      <3>1. split.older = <<>> /\ split.inline \in Seq(Nat)
        BY <1>4, <1>6, <2>3 DEF Cut
      <3>2. parts = split.inline
        BY <3>1, ConcatEmptySeq
      <3> HIDE DEF parts
      <3>3. Cardinality(PlacesOf(split.inline, i)) = segs[i].size
        BY <2>1, <3>2
      <3>4. QED
        BY <2>3, <3>3 DEF Reaches, PlacesOf
    <2>4. QED
      BY <2>2, <2>3
  <1>8. \A i, j \in DOMAIN segs : i < j => segs[i].of <= segs[j].of
    <2>1. \A i, j \in 1..Len(segs) : i <= j => segs[i].of <= segs[j].of
      BY <1>4 DEF Tell
    <2>2. \A i, j \in 1..Len(segs) : i < j => i <= j
      OBVIOUS
    <2>3. QED
      BY <1>5, <2>1, <2>2
  <1>9. Len(split.inline) <= MaxInline
    BY <1>4 DEF Cut
  <1>10. \A t \in DOMAIN turns :
           LET mine == {i \in DOMAIN segs : segs[i].of = t}
           IN  /\ turns[t].text # "none" =>
                    \/ \E i \in mine : segs[i].hasText
                    \/ client.api = "messages" /\ turns[t].results # <<>>
               /\ \A k \in DOMAIN turns[t].calls :
                    \E i \in mine : \E s \in ToSet(segs[i].shown) : s.what = "call" /\ s.id = turns[t].calls[k].id
               /\ \A k \in DOMAIN turns[t].results :
                    \E i \in mine : \E s \in ToSet(segs[i].shown) : s.what = "result" /\ s.id = turns[t].results[k]
    BY <1>4, TurnsTold
  <1>11. QED
    BY <1>6, <1>7, <1>8, <1>9, <1>10 DEF NothingLost

\* The prompt of a request is in lockstep.
LEMMA LockstepHolds ==
  ASSUME Talked, Built
  PROVE  HistoryInLockstep
  <1> SUFFICES ASSUME Requesting PROVE SameFate /\ CallFirst /\ SameSide
    BY DEF HistoryInLockstep
  <1>1. PICK v, e, q, g : Told(Messages, v, e, q, g)
    BY PromptIsTold
  <1>2. Written(Messages, turns, Texts, client.api) /\ Tell(segs, Messages, Options(tools))
    BY <1>1 DEF Told
  <1>3. SameFate
    BY <1>2, SameFateHolds
  <1>4. CallFirst
    BY <1>2, CallFirstHolds
  <1>5. SameSide
    BY <1>1, SameSideHolds
  <1>6. QED
    BY <1>3, <1>4, <1>5

-----------------------------------------------------------------------------
(* The conversation goes on *)

\* Results in any order are those of the calls.
LEMMA AnyOrder ==
  ASSUME NEW s \in Seq(Nat), NEW r \in SetToSeqs(ToSet(s))
  PROVE  r \in Seq(Nat) /\ \A k \in DOMAIN r : \E l \in DOMAIN s : r[k] = s[l]
  <1>1. DOMAIN s = 1..Len(s) /\ Len(s) \in Nat /\ s \in [1..Len(s) -> Nat]
    BY LenProperties
  <1>2. s \in Surjection(DOMAIN s, ToSet(s))
    <2>1. s = [i \in DOMAIN s |-> s[i]] /\ \A i \in DOMAIN s : s[i] \in ToSet(s)
      BY <1>1 DEF ToSet
    <2>2. \A x \in ToSet(s) : \E i \in DOMAIN s : s[i] = x
      BY DEF ToSet
    <2>3. s \in [DOMAIN s -> ToSet(s)]
      BY <2>1
    <2>4. QED
      BY <2>2, <2>3 DEF Surjection
  <1>3. IsFiniteSet(DOMAIN s)
    <2>1. 1 \in Int /\ Len(s) \in Int
      BY <1>1
    <2>2. QED
      BY <1>1, <2>1, FS_Interval
  <1>4. IsFiniteSet(ToSet(s))
    BY <1>2, <1>3, FS_Surjection
  <1> DEFINE c == Cardinality(ToSet(s))
  <1>5. c \in Nat
    BY <1>4, FS_CardinalityType
  <1>6. r \in [1..c -> ToSet(s)]
    BY DEF SetToSeqs
  <1> HIDE DEF c
  <1>7. \A x \in ToSet(s) : x \in Nat /\ \E l \in DOMAIN s : x = s[l]
    BY <1>1 DEF ToSet
  <1>8. DOMAIN r = 1..c /\ \A k \in DOMAIN r : r[k] \in ToSet(s)
    BY <1>6
  <1>9. r \in [1..c -> Nat]
    BY <1>6, <1>7
  <1>10. r \in Seq(Nat)
    BY <1>5, <1>9, SeqDef
  <1>11. QED
    BY <1>7, <1>8, <1>10

\* A conversation goes on with a turn whose calls are new, and whose results are those
\* of the turn before.
LEMMA GoesOn ==
  ASSUME NEW ts, NEW texts, IsConversation(ts, texts), NEW x \in Turns(texts),
         IF x.role = "user" THEN x.calls = <<>> ELSE x.results = <<>>,
         \A k \in DOMAIN x.calls, l \in DOMAIN x.calls : x.calls[k].id = x.calls[l].id => k = l,
         \A k \in DOMAIN x.calls, t \in DOMAIN ts :
           /\ \A l \in DOMAIN ts[t].calls : ts[t].calls[l].id # x.calls[k].id
           /\ \A l \in DOMAIN ts[t].results : ts[t].results[l] # x.calls[k].id,
         \A k \in DOMAIN x.results : ts # <<>> /\ \E l \in DOMAIN Last(ts).calls : Last(ts).calls[l].id = x.results[k]
  PROVE  IsConversation(Append(ts, x), texts)
  <1> DEFINE n == Len(ts)
             s == Append(ts, x)
  <1>1. ts \in Seq(Turns(texts)) /\ n \in Nat /\ DOMAIN ts = 1..n
    BY LenProperties DEF IsConversation
  <1>2. /\ s \in Seq(Turns(texts)) /\ DOMAIN s = 1..n + 1
        /\ (\A t \in 1..n : s[t] = ts[t]) /\ s[n + 1] = x
    <2>1. s \in Seq(Turns(texts)) /\ Len(s) = n + 1 /\ (\A t \in 1..n : s[t] = ts[t]) /\ s[n + 1] = x
      BY <1>1, AppendProperties
    <2>2. DOMAIN s = 1..Len(s)
      BY <2>1, LenProperties
    <2>3. QED
      BY <2>1, <2>2
  <1> HIDE DEF s
  <1>3. \A t \in 1..n + 1 : t \in 1..n \/ t = n + 1
    BY <1>1
  <1>4. \A t \in DOMAIN s : IF s[t].role = "user" THEN s[t].calls = <<>> ELSE s[t].results = <<>>
    BY <1>1, <1>2, <1>3 DEF IsConversation
  <1>5. ASSUME NEW t \in DOMAIN s, NEW u \in DOMAIN s, NEW k \in DOMAIN s[t].calls, NEW l \in DOMAIN s[u].calls,
               s[t].calls[k].id = s[u].calls[l].id
        PROVE  t = u /\ k = l
    <2>1. CASE t \in 1..n /\ u \in 1..n
      BY <1>1, <1>2, <1>5, <2>1 DEF IsConversation
    <2>2. CASE t = n + 1 /\ u = n + 1
      BY <1>2, <1>5, <2>2
    <2>3. CASE t = n + 1 /\ u \in 1..n
      BY <1>1, <1>2, <1>5, <2>3
    <2>4. CASE t \in 1..n /\ u = n + 1
      BY <1>1, <1>2, <1>5, <2>4
    <2>5. QED
      BY <1>2, <1>3, <2>1, <2>2, <2>3, <2>4
  <1>6. ASSUME NEW u \in DOMAIN s
        PROVE  \/ u > 1 /\ \A k \in DOMAIN s[u].results : \E l \in DOMAIN s[u - 1].calls :
                             s[u - 1].calls[l].id = s[u].results[k]
               \/ \A k \in DOMAIN s[u].results : \A t \in DOMAIN s : \A l \in DOMAIN s[t].calls :
                    s[t].calls[l].id # s[u].results[k]
    <2>1. CASE u = n + 1
      <3>1. CASE ts = <<>>
        BY <1>2, <2>1, <3>1
      <3>2. CASE ts # <<>>
        <4>1. n > 0
          BY <1>1, <3>2, EmptySeq
        <4>2. u > 1 /\ u - 1 = n /\ n \in 1..n
          BY <1>1, <2>1, <4>1
        <4>3. s[u - 1] = Last(ts)
          BY <1>2, <4>2 DEF Last
        <4>4. QED
          BY <1>2, <2>1, <4>2, <4>3
      <3>3. QED
        BY <3>1, <3>2
    <2>2. CASE u \in 1..n
      <3>1. CASE u > 1 /\ \A k \in DOMAIN ts[u].results : \E l \in DOMAIN ts[u - 1].calls :
                             ts[u - 1].calls[l].id = ts[u].results[k]
        <4>1. u - 1 \in 1..n
          BY <1>1, <2>2, <3>1
        <4>2. s[u] = ts[u] /\ s[u - 1] = ts[u - 1]
          BY <1>2, <2>2, <4>1
        <4>3. QED
          BY <3>1, <4>2
      <3>2. CASE \A k \in DOMAIN ts[u].results : \A t \in DOMAIN ts : \A l \in DOMAIN ts[t].calls :
                    ts[t].calls[l].id # ts[u].results[k]
        <4>1. ASSUME NEW k \in DOMAIN s[u].results, NEW t \in DOMAIN s, NEW l \in DOMAIN s[t].calls
              PROVE  s[t].calls[l].id # s[u].results[k]
          <5>1. CASE t \in 1..n
            BY <1>1, <1>2, <2>2, <3>2, <4>1, <5>1
          <5>2. CASE t = n + 1
            BY <1>1, <1>2, <2>2, <4>1, <5>2
          <5>3. QED
            BY <1>2, <1>3, <5>1, <5>2
        <4>2. QED
          BY <4>1
      <3>3. QED
        BY <1>1, <2>2, <3>1, <3>2 DEF IsConversation
    <2>3. QED
      BY <1>2, <1>3, <2>1, <2>2
  <1>7. QED
    BY <1>2, <1>4, <1>5, <1>6 DEF IsConversation, s

\* A conversation without its oldest turn.
LEMMA Forgets ==
  ASSUME NEW ts, NEW texts, IsConversation(ts, texts), Len(ts) > 1
  PROVE  IsConversation(Tail(ts), texts)
  <1> DEFINE n == Len(ts) - 1
             s == Tail(ts)
  <1>1. ts \in Seq(Turns(texts)) /\ Len(ts) \in Nat /\ DOMAIN ts = 1..Len(ts)
    BY LenProperties DEF IsConversation
  <1>2. ts # <<>>
    BY <1>1, EmptySeq
  <1>3. s \in Seq(Turns(texts)) /\ Len(s) = n /\ \A t \in 1..n : s[t] = ts[t + 1]
    BY <1>1, <1>2, HeadTailProperties
  <1>4. DOMAIN s = 1..n
    BY <1>3, LenProperties
  <1> HIDE DEF s
  <1>5. n \in Nat /\ \A t \in 1..n : t \in Nat /\ t + 1 \in DOMAIN ts /\ s[t] = ts[t + 1]
    BY <1>1, <1>3
  <1> HIDE DEF n
  <1>6. \A t \in DOMAIN s : IF s[t].role = "user" THEN s[t].calls = <<>> ELSE s[t].results = <<>>
    BY <1>4, <1>5 DEF IsConversation
  <1>7. ASSUME NEW t \in DOMAIN s, NEW u \in DOMAIN s, NEW k \in DOMAIN s[t].calls, NEW l \in DOMAIN s[u].calls,
               s[t].calls[k].id = s[u].calls[l].id
        PROVE  t = u /\ k = l
    <2>1. t + 1 = u + 1 /\ k = l
      BY <1>4, <1>5, <1>7 DEF IsConversation
    <2>2. QED
      BY <1>4, <1>5, <2>1
  <1>8. ASSUME NEW u \in DOMAIN s
        PROVE  \/ u > 1 /\ \A k \in DOMAIN s[u].results : \E l \in DOMAIN s[u - 1].calls :
                             s[u - 1].calls[l].id = s[u].results[k]
               \/ \A k \in DOMAIN s[u].results : \A t \in DOMAIN s : \A l \in DOMAIN s[t].calls :
                    s[t].calls[l].id # s[u].results[k]
    <2>1. u \in Nat /\ u + 1 \in DOMAIN ts /\ s[u] = ts[u + 1] /\ u + 1 - 1 = u /\ u \in DOMAIN ts
      BY <1>1, <1>4, <1>5
    <2>2. CASE \A k \in DOMAIN ts[u + 1].results : \E l \in DOMAIN ts[u].calls :
                 ts[u].calls[l].id = ts[u + 1].results[k]
      <3>1. CASE u > 1
        <4>1. u - 1 \in 1..n /\ (u - 1) + 1 = u
          BY <1>4, <1>5, <2>1, <3>1
        <4>2. s[u - 1] = ts[u]
          BY <1>5, <4>1
        <4>3. QED
          BY <2>1, <2>2, <3>1, <4>2
      <3>2. CASE ~(u > 1)
        <4>1. u = 1
          BY <1>4, <2>1, <3>2
        <4>2. ASSUME NEW k \in DOMAIN s[u].results, NEW t \in DOMAIN s, NEW l \in DOMAIN s[t].calls
              PROVE  s[t].calls[l].id # s[u].results[k]
          <5>1. PICK m \in DOMAIN ts[u].calls : ts[u].calls[m].id = s[u].results[k]
            BY <2>1, <2>2, <4>2
          <5>2. t \in Nat /\ t + 1 \in DOMAIN ts /\ s[t] = ts[t + 1] /\ t + 1 # u
            BY <1>4, <1>5, <4>1
          <5>3. l \in DOMAIN ts[t + 1].calls
            BY <5>2
          <5>4. ts[t + 1].calls[l].id # ts[u].calls[m].id
            BY <2>1, <5>1, <5>2, <5>3 DEF IsConversation
          <5>5. QED
            BY <5>1, <5>2, <5>4
        <4>3. QED
          BY <4>2
      <3>3. QED
        BY <3>1, <3>2
    <2>3. CASE \A k \in DOMAIN ts[u + 1].results : \A t \in DOMAIN ts : \A l \in DOMAIN ts[t].calls :
                 ts[t].calls[l].id # ts[u + 1].results[k]
      BY <1>4, <1>5, <2>1, <2>3
    <2>4. QED
      <3>1. \/ u + 1 > 1 /\ \A k \in DOMAIN ts[u + 1].results : \E l \in DOMAIN ts[u + 1 - 1].calls :
                              ts[u + 1 - 1].calls[l].id = ts[u + 1].results[k]
            \/ \A k \in DOMAIN ts[u + 1].results : \A t \in DOMAIN ts : \A l \in DOMAIN ts[t].calls :
                 ts[t].calls[l].id # ts[u + 1].results[k]
        BY <2>1 DEF IsConversation
      <3>2. QED
        BY <2>1, <2>2, <2>3, <3>1
  <1>9. QED
    BY <1>3, <1>6, <1>7, <1>8 DEF IsConversation, s

\* A user's turn has the results of the turn before.
LEMMA AskStep ==
  ASSUME Talked, Ask
  PROVE  Talked'
  <1>1. PICK text \in client.texts \cup {"none"}, results \in SetToSeqs(ToSet(OpenCalls)) :
          turns' = Append(turns, Turn("user", text, <<>>, results))
    BY DEF Ask
  <1>2. client' = client /\ ~Waiting
    BY DEF Ask
  <1>3. IsConversation(turns, Texts)
    BY DEF Talked
  <1>4. /\ OpenCalls \in Seq(Nat)
        /\ \A k \in DOMAIN OpenCalls : turns # <<>> /\ k \in DOMAIN Last(turns).calls
                                        /\ OpenCalls[k] = Last(turns).calls[k].id
    <2>1. CASE turns = <<>>
      BY <2>1, EmptySeq DEF OpenCalls
    <2>2. CASE turns # <<>>
      <3> DEFINE c == Last(turns).calls
      <3>1. turns \in Seq(Turns(Texts)) /\ Len(turns) \in Nat /\ DOMAIN turns = 1..Len(turns)
        BY <1>3, LenProperties DEF IsConversation
      <3>2. Len(turns) \in DOMAIN turns
        BY <2>2, <3>1, EmptySeq
      <3>3. Len(c) \in Nat /\ DOMAIN c = 1..Len(c) /\ \A k \in DOMAIN c : c[k] \in Calls
        BY <1>3, <3>2, TurnTypes DEF Last
      <3> HIDE DEF c
      <3>4. \A k \in DOMAIN c : c[k].id \in Nat
        BY <3>3 DEF Calls
      <3>5. OpenCalls = [k \in 1..Len(c) |-> c[k].id]
        BY <2>2, <3>3 DEF OpenCalls, c
      <3>6. OpenCalls \in [1..Len(c) -> Nat]
        BY <3>3, <3>4, <3>5
      <3>7. OpenCalls \in Seq(Nat)
        BY <3>3, <3>6, SeqDef
      <3>8. \A k \in DOMAIN OpenCalls : k \in DOMAIN c /\ OpenCalls[k] = c[k].id
        BY <3>3, <3>5
      <3>9. QED
        BY <2>2, <3>7, <3>8 DEF c
    <2>3. QED
      BY <2>1, <2>2
  <1>5. results \in Seq(Nat) /\ \A k \in DOMAIN results : \E l \in DOMAIN OpenCalls : results[k] = OpenCalls[l]
    BY <1>4, AnyOrder
  <1> DEFINE x == Turn("user", text, <<>>, results)
  <1>6. x \in Turns(Texts) /\ x.role = "user" /\ x.calls = <<>> /\ x.results = results
    <2>1. text \in Texts /\ <<>> \in Seq(Calls)
      BY EmptySeq DEF Texts
    <2>2. QED
      BY <1>5, <2>1 DEF Turn, Turns
  <1> HIDE DEF x
  <1>7. \A k \in DOMAIN x.results : turns # <<>> /\ \E l \in DOMAIN Last(turns).calls : Last(turns).calls[l].id = x.results[k]
    BY <1>4, <1>5, <1>6
  <1>8. DOMAIN x.calls = {}
    BY <1>6
  <1>9. IsConversation(Append(turns, x), Texts)
    BY <1>3, <1>6, <1>7, <1>8, GoesOn
  <1>10. QED
    BY <1>1, <1>2, <1>9 DEF Talked, Texts, x

\* An answer's calls are new.
LEMMA AnsweredStep ==
  ASSUME Talked, Answered
  PROVE  Talked'
  <1> DEFINE Adds(x, y, text, names) ==
               turns' = IF Len(turns) < MaxTurns
                        THEN Append(turns, Turn("assistant", text,
                                       [k \in DOMAIN names |-> [id |-> <<x, y>>[k], name |-> names[k]]], <<>>))
                        ELSE <<>>
  <1>0. \E ids \in {FreshIds} : \E i, j \in ids :
          i < j /\ \E text \in {"none", "words"}, names \in CallNames : Adds(i, j, text, names)
    BY Zenon DEF Answered
  <1> HIDE DEF Adds
  <1>1. PICK x \in FreshIds, y \in FreshIds, text \in {"none", "words"}, names \in CallNames :
          x < y /\ Adds(x, y, text, names)
    BY <1>0, Zenon
  <1>2. client' = client
    BY DEF Answered
  <1>3. IsConversation(turns, Texts)
    BY DEF Talked
  <1> DEFINE calls == [k \in DOMAIN names |-> [id |-> <<x, y>>[k], name |-> names[k]]]
             z == Turn("assistant", text, calls, <<>>)
  <1>4. /\ x \in Nat /\ y \in Nat
        /\ \A t \in DOMAIN turns :
             /\ \A l \in DOMAIN turns[t].calls : turns[t].calls[l].id \notin {x, y}
             /\ \A l \in DOMAIN turns[t].results : turns[t].results[l] \notin {x, y}
    <2>1. x \in 1..2 * MaxTurns /\ y \in 1..2 * MaxTurns
      BY DEF FreshIds
    <2>2. ASSUME NEW t \in DOMAIN turns, NEW i \in FreshIds
          PROVE  i \notin {c.id : c \in ToSet(turns[t].calls)} /\ i \notin ToSet(turns[t].results)
      BY DEF FreshIds
    <2>3. QED
      BY <2>1, <2>2 DEF ToSet
  <1>5. names \in Seq(STRING) /\ DOMAIN names \subseteq {1, 2}
    <2>1. names \in Seq(STRING) /\ Len(names) <= 2
      BY PromptAssumption
    <2>2. DOMAIN names = 1..Len(names) /\ Len(names) \in Nat
      BY <2>1, LenProperties
    <2>3. QED
      BY <2>1, <2>2
  <1>6. \A k \in DOMAIN names : names[k] \in STRING
    BY <1>5, LenProperties, ElementOfSeq
  <1>7. \A k \in DOMAIN names : <<x, y>>[k] = IF k = 1 THEN x ELSE y
    BY <1>5
  <1>8. DOMAIN calls = DOMAIN names /\ \A k \in DOMAIN names : calls[k] = [id |-> IF k = 1 THEN x ELSE y, name |-> names[k]]
    BY <1>7
  <1> HIDE DEF calls
  <1>9. \A k \in DOMAIN names : calls[k] \in Calls /\ calls[k].id = IF k = 1 THEN x ELSE y
    BY <1>4, <1>6, <1>8 DEF Calls
  <1>10. calls \in Seq(Calls)
    <2>1. DOMAIN names = 1..Len(names) /\ Len(names) \in Nat
      BY <1>5, LenProperties
    <2>2. calls = [k \in 1..Len(names) |-> calls[k]]
      BY <1>8, <2>1 DEF calls
    <2>3. calls \in [1..Len(names) -> Calls]
      BY <1>9, <2>1, <2>2
    <2>4. QED
      BY <2>1, <2>3, SeqDef
  <1>11. z \in Turns(Texts) /\ z.role = "assistant" /\ z.calls = calls /\ z.results = <<>>
    <2>1. text \in Texts /\ <<>> \in Seq(Nat)
      BY EmptySeq DEF Texts
    <2>2. QED
      BY <1>10, <2>1 DEF Turn, Turns
  <1> HIDE DEF z
  <1>12. \A k \in DOMAIN z.calls, l \in DOMAIN z.calls : z.calls[k].id = z.calls[l].id => k = l
    <2>1. x # y
      BY <1>1, <1>4
    <2>2. QED
      BY <1>5, <1>8, <1>9, <1>11, <2>1
  <1>13. \A k \in DOMAIN z.calls, t \in DOMAIN turns :
           /\ \A l \in DOMAIN turns[t].calls : turns[t].calls[l].id # z.calls[k].id
           /\ \A l \in DOMAIN turns[t].results : turns[t].results[l] # z.calls[k].id
    <2>1. \A k \in DOMAIN z.calls : z.calls[k].id \in {x, y}
      BY <1>8, <1>9, <1>11
    <2>2. QED
      BY <1>4, <2>1
  <1>14. DOMAIN z.results = {}
    BY <1>11
  <1>15. IsConversation(Append(turns, z), Texts)
    BY <1>3, <1>11, <1>12, <1>13, <1>14, GoesOn
  <1>16. IsConversation(<<>>, Texts)
    <2>1. <<>> \in Seq(Turns(Texts)) /\ DOMAIN <<>> = {}
      BY EmptySeq
    <2>2. QED
      BY <2>1 DEF IsConversation, Texts
  <1>17. turns' \in {Append(turns, z), <<>>}
    BY <1>1 DEF Adds, z, calls
  <1>18. QED
    BY <1>2, <1>15, <1>16, <1>17 DEF Talked, Texts

\* Every step keeps the conversation one that a client can get into.
LEMMA TalkedInductive == (Init => Talked) /\ (Talked /\ [Next]_vars => Talked')
  <1>1. \A texts : "words" \in texts => IsConversation(<<>>, texts)
    <2>1. \A texts : <<>> \in Seq(Turns(texts))
      BY EmptySeq
    <2>2. DOMAIN <<>> = {}
      OBVIOUS
    <2>3. QED
      BY <2>1, <2>2 DEF IsConversation
  <1>2. "words" \in Texts
    BY DEF Texts
  <1>3. Init => Talked
    BY <1>1, <1>2 DEF Init, Talked
  <1>4. ASSUME Talked, Forget PROVE Talked'
    <2>1. IsConversation(Tail(turns), Texts)
      BY <1>4, Forgets DEF Talked, Forget
    <2>2. QED
      BY <1>4, <2>1 DEF Talked, Forget, Texts
  <1>5. ASSUME Talked, StartOver PROVE Talked'
    BY <1>1, <1>2, <1>5 DEF Talked, StartOver, Texts
  <1>6. ASSUME Talked, UNCHANGED <<client, turns>> PROVE Talked'
    BY <1>6 DEF Talked, Texts
  <1>7. Send \/ Pick \/ UploadImages \/ UploadImagesFails \/ UploadContext \/ Acquire \/ AcquireFails
        \/ Refused \/ CaptchaSolved \/ Fails \/ UNCHANGED vars => UNCHANGED <<client, turns>>
    BY DEF Send, Pick, UploadImages, UploadImagesFails, UploadContext, Acquire, AcquireFails,
           Refused, CaptchaSolved, Fails, vars
  <1>8. QED
    BY <1>3, <1>4, <1>5, <1>6, <1>7, AskStep, AnsweredStep DEF Next

\* Every step of a request keeps its prompt.
LEMMA BuiltInductive == (Init => Built) /\ (Built /\ [Next]_vars => Built')
  <1>1. Init => Built
    BY DEF Init, Built, Requesting
  <1> SUFFICES ASSUME Built, [Next]_vars PROVE Built'
    BY <1>1
  <1>2. ASSUME phase' = "client" PROVE Built'
    BY <1>2 DEF Built, Requesting
  <1>3. ASSUME phase # "client", UNCHANGED <<client, turns, tools, segs, split>> PROVE Built'
    <2>1. Messages' = Messages /\ Options(tools)' = Options(tools)
      BY <1>3 DEF Messages, Options
    <2>2. segs = BuildQwenMessages(Messages, Options(tools)) /\ split = SplitPrompt(segs)
      BY <1>3 DEF Built, Requesting
    <2>3. QED
      BY <1>3, <2>1, <2>2 DEF Built
  <1>4. ASSUME Send PROVE Built'
    <2>1. PICK ts \in ToolSets :
            \E s \in {BuildQwenMessages(Messages, Options(ts))} :
              tools' = ts /\ segs' = s /\ split' = SplitPrompt(s)
      BY <1>4 DEF Send
    <2>2. tools' = ts /\ segs' = BuildQwenMessages(Messages, Options(ts)) /\ split' = SplitPrompt(segs')
      BY <2>1
    <2>3. client' = client /\ turns' = turns
      BY <1>4 DEF Send
    <2>4. Messages' = Messages /\ Options(tools)' = Options(ts)
      BY <2>2, <2>3 DEF Messages, Options
    <2>5. QED
      BY <2>2, <2>4 DEF Built
  <1>5. ASSUME NEW a, NEW b, NextAttempt(a, b) PROVE phase' = "client" \/ UNCHANGED <<tools, segs, split>>
    BY <1>5 DEF NextAttempt, GiveUp
  <1>6. Ask \/ Forget \/ StartOver \/ Fails \/ UploadImagesFails \/ Answered => phase' = "client"
    BY DEF Ask, Forget, StartOver, Fails, UploadImagesFails, Answered, GiveUp
  <1>7. AcquireFails \/ Refused \/ CaptchaSolved =>
          phase' = "client" \/ (phase # "client" /\ UNCHANGED <<client, turns, tools, segs, split>>)
    BY <1>5 DEF AcquireFails, Refused, CaptchaSolved
  <1>8. UploadImages \/ UploadContext \/ Acquire =>
          phase # "client" /\ UNCHANGED <<client, turns, tools, segs, split>>
    BY DEF UploadImages, UploadContext, Acquire
  <1>9. Pick => phase' = "client" \/ (phase # "client" /\ UNCHANGED <<client, turns, tools, segs, split>>)
    BY DEF Pick, GiveUp
  <1>10. UNCHANGED vars => phase' = "client" \/ (phase # "client" /\ UNCHANGED <<client, turns, tools, segs, split>>)
    BY DEF vars, requestVars
  <1>11. QED
    BY <1>2, <1>3, <1>4, <1>6, <1>7, <1>8, <1>9, <1>10 DEF Next

\* The images come last.
LEMMA AttachedIs ==
  ASSUME NEW kept \in Seq(Files), images \in BOOLEAN, acct \in Accounts \cup {None}
  PROVE  /\ Attached(kept) \in Seq(Files) /\ ToSet(kept) \subseteq ToSet(Attached(kept))
         /\ images => File("images") \in ToSet(Attached(kept))
  <1> DEFINE more == IF images THEN <<File("images")>> ELSE <<>>
             s == kept \o more
  <1>1. File("images") \in Files
    BY DEF File, Files
  <1>2. /\ more \in Seq(Files) /\ (images => Len(more) = 1 /\ more[1] = File("images"))
    <2>1. CASE images
      BY <1>1, <2>1, One
    <2>2. CASE ~images
      BY <2>2, EmptySeq
    <2>3. QED
      BY <2>1, <2>2
  <1> HIDE DEF more
  <1>3. /\ s \in Seq(Files) /\ Len(kept) \in Nat /\ Len(more) \in Nat /\ Len(s) = Len(kept) + Len(more)
        /\ \A k \in 1..Len(kept) : s[k] = kept[k]
        /\ \A k \in 1..Len(more) : s[Len(kept) + k] = more[k]
    <2>1. kept \in Seq(Files) /\ more \in Seq(Files)
      BY <1>2
    <2>2. QED
      BY ONLY <2>1, ConcatAt
  <1>4. Attached(kept) = s
    BY DEF Attached, more
  <1> HIDE DEF s
  <1>5. DOMAIN s = 1..Len(s) /\ DOMAIN kept = 1..Len(kept)
    BY <1>3, LenProperties
  <1>6. ToSet(kept) \subseteq ToSet(s)
    <2>1. \A k \in 1..Len(kept) : k \in 1..Len(s)
      BY <1>3
    <2>2. QED
      BY <1>3, <1>5, <2>1 DEF ToSet
  <1>7. ASSUME images PROVE File("images") \in ToSet(s)
    <2>1. 1 \in 1..Len(more) /\ Len(kept) + 1 \in 1..Len(s)
      <3>1. Len(more) = 1 /\ Len(kept) \in Nat /\ Len(s) = Len(kept) + Len(more)
        BY <1>2, <1>3, <1>7
      <3>2. QED
        BY ONLY <3>1
    <2>2. s[Len(kept) + 1] = File("images")
      BY <1>2, <1>3, <1>7, <2>1
    <2>3. QED
      BY <1>5, <2>1, <2>2 DEF ToSet
  <1>8. QED
    BY <1>3, <1>4, <1>6, <1>7

\* Every step of a request keeps what it has uploaded.
LEMMA UploadedInductive == (Init => Uploaded) /\ (Uploaded /\ [Next]_vars => Uploaded')
  <1>1. Init => Uploaded
    BY EmptySeq DEF Init, Uploaded
  <1> SUFFICES ASSUME Uploaded, [Next]_vars PROVE Uploaded'
    BY <1>1
  <1> DEFINE Typed ==
        /\ acct \in Accounts \cup {None} /\ retrySame \in Accounts \cup {None}
        /\ images \in BOOLEAN /\ files \in Seq(Files)
  <1>2. Typed
    BY DEF Uploaded
  <1>3. UNCHANGED <<client, turns>> => HasImages' = HasImages
    BY DEF HasImages, Messages
  <1>4. NoRequest => Typed'
    BY EmptySeq DEF NoRequest
  <1>5. ASSUME phase' \in {"client", "pick"}, Typed' PROVE Uploaded'
    BY <1>5 DEF Uploaded
  <1>6. ASSUME NEW a, NEW b \in Accounts \cup {None}, NextAttempt(a, b)
        PROVE  phase' \in {"client", "pick"} /\ Typed'
    BY <1>2, <1>4, <1>6 DEF NextAttempt, GiveUp
  <1> HIDE DEF Typed
  <1>7. Ask \/ Forget \/ StartOver \/ Send => phase' \in {"client", "pick"} /\ Typed'
    BY <1>2 DEF Ask, Forget, StartOver, Send, requestVars, attemptVars, Typed
  <1>8. Fails \/ UploadImagesFails \/ Answered => phase' \in {"client", "pick"} /\ Typed'
    BY <1>4 DEF Fails, UploadImagesFails, Answered, GiveUp
  <1>9. AcquireFails \/ Refused \/ CaptchaSolved => phase' \in {"client", "pick"} /\ Typed'
    <2>1. acct \in Accounts \cup {None} /\ None \in Accounts \cup {None}
      BY <1>2 DEF Typed
    <2>2. QED
      BY <1>6, <2>1 DEF AcquireFails, Refused, CaptchaSolved
  <1>10. ASSUME Pick PROVE Uploaded'
    <2>1. PICK a \in (IF retrySame # None THEN {retrySame} ELSE (Accounts \ {lastFailed}) \cup {None}) :
            IF a = None /\ attempt > 0 THEN GiveUp
            ELSE /\ acct' = a /\ retrySame' = None
                 /\ context' = IF a = None THEN "skipped" ELSE "none"
                 /\ phase' = IF a = None THEN "acquire" ELSE IF HasImages THEN "images" ELSE "context"
                 /\ UNCHANGED <<tools, segs, split, files, images, attempt, lastFailed>>
      BY <1>10 DEF Pick
    <2>2. a \in Accounts \cup {None}
      BY <1>2 DEF Typed
    <2>3. HasImages' = HasImages
      BY <1>3, <1>10 DEF Pick
    <2>4. CASE a = None /\ attempt > 0
      BY <1>4, <1>5, <2>1, <2>4 DEF GiveUp
    <2>5. CASE ~(a = None /\ attempt > 0)
      <3>1. /\ acct' = a /\ retrySame' = None
            /\ context' = (IF a = None THEN "skipped" ELSE "none")
            /\ phase' = (IF a = None THEN "acquire" ELSE IF HasImages THEN "images" ELSE "context")
            /\ files' = files /\ images' = images
        BY <2>1, <2>5
      <3>2. Typed'
        BY <1>2, <2>2, <3>1 DEF Typed
      <3>3. CASE a = None
        BY <3>1, <3>2, <3>3 DEF Uploaded, Typed
      <3>4. CASE a # None
        BY <2>3, <3>1, <3>2, <3>4 DEF Uploaded, Typed
      <3>5. QED
        BY <3>3, <3>4
    <2>6. QED
      BY <2>4, <2>5
  <1>11. ASSUME UploadImages PROVE Uploaded'
    <2>1. /\ phase = "images" /\ images' = TRUE /\ phase' = "context" /\ acct' = acct /\ context' = context
          /\ retrySame' = retrySame /\ files' = files
      BY <1>11 DEF UploadImages
    <2>2. QED
      BY <2>1 DEF Uploaded
  <1>12. ASSUME UploadContext PROVE Uploaded'
    <2>1. PICK c \in (IF split.older # <<>> \/ HasResults THEN {"sent", "failed"} ELSE {"none"}) :
            context' = c /\ files' = Attached(IF c = "sent" THEN <<File("context")>> ELSE files)
      BY <1>12 DEF UploadContext
    <2>2. /\ phase = "context" /\ phase' = "acquire" /\ acct' = acct /\ images' = images
          /\ retrySame' = retrySame /\ split' = split /\ UNCHANGED <<client, turns>>
      BY <1>12 DEF UploadContext
    <2>3. HasImages' = HasImages /\ \A kind : File(kind)' = File(kind)
      BY <1>3, <2>2 DEF File
    <2>4. acct # None /\ (HasImages => images)
      BY <2>2 DEF Uploaded
    <2> DEFINE kept == IF c = "sent" THEN <<File("context")>> ELSE files
    <2>5. kept \in Seq(Files) /\ (c = "sent" => File("context") \in ToSet(kept))
      <3>1. CASE c = "sent"
        <4>1. File("context") \in Files
          BY <1>2 DEF File, Files, Typed
        <4>2. kept = <<File("context")>>
          BY <3>1
        <4> HIDE DEF kept
        <4>3. kept \in Seq(Files) /\ Len(kept) = 1 /\ kept[1] = File("context")
          BY <4>1, <4>2, One
        <4>4. 1 \in DOMAIN kept
          BY <4>3, LenProperties
        <4>5. QED
          BY <4>3, <4>4 DEF ToSet
      <3>2. CASE c # "sent"
        BY <1>2, <3>2 DEF Typed
      <3>3. QED
        BY <3>1, <3>2
    <2> HIDE DEF kept
    <2>6. /\ Attached(kept) \in Seq(Files) /\ ToSet(kept) \subseteq ToSet(Attached(kept))
          /\ images => File("images") \in ToSet(Attached(kept))
      <3>1. images \in BOOLEAN /\ acct \in Accounts \cup {None}
        BY <1>2 DEF Typed
      <3>2. QED
        BY <2>5, <3>1, AttachedIs
    <2>7. files' = Attached(kept)
      BY <2>1 DEF kept
    <2>8. Typed'
      BY <1>2, <2>2, <2>6, <2>7 DEF Typed
    <2>9. /\ context' \in {"none", "sent", "failed", "skipped"}
          /\ context' = "none" => split'.older = <<>>
      BY <2>1, <2>2
    <2>10. context' = "sent" => File("context")' \in ToSet(files')
      BY <2>1, <2>3, <2>5, <2>6, <2>7
    <2>11. acct' # None /\ (HasImages' => File("images")' \in ToSet(files'))
      BY <2>2, <2>3, <2>4, <2>6, <2>7
    <2>12. QED
      BY <2>2, <2>8, <2>9, <2>10, <2>11 DEF Uploaded, Typed
  <1>13. ASSUME Acquire PROVE Uploaded'
    <2>1. PICK a \in (IF acct = None THEN Accounts ELSE {acct}) : acct' = a
      BY <1>13 DEF Acquire
    <2>2. /\ phase = "acquire" /\ phase' = "fetch" /\ split' = split /\ files' = files /\ images' = images
          /\ context' = context /\ retrySame' = retrySame /\ UNCHANGED <<client, turns>>
      BY <1>13 DEF Acquire
    <2>3. HasImages' = HasImages
      BY <1>3, <2>2
    <2>4. Typed'
      BY <1>2, <2>1, <2>2 DEF Typed
    <2>5. /\ context \in {"none", "sent", "failed", "skipped"}
          /\ context = "none" => split.older = <<>>
          /\ context = "sent" => File("context") \in ToSet(files)
          /\ context # "skipped" => acct # None /\ (HasImages => File("images") \in ToSet(files))
      BY <2>2 DEF Uploaded
    <2>6. context # "skipped" => acct' = acct /\ \A kind : File(kind)' = File(kind)
      BY <2>1, <2>5 DEF File
    <2>7. /\ context' \in {"none", "sent", "failed", "skipped"}
          /\ context' = "none" => split'.older = <<>>
      BY <2>2, <2>5
    <2>8. context' = "sent" => File("context")' \in ToSet(files')
      BY <2>2, <2>5, <2>6
    <2>9. context' # "skipped" => acct' # None /\ (HasImages' => File("images")' \in ToSet(files'))
      BY <2>2, <2>3, <2>5, <2>6
    <2>10. QED
      BY <2>2, <2>4, <2>7, <2>8, <2>9 DEF Uploaded, Typed
  <1>14. ASSUME UNCHANGED vars PROVE Uploaded'
    <2>1. HasImages' = HasImages /\ \A kind : File(kind)' = File(kind)
      BY <1>3, <1>14 DEF vars, requestVars, attemptVars, File
    <2>2. UNCHANGED <<phase, split, files, images, context, acct, retrySame>>
      BY <1>14 DEF vars, requestVars, attemptVars
    <2>3. QED
      BY <2>1, <2>2 DEF Uploaded
  <1>15. QED
    BY <1>5, <1>7, <1>8, <1>9, <1>10, <1>11, <1>12, <1>13, <1>14 DEF Next

-----------------------------------------------------------------------------
(* Theorems *)

\* A client never gets into a conversation where a result has lost its call by less
\* than the whole turn, or an id belongs to two calls.
THEOREM ConversationHolds == Spec => []Talked
  BY TalkedInductive, PTL DEF Spec

\* What is written of a call and of its result is in lockstep, in every conversation
\* and for every limit (buildQwenMessages, chatHelpers.ts:108-112).
THEOREM HistoryInLockstepHolds == Spec => []HistoryInLockstep
  <1>1. Talked /\ Built => HistoryInLockstep
    BY LockstepHolds
  <1>2. QED
    BY <1>1, TalkedInductive, BuiltInductive, PTL DEF Spec

\* Everything a client says reaches the upstream, in its order (setupSession).
THEOREM NothingLostHolds == Spec => []NothingLost
  <1>1. Talked /\ Built /\ Uploaded => NothingLost
    BY NothingLostNow
  <1>2. QED
    BY <1>1, TalkedInductive, BuiltInductive, UploadedInductive, PTL DEF Spec

=============================================================================
