---------------------------- MODULE StreamProofs ----------------------------
(***************************************************************************)
(* Theorems about ChatStream, for every answer, cut, fault and queue size: *)
(* a stream is released once (EndInv), the client is told how it ended,    *)
(* its finish reason agrees with the calls written and no call is written  *)
(* twice (ToldInv).                                                         *)
(***************************************************************************)
EXTENDS ChatStream, CommonLemmas

-----------------------------------------------------------------------------
(* When a stream is released *)

\* What each way to the end of a stream has done when: the inductive part of
\* ReleasedOnce is that nothing is being written once the log entry is finalized.
EndInv ==
    /\ pc \in Pcs
    /\ log \in [failed : BOOLEAN, finalized : Nat]
    /\ log.finalized = (IF pc \in {"cleanup", "over"} THEN 1 ELSE 0)
    /\ released = (IF pc = "over" THEN 1 ELSE 0)
    /\ pc \in {"cleanup", "over"} => out = <<>>
    /\ pc = "over" => cancelled

LEMMA InitEnd == Init => EndInv
  BY DEF Init, EndInv, Pcs

\* The upstream, the client and the writes leave the handler where it is.
LEMMA OthersEnd ==
    ASSUME EndInv, Upstream \/ ClientLeaves \/ Written
    PROVE  EndInv'
  <1>1. CASE Upstream
    BY <1>1 DEF EndInv, Upstream, SendAnswer, SendRepeat, SendAside, SendError, SendPayload,
                SendDone, HangUp, Break, Send, handler, ended
  <1>2. CASE ClientLeaves
    BY <1>2 DEF EndInv, ClientLeaves, handler, ended
  <1>3. CASE Written
    BY <1>3 DEF EndInv, Written, ended
  <1> QED BY <1>1, <1>2, <1>3

\* The loop ends nothing: its steps start in "loop" or "reading".
LEMMA LoopEnd ==
    ASSUME EndInv,
           \/ CheckAbort \/ TakeDone \/ TakeError \/ TakePayload \/ TakeThought \/ TakeTool
           \/ TakeAnswer \/ ReadEnd \/ ReadBroken \/ IdleTimeout
    PROVE  EndInv'
  <1>1. CASE CheckAbort
    BY <1>1 DEF EndInv, CheckAbort, Pcs
  <1>2. CASE TakeDone
    BY <1>2 DEF EndInv, TakeDone, Take, ended, Pcs
  <1>3. CASE TakeError
    BY <1>3 DEF EndInv, TakeError, Take, ended, Pcs
  <1>4. CASE TakePayload
    BY <1>4 DEF EndInv, TakePayload, Take, AfterEvent, ended, Pcs
  <1>5. CASE TakeThought
    BY <1>5 DEF EndInv, TakeThought, Take, AfterEvent, ended, Pcs
  <1>6. CASE TakeTool
    BY <1>6 DEF EndInv, TakeTool, Take, AfterEvent, ended, Pcs
  <1>7. CASE TakeAnswer
    <2>1. pc = "reading" /\ pc' \in {"loop", "reading", "post"} /\ UNCHANGED <<log, ended>>
      BY <1>7 DEF TakeAnswer, Take, AfterEvent
    <2> QED BY <2>1 DEF EndInv, ended, Pcs
  <1>8. CASE ReadEnd
    BY <1>8 DEF EndInv, ReadEnd, ended, Pcs
  <1>9. CASE ReadBroken
    BY <1>9 DEF EndInv, ReadBroken, ended, Pcs
  <1>10. CASE IdleTimeout
    BY <1>10 DEF EndInv, IdleTimeout, ended, Pcs
  <1> QED BY <1>1, <1>2, <1>3, <1>4, <1>5, <1>6, <1>7, <1>8, <1>9, <1>10

\* The ways out: two finalize the entry, two release the conversation, and no run of
\* the handler takes both of either.
LEMMA WayOutEnd ==
    ASSUME EndInv, PostStream \/ Complete \/ ScheduledCleanup \/ CloseNow
    PROVE  EndInv'
  <1>1. CASE PostStream
    <2>1. /\ pc = "post" /\ pc' \in {"completing", "silent"}
          /\ log' \in {log, [log EXCEPT !.failed = TRUE]} /\ UNCHANGED ended
      BY <1>1 DEF PostStream
    <2> QED BY <2>1 DEF EndInv, ended, Pcs
  <1>2. CASE Complete
    BY <1>2 DEF EndInv, Complete, ended, Pcs
  <1>3. CASE ScheduledCleanup
    BY <1>3 DEF EndInv, ScheduledCleanup, Pcs
  <1>4. CASE CloseNow
    BY <1>4 DEF EndInv, CloseNow, Pcs
  <1> QED BY <1>1, <1>2, <1>3, <1>4

LEMMA StreamEndHolds == Spec => []EndInv
  <1>1. EndInv /\ [Next]_vars => EndInv'
    <2> SUFFICES ASSUME EndInv, [Next]_vars PROVE EndInv'
      OBVIOUS
    <2>1. CASE Upstream \/ ClientLeaves \/ Written
      BY <2>1, OthersEnd
    <2>2. CASE Handler
      BY <2>2, LoopEnd, WayOutEnd DEF Handler
    <2>3. CASE UNCHANGED vars
      BY <2>3 DEF EndInv, vars, ended
    <2> QED BY <2>1, <2>2, <2>3 DEF Next
  <1> QED BY InitEnd, <1>1, PTL DEF Spec

\* Whatever ends a stream (its end, an error, the idle timer, a broken connection, the
\* client), the entry is finalized once and the conversation released once, last.
THEOREM StreamReleasedOnce == Spec => []ReleasedOnce
  <1>1. EndInv => ReleasedOnce
    BY DEF EndInv, ReleasedOnce
  <1> QED BY StreamEndHolds, <1>1, PTL

-----------------------------------------------------------------------------
(* The calls of an answer *)

\* Text that waits for the rest of a tag ends no call.
LEMMA WaitingEndsNoCall ==
  ASSUME NEW a \in Seq(STRING), NEW b \in Seq(STRING), ToolCalls(a) = <<>>,
         b = <<>> \/ Waits(b)
  PROVE  ToolCalls(a \o b) = <<>>
  <1> DEFINE n == Len(a)
             ab == a \o b
  <1>1. /\ n \in Nat /\ Len(b) \in Nat
        /\ ab \in Seq(STRING) /\ Len(ab) = n + Len(b)
        /\ \A i \in 1..n + Len(b) : ab[i] = IF i <= n THEN a[i] ELSE b[i - n]
    BY LenProperties, ConcatProperties
  <1>2. \A k \in 1..Len(b) : b[k] # Close
    BY EmptySeq DEF Waits, HasGt, Contains
  <1> HIDE DEF ab
  <1>3. ASSUME NEW i \in 1..Len(ab) PROVE ~EndsCall(ab, i)
    <2>1. CASE i <= n
      <3>1. i \in 1..n /\ i \in 0..n /\ i - 1 \in 0..n
        BY <1>1, <1>3, <2>1
      <3>2. ~EndsCall(a, i)
        BY <3>1, ToolCallsAre
      <3>3. Inside(ab)[i] = Inside(a)[i] /\ Inside(ab)[i - 1] = Inside(a)[i - 1]
        BY <3>1, InsidePrefix DEF ab
      <3>4. QED
        BY <3>2, <3>3 DEF EndsCall
    <2>2. CASE i > n
      <3>1. i - n \in 1..Len(b) /\ ab[i] = b[i - n]
        BY <1>1, <1>3, <2>2
      <3>2. ab[i] # Close
        BY <1>2, <3>1
      <3>3. ~Inside(ab)[0]
        BY <1>1, InsideIs
      <3>4. Inside(ab)[i] = IF i < 2 THEN FALSE
                            ELSE IF Inside(ab)[i - 1] THEN ~(ab[i - 1] = Lt /\ ab[i] = Close)
                            ELSE ab[i - 1] = Lt /\ ab[i] = Open
        BY <1>1, InsideIs
      <3>5. i < 2 => i - 1 = 0
        BY <1>1
      <3>6. QED
        BY <3>2, <3>3, <3>4, <3>5 DEF EndsCall
    <2>3. QED
      BY <1>1, <2>1, <2>2
  <1>4. QED
    BY <1>1, <1>3, ToolCallsAre DEF ab

-----------------------------------------------------------------------------
(* What the client is told *)

EventKinds == {"thought", "call", "content", "error", "failed", "silence", "stop",
               "tool_calls", "done"}
EventRecord == [kind : EventKinds, text : Seq(STRING) \cup {LocalCall}]
Message == [kind : {"answer", "think", "tool", "error", "payload", "done"},
            text : Seq(STRING), last : BOOLEAN]

\* Everything the client is told: what is written, and what is being written.
Told == written \o out

\* Ends with its only [DONE].
Ends(events) ==
    /\ events # <<>>
    /\ \A i \in 1..Len(events) : events[i].kind = "done" <=> i = Len(events)

CallTexts(events) == {events[i].text : i \in {j \in 1..Len(events) : events[j].kind = "call"}}

\* No call is told twice.
Once(events) ==
    \A i, j \in 1..Len(events) : events[i].kind = "call" /\ events[i] = events[j] => i = j

StreamTypes ==
    /\ text \in Seq(STRING) /\ sent \in 0..Len(text)
    /\ queue \in Seq(Message)
    /\ pc \in Pcs
    /\ st \in [lastV : Seq(STRING), pending : Seq(STRING), full : Seq(STRING),
               shown : Seq(STRING), depth : Nat, calls : SUBSET (Seq(STRING) \cup {LocalCall}),
               reasoned : BOOLEAN]
    /\ payload \in BOOLEAN
    /\ log \in [failed : BOOLEAN, finalized : Nat]
    /\ out \in Seq(EventRecord) /\ written \in Seq(EventRecord)

InLoop == pc \in {"loop", "reading", "post"}

\* While the loop runs no end has been told and an error is told exactly when it
\* is logged; afterwards what was told ends with [DONE], a failure that is logged
\* was told, and the reason given agrees with the calls told.
TellInv ==
    /\ InLoop =>
         /\ Kinds(Told) \cap {"done", "silence", "stop", "tool_calls"} = {}
         /\ log.failed <=> "error" \in Kinds(Told)
    /\ ~InLoop =>
         /\ Ends(Told)
         /\ pc = "silent" => "silence" \in Kinds(Told)
         /\ ~payload /\ pc # "silent" =>
              (log.failed <=> Kinds(Told) \cap {"error", "silence"} # {})
         /\ "tool_calls" \in Kinds(Told) => "call" \in Kinds(Told)
         /\ "stop" \in Kinds(Told) => "call" \notin Kinds(Told)
         /\ "call" \notin Kinds(out)

\* The calls told are the calls remembered, each once; text that waits could
\* still become a call, and without a call there is none in the whole text.
CallInv ==
    /\ CallTexts(Told) = st.calls
    /\ Once(Told)
    /\ st.pending = <<>> \/ Waits(st.pending)
    /\ st.calls = {} => ToolCalls(st.full) = <<>>

\* The inductive invariant of the finish and of the calls.
ToldInv == StreamTypes /\ TellInv /\ CallInv

-----------------------------------------------------------------------------

LEMMA EventsAdd ==
  ASSUME NEW a \in Seq(EventRecord), NEW b \in Seq(EventRecord)
  PROVE  /\ a \o b \in Seq(EventRecord)
         /\ Kinds(a \o b) = Kinds(a) \cup Kinds(b)
         /\ CallTexts(a \o b) = CallTexts(a) \cup CallTexts(b)
         /\ Once(a) /\ Once(b) /\ CallTexts(a) \cap CallTexts(b) = {} => Once(a \o b)
         /\ "done" \notin Kinds(a) /\ Ends(b) => Ends(a \o b)
  <1> DEFINE m == Len(a)
             n == Len(b)
             c == a \o b
  <1>1. /\ m \in Nat /\ n \in Nat /\ c \in Seq(EventRecord) /\ Len(c) = m + n
        /\ \A i \in 1..m + n : c[i] = IF i <= m THEN a[i] ELSE b[i - m]
    BY LenProperties, ConcatProperties
  <1> HIDE DEF c
  <1>2. \A i \in 1..m : i \in 1..m + n /\ c[i] = a[i]
    BY <1>1
  <1>3. \A i \in 1..n : i + m \in 1..m + n /\ c[i + m] = b[i]
    BY <1>1
  <1>4. ASSUME NEW i \in 1..m + n PROVE i \in 1..m \/ (i - m \in 1..n /\ c[i] = b[i - m])
    <2> HIDE DEF m, n
    <2>1. CASE i <= m
      BY <1>1, <2>1
    <2>2. CASE i > m
      BY <1>1, <2>2
    <2>3. QED
      BY <1>1, <2>1, <2>2
  <1> HIDE DEF m, n
  <1>5. Kinds(c) = Kinds(a) \cup Kinds(b)
    <2>1. /\ Kinds(c) = {c[i].kind : i \in 1..m + n}
          /\ Kinds(a) = {a[i].kind : i \in 1..m} /\ Kinds(b) = {b[i].kind : i \in 1..n}
      BY <1>1 DEF Kinds, m, n
    <2>2. Kinds(c) \subseteq Kinds(a) \cup Kinds(b)
      BY <1>2, <1>4, <2>1
    <2>3. Kinds(a) \subseteq Kinds(c) /\ Kinds(b) \subseteq Kinds(c)
      BY <1>2, <1>3, <2>1
    <2>4. QED
      BY <2>2, <2>3
  <1>6. CallTexts(c) = CallTexts(a) \cup CallTexts(b)
    <2> DEFINE Call(s, k) == {i \in 1..k : s[i].kind = "call"}
    <2>1. /\ CallTexts(c) = {c[i].text : i \in Call(c, m + n)}
          /\ CallTexts(a) = {a[i].text : i \in Call(a, m)}
          /\ CallTexts(b) = {b[i].text : i \in Call(b, n)}
      BY <1>1 DEF CallTexts, m, n
    <2>2. CallTexts(c) \subseteq CallTexts(a) \cup CallTexts(b)
      BY <1>2, <1>4, <2>1
    <2>3. CallTexts(a) \subseteq CallTexts(c) /\ CallTexts(b) \subseteq CallTexts(c)
      BY <1>2, <1>3, <2>1
    <2>4. QED
      BY <2>2, <2>3
  <1>7. ASSUME Once(a), Once(b), CallTexts(a) \cap CallTexts(b) = {}
        PROVE  Once(c)
    <2> SUFFICES ASSUME NEW i \in 1..m + n, NEW j \in 1..m + n, c[i].kind = "call", c[i] = c[j]
                 PROVE  i = j
      BY <1>1 DEF Once
    <2>1. \A k \in 1..m : a[k].kind = "call" => a[k].text \in CallTexts(a)
      BY DEF CallTexts, m
    <2>2. \A k \in 1..n : b[k].kind = "call" => b[k].text \in CallTexts(b)
      BY DEF CallTexts, n
    <2>3. CASE i \in 1..m /\ j \in 1..m
      BY <1>2, <1>7, <2>3 DEF Once, m
    <2>4. CASE i \notin 1..m /\ j \notin 1..m
      <3>1. i - m = j - m
        BY <1>4, <1>7, <2>4 DEF Once, n
      <3>2. QED
        BY <1>1, <3>1
    <2>5. CASE i \in 1..m /\ j \notin 1..m
      BY <1>2, <1>4, <1>7, <2>1, <2>2, <2>5
    <2>6. CASE i \notin 1..m /\ j \in 1..m
      BY <1>2, <1>4, <1>7, <2>1, <2>2, <2>6
    <2>7. QED
      BY <2>3, <2>4, <2>5, <2>6
  <1>8. ASSUME "done" \notin Kinds(a), Ends(b)
        PROVE  Ends(c)
    <2>1. \A i \in 1..m : a[i].kind # "done"
      BY <1>8 DEF Kinds, m
    <2>2. n # 0
      BY <1>8, EmptySeq DEF Ends, n
    <2>3. c # <<>>
      BY <1>1, <2>2, EmptySeq
    <2>4. ASSUME NEW i \in 1..m + n PROVE c[i].kind = "done" <=> i = m + n
      <3>1. CASE i \in 1..m
        <4>1. i # m + n
          BY <1>1, <2>2, <3>1
        <4>2. QED
          BY <1>2, <2>1, <3>1, <4>1
      <3>2. CASE i \notin 1..m
        <4>1. i - m \in 1..n /\ c[i] = b[i - m]
          BY <1>4, <3>2
        <4>2. c[i].kind = "done" <=> i - m = n
          BY <1>8, <4>1 DEF Ends, n
        <4>3. QED
          BY <1>1, <4>2
      <3>3. QED
        BY <3>1, <3>2
    <2>5. QED
      BY <1>1, <2>3, <2>4 DEF Ends
  <1>9. QED
    BY <1>1, <1>5, <1>6, <1>7, <1>8 DEF c

LEMMA FewEvents ==
  /\ Kinds(<<>>) = {} /\ CallTexts(<<>>) = {} /\ Once(<<>>) /\ <<>> \in Seq(EventRecord)
  /\ \A e \in EventRecord :
       /\ <<e>> \in Seq(EventRecord)
       /\ Kinds(<<e>>) = {e.kind}
       /\ CallTexts(<<e>>) = IF e.kind = "call" THEN {e.text} ELSE {}
       /\ Once(<<e>>)
       /\ e.kind = "done" => Ends(<<e>>)
  <1>1. Kinds(<<>>) = {} /\ CallTexts(<<>>) = {} /\ Once(<<>>) /\ <<>> \in Seq(EventRecord)
    BY DEF Kinds, CallTexts, Once
  <1>2. ASSUME NEW e \in EventRecord
        PROVE  /\ <<e>> \in Seq(EventRecord)
               /\ Kinds(<<e>>) = {e.kind}
               /\ CallTexts(<<e>>) = IF e.kind = "call" THEN {e.text} ELSE {}
               /\ Once(<<e>>)
               /\ e.kind = "done" => Ends(<<e>>)
    <2>1. <<e>> \in Seq(EventRecord) /\ Len(<<e>>) = 1 /\ <<e>>[1] = e /\ <<e>> # <<>>
      OBVIOUS
    <2>2. 1..1 = {1}
      OBVIOUS
    <2>3. Kinds(<<e>>) = {e.kind}
      BY <2>1, <2>2 DEF Kinds
    <2>4. CallTexts(<<e>>) = IF e.kind = "call" THEN {e.text} ELSE {}
      BY <2>1, <2>2 DEF CallTexts
    <2>5. Once(<<e>>)
      BY <2>1, <2>2 DEF Once
    <2>6. e.kind = "done" => Ends(<<e>>)
      BY <2>1, <2>2 DEF Ends
    <2>7. QED
      BY <2>1, <2>3, <2>4, <2>5, <2>6
  <1>3. QED
    BY <1>1, <1>2

LEMMA MarkIsEvent == \A k \in EventKinds : Mark(k) \in EventRecord /\ Mark(k).kind = k
  BY EmptySeq DEF Mark, Event, EventRecord, EventKinds

LEMMA TwoMarks ==
  ASSUME NEW k \in EventKinds, k # "call", k # "done",
         NEW a \in Seq(EventRecord), Kinds(a) = {k}, CallTexts(a) = {}, Once(a),
         NEW b \in Seq(EventRecord), CallTexts(b) = {}, Once(b), Ends(b)
  PROVE  /\ a \o b \in Seq(EventRecord)
         /\ Kinds(a \o b) = {k} \cup Kinds(b)
         /\ CallTexts(a \o b) = {}
         /\ Once(a \o b)
         /\ Ends(a \o b)
  BY EventsAdd

\* The marks a stream ends with.
LEMMA MarksAre ==
  ASSUME NEW k \in EventKinds, k # "call", k # "done",
         NEW j \in EventKinds, j # "call", j # "done"
  PROVE  /\ <<Mark("done")>> \in Seq(EventRecord) /\ Ends(<<Mark("done")>>)
         /\ Kinds(<<Mark("done")>>) = {"done"} /\ CallTexts(<<Mark("done")>>) = {}
         /\ Once(<<Mark("done")>>)
         /\ <<Mark(k), Mark("done")>> \in Seq(EventRecord) /\ Ends(<<Mark(k), Mark("done")>>)
         /\ Kinds(<<Mark(k), Mark("done")>>) = {k, "done"}
         /\ CallTexts(<<Mark(k), Mark("done")>>) = {}
         /\ Once(<<Mark(k), Mark("done")>>)
         /\ <<Mark(j), Mark(k), Mark("done")>> \in Seq(EventRecord)
         /\ Ends(<<Mark(j), Mark(k), Mark("done")>>)
         /\ Kinds(<<Mark(j), Mark(k), Mark("done")>>) = {j, k, "done"}
         /\ CallTexts(<<Mark(j), Mark(k), Mark("done")>>) = {}
         /\ Once(<<Mark(j), Mark(k), Mark("done")>>)
  <1> DEFINE a == <<Mark(j)>>
             b == <<Mark(k)>>
             c == <<Mark("done")>>
  <1>1. /\ Mark(k) \in EventRecord /\ Mark(k).kind = k
        /\ Mark(j) \in EventRecord /\ Mark(j).kind = j
        /\ Mark("done") \in EventRecord /\ Mark("done").kind = "done"
    BY MarkIsEvent DEF EventKinds
  <1>2. /\ a \in Seq(EventRecord) /\ Kinds(a) = {j} /\ CallTexts(a) = {} /\ Once(a)
        /\ b \in Seq(EventRecord) /\ Kinds(b) = {k} /\ CallTexts(b) = {} /\ Once(b)
        /\ c \in Seq(EventRecord) /\ Kinds(c) = {"done"} /\ CallTexts(c) = {} /\ Once(c)
        /\ Ends(c)
    BY <1>1, FewEvents
  <1>3. <<Mark(k), Mark("done")>> = b \o c /\ <<Mark(j), Mark(k), Mark("done")>> = a \o (b \o c)
    OBVIOUS
  <1> HIDE DEF a, b, c
  <1>4. /\ b \o c \in Seq(EventRecord) /\ Kinds(b \o c) = {k, "done"}
        /\ CallTexts(b \o c) = {} /\ Once(b \o c) /\ Ends(b \o c)
    <2>1. Kinds(b \o c) = {k} \cup Kinds(c)
      BY <1>2, TwoMarks
    <2>2. QED
      BY <1>2, <2>1, TwoMarks
  <1> DEFINE d == b \o c
  <1> HIDE DEF d
  <1>5. /\ a \o d \in Seq(EventRecord) /\ Kinds(a \o d) = {j, k, "done"}
        /\ CallTexts(a \o d) = {} /\ Once(a \o d) /\ Ends(a \o d)
    <2>1. /\ d \in Seq(EventRecord) /\ Kinds(d) = {k, "done"}
          /\ CallTexts(d) = {} /\ Once(d) /\ Ends(d)
      BY <1>4 DEF d
    <2>2. Kinds(a \o d) = {j} \cup Kinds(d)
      BY <1>2, <2>1, TwoMarks
    <2>3. QED
      BY <1>2, <2>1, <2>2, TwoMarks
  <1>6. QED
    <2>1. <<Mark(j), Mark(k), Mark("done")>> = a \o d
      BY <1>3 DEF d
    <2>2. QED
      BY <1>2, <1>3, <1>4, <1>5, <2>1 DEF c

\* What a chunk tells: the calls that are new, each once.
LEMMA NewEventsAre ==
  ASSUME NEW found \in Seq(Seq(STRING)), NEW shown \in Seq(STRING)
  PROVE  /\ NewEvents(found, shown) \in Seq(EventRecord)
         /\ Kinds(NewEvents(found, shown)) \subseteq {"call", "content"}
         /\ CallTexts(NewEvents(found, shown)) = ToSet(found) \ st.calls
         /\ Once(NewEvents(found, shown))
  <1> DEFINE calls == NewCalls(found, st.calls)
             cs == [i \in 1..Len(calls) |-> Event("call", calls[i])]
             rest == IF shown = <<>> THEN <<>> ELSE <<Event("content", shown)>>
  <1>1. /\ calls \in Seq(Seq(STRING)) /\ ToSet(calls) = ToSet(found) \ st.calls
        /\ Distinct(calls)
    BY NewCallsAre
  <1> HIDE DEF calls
  <1>2. /\ Len(calls) \in Nat /\ DOMAIN calls = 1..Len(calls)
        /\ \A i \in 1..Len(calls) : calls[i] \in Seq(STRING)
    BY <1>1, LenProperties, ElementOfSeq
  <1>3. ASSUME NEW k \in EventKinds, NEW t \in Seq(STRING)
        PROVE  Event(k, t) \in EventRecord /\ Event(k, t).kind = k /\ Event(k, t).text = t
    BY DEF Event, EventRecord
  <1>4. cs \in Seq(EventRecord) /\ Len(cs) = Len(calls)
    <2>1. cs \in [1..Len(calls) -> EventRecord]
      BY <1>2, <1>3 DEF EventKinds
    <2>2. cs \in Seq(EventRecord)
      <3> HIDE DEF cs
      <3>1. QED
        BY <1>2, <2>1, SeqDef
    <2>3. DOMAIN cs = 1..Len(cs)
      BY <2>2, LenProperties
    <2>4. DOMAIN cs = 1..Len(calls)
      OBVIOUS
    <2>5. Len(cs) \in Nat
      BY <2>2, LenProperties
    <2> HIDE DEF cs
    <2>6. QED
      <3>1. 1..Len(cs) = 1..Len(calls)
        BY <2>3, <2>4
      <3>2. QED
        BY <1>2, <2>2, <2>5, <3>1
  <1>5. \A i \in 1..Len(cs) : cs[i].kind = "call" /\ cs[i].text = calls[i]
    BY <1>2, <1>3, <1>4 DEF EventKinds
  <1> HIDE DEF cs
  <1>6. Kinds(cs) \subseteq {"call"}
    BY <1>5 DEF Kinds
  <1>7. CallTexts(cs) = ToSet(calls)
    BY <1>2, <1>4, <1>5 DEF CallTexts, ToSet
  <1>8. Once(cs)
    BY <1>1, <1>4, <1>5 DEF Once, Distinct
  <1>9. /\ rest \in Seq(EventRecord) /\ Kinds(rest) \subseteq {"content"}
        /\ CallTexts(rest) = {} /\ Once(rest)
    <2>1. Event("content", shown) \in EventRecord /\ Event("content", shown).kind = "content"
      BY <1>3 DEF EventKinds
    <2>2. CASE shown = <<>>
      BY <2>2, FewEvents
    <2>3. CASE shown # <<>>
      <3>1. rest = <<Event("content", shown)>>
        BY <2>3
      <3>2. QED
        BY <2>1, <3>1, FewEvents
    <2>4. QED
      BY <2>2, <2>3
  <1>10. NewEvents(found, shown) = cs \o rest
    BY DEF NewEvents, cs, calls
  <1> DEFINE all == cs \o rest
  <1> HIDE DEF rest, all
  <1>11. all \in Seq(EventRecord)
    BY <1>4, <1>9, EventsAdd DEF all
  <1>12. Kinds(all) = Kinds(cs) \cup Kinds(rest)
    BY <1>4, <1>9, EventsAdd DEF all
  <1>13. CallTexts(all) = CallTexts(cs) \cup CallTexts(rest)
    BY <1>4, <1>9, EventsAdd DEF all
  <1>14. CallTexts(cs) \cap CallTexts(rest) = {} /\ Once(cs) /\ Once(rest)
    BY <1>8, <1>9
  <1>15. Once(all)
    BY <1>4, <1>9, <1>14, EventsAdd DEF all
  <1>16. NewEvents(found, shown) = all
    BY <1>10 DEF all
  <1>17. Kinds(all) \subseteq {"call", "content"}
    BY <1>6, <1>9, <1>12
  <1>18. CallTexts(all) = ToSet(found) \ st.calls
    BY <1>1, <1>7, <1>9, <1>13
  <1>19. QED
    BY <1>11, <1>15, <1>16, <1>17, <1>18

LEMMA InitTold == Init => ToldInv
  <1> SUFFICES ASSUME Init PROVE ToldInv
    OBVIOUS
  <1>1. <<>> \in Seq(STRING) /\ <<>> \in Seq(Message) /\ <<>> \in Seq(EventRecord)
    BY EmptySeq
  <1>2. text \in Seq(STRING) /\ sent \in 0..Len(text)
    BY StreamAssumption, LenProperties DEF Init
  <1>3. StreamTypes
    BY <1>1, <1>2 DEF Init, StreamTypes, Pcs
  <1>4. Told = <<>>
    BY DEF Init, Told
  <1>5. Kinds(Told) = {} /\ CallTexts(Told) = {} /\ Once(Told)
    BY <1>4, FewEvents
  <1>6. TellInv
    BY <1>5 DEF Init, TellInv, InLoop
  <1>7. ToolCalls(<<>>) = <<>>
    <2>1. Len(<<>>) = 0 /\ 1..0 = {}
      OBVIOUS
    <2>2. QED
      BY <1>1, <2>1, ToolCallsAre
  <1>8. CallInv
    BY <1>5, <1>7 DEF Init, CallInv
  <1>9. QED
    BY <1>3, <1>6, <1>8 DEF ToldInv

\* What a step adds to what the client is told.
LEMMA Telling ==
  ASSUME ToldInv, out = <<>>, NEW new \in Seq(EventRecord), written' = written, out' = new
  PROVE  /\ out' \in Seq(EventRecord) /\ written' \in Seq(EventRecord)
         /\ Kinds(Told') = Kinds(Told) \cup Kinds(new)
         /\ CallTexts(Told') = CallTexts(Told) \cup CallTexts(new)
         /\ Once(new) /\ CallTexts(Told) \cap CallTexts(new) = {} => Once(Told')
         /\ "done" \notin Kinds(Told) /\ Ends(new) => Ends(Told')
  <1>1. written \in Seq(EventRecord) /\ Once(Told)
    BY DEF ToldInv, StreamTypes, CallInv
  <1>2. Told = written
    BY <1>1, ConcatEmptySeq DEF Told
  <1>3. Told' = written \o new
    BY DEF Told
  <1> HIDE DEF Told
  <1>4. Kinds(Told') = Kinds(Told) \cup Kinds(new)
    BY <1>1, <1>2, <1>3, EventsAdd
  <1>5. CallTexts(Told') = CallTexts(Told) \cup CallTexts(new)
    BY <1>1, <1>2, <1>3, EventsAdd
  <1>6. Once(new) /\ CallTexts(Told) \cap CallTexts(new) = {} => Once(Told')
    BY <1>1, <1>2, <1>3, EventsAdd
  <1>7. "done" \notin Kinds(Told) /\ Ends(new) => Ends(Told')
    BY <1>1, <1>2, <1>3, EventsAdd
  <1>8. QED
    BY <1>1, <1>4, <1>5, <1>6, <1>7

\* A step that tells nothing and leaves the handler's texts alone.
LEMMA Unchanging ==
  ASSUME ToldInv, StreamTypes', Told' = Told, Kinds(out') \subseteq Kinds(out),
         UNCHANGED <<st, log, payload>>,
         pc' = pc \/ (InLoop /\ pc' \in {"loop", "reading", "post"})
  PROVE  ToldInv'
  <1>1. TellInv'
    BY DEF ToldInv, TellInv, InLoop
  <1>2. CallInv'
    BY DEF ToldInv, CallInv
  <1>3. QED
    BY <1>1, <1>2 DEF ToldInv

\* An event written is an event told before.
LEMMA WrittenTold ==
  ASSUME ToldInv, Written
  PROVE  ToldInv'
  <1>1. /\ written \in Seq(EventRecord) /\ out \in Seq(EventRecord) /\ out # <<>>
        /\ written' = Append(written, Head(out)) /\ out' = Tail(out)
    BY DEF Written, ToldInv, StreamTypes
  <1>2. /\ Head(out) \in EventRecord /\ Tail(out) \in Seq(EventRecord)
        /\ <<Head(out)>> \in Seq(EventRecord)
    BY <1>1, HeadTailProperties, FewEvents
  <1>3. written' = written \o <<Head(out)>> /\ written' \in Seq(EventRecord)
    BY <1>1, <1>2, AppendIsConcat, AppendProperties
  <1>4. <<Head(out)>> \o Tail(out) = out
    <2>1. Len(out) \in Nat \ {0} /\ Head(out) = out[1]
      BY <1>1, EmptySeq
    <2>2. /\ <<Head(out)>> \o Tail(out) \in Seq(EventRecord)
          /\ Len(<<Head(out)>> \o Tail(out)) = 1 + Len(Tail(out))
          /\ \A i \in 1..1 + Len(Tail(out)) :
               (<<Head(out)>> \o Tail(out))[i]
                 = IF i <= 1 THEN <<Head(out)>>[1] ELSE Tail(out)[i - 1]
      <3>1. Len(<<Head(out)>>) = 1
        OBVIOUS
      <3>2. \A i \in 1..1 + Len(Tail(out)) : i <= 1 => i = 1
        OBVIOUS
      <3>3. QED
        BY <1>2, <3>1, <3>2, ConcatProperties
    <2>3. Len(Tail(out)) = Len(out) - 1 /\ \A i \in 1..Len(Tail(out)) : Tail(out)[i] = out[i + 1]
      BY <1>1, HeadTailProperties
    <2>4. <<Head(out)>>[1] = out[1]
      BY <2>1
    <2> DEFINE c == <<Head(out)>> \o Tail(out)
               h == <<Head(out)>>[1]
               t == Tail(out)
    <2>5. /\ c \in Seq(EventRecord) /\ Len(c) = 1 + Len(t) /\ h = out[1]
          /\ \A i \in 1..1 + Len(t) : c[i] = IF i <= 1 THEN h ELSE t[i - 1]
          /\ Len(t) = Len(out) - 1 /\ \A i \in 1..Len(t) : t[i] = out[i + 1]
      BY <2>2, <2>3, <2>4
    <2> HIDE DEF c, h, t
    <2>6. Len(c) = Len(out)
      BY <2>1, <2>5
    <2>7. ASSUME NEW i \in 1..Len(out) PROVE c[i] = out[i]
      <3>1. CASE i = 1
        BY <2>1, <2>5, <3>1
      <3>2. CASE i # 1
        <4>1. i - 1 \in 1..Len(t) /\ i \in 1..1 + Len(t) /\ ~(i <= 1) /\ (i - 1) + 1 = i
          BY <2>1, <2>5, <3>2
        <4>2. QED
          BY <2>5, <4>1
      <3>3. QED
        BY <3>1, <3>2
    <2>8. c = out
      BY <1>1, <2>5, <2>6, <2>7, SeqEqual
    <2>9. QED
      BY <2>8 DEF c, t
  <1>5. Told' = Told
    <2>1. Told' = (written \o <<Head(out)>>) \o Tail(out)
      BY <1>1, <1>3 DEF Told
    <2>2. Told' = written \o (<<Head(out)>> \o Tail(out))
      BY <1>1, <1>2, <2>1, ConcatAssociative
    <2>3. QED
      BY <1>4, <2>2 DEF Told
  <1>6. StreamTypes'
    BY <1>1, <1>2, <1>3 DEF Written, ToldInv, StreamTypes, upstream
  <1>7. Kinds(out') \subseteq Kinds(out)
    <2>1. Kinds(out) = Kinds(<<Head(out)>>) \cup Kinds(Tail(out))
      BY <1>2, <1>4, EventsAdd
    <2>2. QED
      BY <1>1, <2>1
  <1> HIDE DEF Told
  <1>8. QED
    BY <1>5, <1>6, <1>7, Unchanging DEF Written

\* The upstream adds to the queue and the client leaves; neither tells anything.
LEMMA OthersTold ==
  ASSUME ToldInv, Upstream \/ ClientLeaves
  PROVE  ToldInv'
  <1>1. UNCHANGED <<pc, st, payload, out, written, log>>
    BY DEF Upstream, ClientLeaves, SendAnswer, SendRepeat, SendAside, SendError, SendPayload,
           SendDone, HangUp, Break, Send, handler
  <1>2. Told' = Told
    BY <1>1 DEF Told
  <1>3. /\ text \in Seq(STRING) /\ sent \in 0..Len(text) /\ queue \in Seq(Message)
        /\ Len(text) \in Nat
    BY LenProperties DEF ToldInv, StreamTypes
  <1>4. \A k \in {"answer", "think", "tool", "error", "payload", "done"}, t \in Seq(STRING),
           last \in BOOLEAN :
          Append(queue, Msg(k, t, last)) \in Seq(Message)
    BY <1>3, AppendProperties DEF Msg, Message
  <1>5. \A a \in 1..Len(text) + 1, n \in 0..Len(text) : SubSeq(text, a, n) \in Seq(STRING)
    <2> SUFFICES ASSUME NEW a \in 1..Len(text) + 1, NEW n \in 0..Len(text)
                 PROVE  SubSeq(text, a, n) \in Seq(STRING)
      OBVIOUS
    <2>1. \A i \in a..n : i \in 1..Len(text)
      BY <1>3
    <2>2. \A i \in a..n : text[i] \in STRING
      BY <1>3, <2>1, ElementOfSeq
    <2>3. QED
      BY <1>3, <2>2, SubSeqProperties
  <1>6. text' \in Seq(STRING) /\ sent' \in 0..Len(text') /\ queue' \in Seq(Message)
    <2>1. CASE SendAnswer
      <3>1. PICK n \in sent + 1..Len(text), again \in Resends, last \in BOOLEAN :
              /\ sent' = n
              /\ Send(Msg("answer", SubSeq(text, IF again THEN 1 ELSE sent + 1, n), last),
                      IF last THEN "finished" ELSE "sending")
        BY <2>1 DEF SendAnswer
      <3>2. n \in 0..Len(text) /\ (IF again THEN 1 ELSE sent + 1) \in 1..Len(text) + 1
        BY <1>3
      <3>3. SubSeq(text, IF again THEN 1 ELSE sent + 1, n) \in Seq(STRING)
        BY <1>5, <3>2
      <3>4. QED
        BY <1>3, <1>4, <3>1, <3>2, <3>3 DEF Send
    <2>2. CASE SendRepeat
      <3>1. Received \in Seq(STRING)
        BY <1>3, <1>5 DEF Received
      <3>2. QED
        BY <1>3, <1>4, <2>2, <3>1 DEF SendRepeat, Send
    <2>3. CASE SendAside \/ SendError \/ SendPayload \/ SendDone
      <3>1. <<>> \in Seq(STRING)
        BY EmptySeq
      <3>2. QED
        BY <1>3, <1>4, <2>3, <3>1 DEF SendAside, SendError, SendPayload, SendDone, Send
    <2>4. CASE HangUp \/ Break \/ ClientLeaves
      BY <1>3, <2>4, EmptySeq DEF HangUp, Break, ClientLeaves, upstream
    <2>5. QED
      BY <2>1, <2>2, <2>3, <2>4 DEF Upstream
  <1>7. StreamTypes'
    BY <1>1, <1>6 DEF ToldInv, StreamTypes
  <1> HIDE DEF Told
  <1>8. QED
    BY <1>1, <1>2, <1>7, Unchanging

\* Reading an event.
LEMMA TakeTypes ==
  ASSUME StreamTypes, NEW k, Take(k)
  PROVE  /\ Head(queue) \in Message /\ queue' \in Seq(Message)
         /\ text' \in Seq(STRING) /\ sent' \in 0..Len(text')
         /\ pc = "reading" /\ out = <<>> /\ written' = written
  <1>1. queue \in Seq(Message) /\ queue # <<>>
    BY DEF Take, StreamTypes
  <1>2. Head(queue) \in Message /\ Tail(queue) \in Seq(Message)
    BY <1>1, HeadTailProperties
  <1>3. QED
    BY <1>2 DEF Take, StreamTypes, upstream

\* A step of the loop that tells something which ends nothing.
LEMMA LoopTells ==
  ASSUME ToldInv, InLoop, InLoop', out = <<>>, written' = written,
         NEW new \in Seq(EventRecord), out' = new, StreamTypes',
         Kinds(new) \subseteq {"error", "thought", "call", "content"}, Once(new),
         log'.failed <=> (log.failed \/ "error" \in Kinds(new)),
         CallTexts(new) \cap st.calls = {},
         st'.calls = st.calls \cup CallTexts(new),
         st'.pending = <<>> \/ Waits(st'.pending),
         st'.calls = {} => ToolCalls(st'.full) = <<>>
  PROVE  ToldInv'
  <1>1. /\ Kinds(Told') = Kinds(Told) \cup Kinds(new)
        /\ CallTexts(Told') = CallTexts(Told) \cup CallTexts(new)
        /\ CallTexts(Told) = st.calls
    BY Telling DEF ToldInv, CallInv
  <1>2. CallTexts(Told) \cap CallTexts(new) = {}
    BY <1>1
  <1>3. Once(Told')
    BY <1>2, Telling
  <1> HIDE DEF Told
  <1>4. TellInv'
    <2>1. /\ Kinds(Told) \cap {"done", "silence", "stop", "tool_calls"} = {}
          /\ log.failed <=> "error" \in Kinds(Told)
      BY DEF ToldInv, TellInv
    <2>2. /\ Kinds(Told') \cap {"done", "silence", "stop", "tool_calls"} = {}
          /\ log'.failed <=> "error" \in Kinds(Told')
      BY <1>1, <2>1
    <2>3. TellInv' <=> /\ Kinds(Told') \cap {"done", "silence", "stop", "tool_calls"} = {}
                       /\ log'.failed <=> "error" \in Kinds(Told')
      BY DEF TellInv
    <2>4. QED
      BY <2>2, <2>3
  <1>5. CallInv'
    BY <1>1, <1>3 DEF CallInv
  <1>6. QED
    BY <1>4, <1>5 DEF ToldInv

\* What happens in the loop besides answers.
LEMMA LoopTold ==
  ASSUME ToldInv,
         \/ CheckAbort \/ TakeDone \/ TakeError \/ TakePayload \/ TakeThought \/ TakeTool
         \/ ReadEnd
  PROVE  ToldInv'
  <1>1. StreamTypes /\ CallInv
    BY DEF ToldInv
  <1>2. CASE CheckAbort \/ ReadEnd
    <2>1. UNCHANGED <<out, written, st, log, payload>> /\ InLoop /\ pc' \in {"reading", "post"}
      BY <1>2 DEF CheckAbort, ReadEnd, InLoop
    <2>2. StreamTypes'
      BY <1>1, <1>2, <2>1 DEF CheckAbort, ReadEnd, StreamTypes, upstream, Pcs
    <2>3. Told' = Told
      BY <2>1 DEF Told
    <2>4. QED
      BY <2>1, <2>2, <2>3, Unchanging
  <1>3. CASE TakeDone
    <2>1. UNCHANGED <<out, written, st, log, payload>> /\ InLoop /\ pc' = "post"
      BY <1>1, <1>3, TakeTypes DEF TakeDone, InLoop
    <2>2. StreamTypes'
      BY <1>1, <1>3, <2>1, TakeTypes DEF TakeDone, StreamTypes, Pcs
    <2>3. Told' = Told
      BY <2>1 DEF Told
    <2>4. QED
      BY <2>1, <2>2, <2>3, Unchanging
  <1>4. CASE TakeError
    <2>1. /\ <<Mark("error")>> \in Seq(EventRecord) /\ Kinds(<<Mark("error")>>) = {"error"}
          /\ CallTexts(<<Mark("error")>>) = {} /\ Once(<<Mark("error")>>)
      <3>1. Mark("error") \in EventRecord /\ Mark("error").kind = "error"
        BY MarkIsEvent DEF EventKinds
      <3>2. QED
        BY <3>1, FewEvents
    <2>2. /\ out' = <<Mark("error")>> /\ log'.failed /\ log' \in [failed : BOOLEAN, finalized : Nat]
          /\ pc' = "post" /\ UNCHANGED <<st, payload>>
      BY <1>1, <1>4 DEF TakeError, StreamTypes
    <2>3. StreamTypes' /\ out = <<>> /\ written' = written /\ InLoop /\ InLoop'
      BY <1>1, <1>4, <2>1, <2>2, TakeTypes DEF TakeError, StreamTypes, Pcs, InLoop
    <2>4. QED
      BY <1>1, <2>1, <2>2, <2>3, LoopTells DEF CallInv
  <1>5. CASE TakePayload
    <2>1. /\ out = <<>> /\ out' = <<>> /\ written' = written /\ UNCHANGED <<st, log>>
          /\ payload' \in BOOLEAN /\ InLoop /\ pc' \in {"loop", "reading"}
      BY <1>1, <1>5, TakeTypes DEF TakePayload, InLoop, AfterEvent
    <2>2. StreamTypes'
      BY <1>1, <1>5, <2>1, TakeTypes DEF TakePayload, StreamTypes, Pcs
    <2>3. /\ <<>> \in Seq(EventRecord) /\ Kinds(<<>>) = {} /\ CallTexts(<<>>) = {} /\ Once(<<>>)
      BY FewEvents
    <2>4. InLoop'
      BY <2>1 DEF InLoop
    <2>5. QED
      BY <1>1, <2>1, <2>2, <2>3, <2>4, LoopTells DEF CallInv
  <1>6. CASE TakeThought
    <2>1. /\ <<Mark("thought")>> \in Seq(EventRecord) /\ Kinds(<<Mark("thought")>>) = {"thought"}
          /\ CallTexts(<<Mark("thought")>>) = {} /\ Once(<<Mark("thought")>>)
      <3>1. Mark("thought") \in EventRecord /\ Mark("thought").kind = "thought"
        BY MarkIsEvent DEF EventKinds
      <3>2. QED
        BY <3>1, FewEvents
    <2>2. /\ out' = <<Mark("thought")>> /\ UNCHANGED <<log, payload>>
          /\ st' = [st EXCEPT !.reasoned = TRUE] /\ pc' \in {"loop", "reading"}
      BY <1>6 DEF TakeThought, AfterEvent
    <2>3. StreamTypes' /\ out = <<>> /\ written' = written /\ InLoop /\ InLoop'
      BY <1>1, <1>6, <2>1, <2>2, TakeTypes DEF TakeThought, StreamTypes, Pcs, InLoop
    <2>4. st'.calls = st.calls /\ st'.pending = st.pending /\ st'.full = st.full
      BY <1>1, <2>2 DEF StreamTypes
    <2>5. QED
      BY <1>1, <2>1, <2>2, <2>3, <2>4, LoopTells DEF CallInv
  <1>7. CASE TakeTool
    <2> DEFINE new == IF LocalCall \in st.calls THEN <<>> ELSE <<Event("call", LocalCall)>>
    <2>1. /\ new \in Seq(EventRecord) /\ Kinds(new) \subseteq {"call"} /\ Once(new)
          /\ CallTexts(new) = {LocalCall} \ st.calls
      <3>1. CASE LocalCall \in st.calls
        BY <3>1, FewEvents
      <3>2. CASE LocalCall \notin st.calls
        <4> DEFINE e == Event("call", LocalCall)
        <4>1. e \in EventRecord /\ e.kind = "call" /\ e.text = LocalCall
          BY DEF Event, EventRecord, EventKinds
        <4>2. new = <<e>>
          BY <3>2
        <4> HIDE DEF e, new
        <4>3. CallTexts(new) = {LocalCall} /\ Kinds(new) = {"call"}
          BY <4>1, <4>2, FewEvents
        <4>4. QED
          BY <3>2, <4>1, <4>2, <4>3, FewEvents
      <3>3. QED
        BY <3>1, <3>2
    <2> HIDE DEF new
    <2>2. /\ out' = new /\ UNCHANGED <<log, payload>>
          /\ st' = [st EXCEPT !.calls = @ \cup {LocalCall}] /\ pc' \in {"loop", "reading"}
      BY <1>7 DEF TakeTool, AfterEvent, new
    <2>3. StreamTypes' /\ out = <<>> /\ written' = written /\ InLoop /\ InLoop'
      BY <1>1, <1>7, <2>1, <2>2, TakeTypes DEF TakeTool, StreamTypes, Pcs, InLoop
    <2>4. st'.calls = st.calls \cup {LocalCall} /\ st'.pending = st.pending /\ st'.full = st.full
      BY <1>1, <2>2 DEF StreamTypes
    <2>5. st'.calls = st.calls \cup CallTexts(new) /\ CallTexts(new) \cap st.calls = {}
      BY <2>1, <2>4
    <2>6. QED
      BY <1>1, <2>1, <2>2, <2>3, <2>4, <2>5, LoopTells DEF CallInv
  <1>8. QED
    BY <1>2, <1>3, <1>4, <1>5, <1>6, <1>7

\* A chunk of the answer: it waits, or its new calls and its text are told.
LEMMA AnswerTold ==
  ASSUME ToldInv, TakeAnswer
  PROVE  ToldInv'
  <1>1. StreamTypes /\ CallInv
    BY DEF ToldInv
  <1> DEFINE m == Head(queue)
             raw == st.pending \o NewText(st.lastV, m.text)
  <1>2. /\ m \in Message /\ m.text \in Seq(STRING) /\ queue' \in Seq(Message)
        /\ text' \in Seq(STRING) /\ sent' \in 0..Len(text')
        /\ out = <<>> /\ written' = written /\ InLoop
    BY <1>1, TakeTypes DEF TakeAnswer, InLoop, Message
  <1>3. /\ st.lastV \in Seq(STRING) /\ st.pending \in Seq(STRING) /\ st.full \in Seq(STRING)
        /\ st.shown \in Seq(STRING) /\ st.depth \in Nat
        /\ st.calls \in SUBSET (Seq(STRING) \cup {LocalCall})
    BY <1>1 DEF StreamTypes
  <1>4. raw \in Seq(STRING) /\ Heard \in Seq(STRING)
    BY <1>2, <1>3, IncrementType, ConcatProperties DEF Heard
  <1>5. UNCHANGED <<payload, log>>
    BY DEF TakeAnswer
  <1>6. /\ <<>> \in Seq(EventRecord) /\ Kinds(<<>>) = {} /\ CallTexts(<<>>) = {} /\ Once(<<>>)
    BY FewEvents
  <1> HIDE DEF m
  <1>7. \/ /\ raw = <<>>
           /\ st' = [st EXCEPT !.lastV = Heard]
           /\ out' = <<>> /\ pc' \in AfterEvent
        \/ /\ raw # <<>> /\ Waits(raw)
           /\ st' = [st EXCEPT !.lastV = Heard, !.pending = raw]
           /\ out' = <<>> /\ pc' \in AfterEvent
        \/ /\ raw # <<>> /\ ~Waits(raw)
           /\ \E full \in {st.full \o raw}, depth \in {Depth(st.depth, raw)} :
              \E found \in {ToolCalls(full)}, shown \in {IF depth = 0 THEN Clean(raw) ELSE <<>>} :
                /\ st' = [st EXCEPT !.lastV = Heard, !.pending = <<>>, !.full = full,
                                    !.depth = depth, !.shown = @ \o shown,
                                    !.calls = @ \cup ToSet(found)]
                /\ out' = NewEvents(found, shown)
           /\ IF m.last THEN pc' = "post" ELSE pc' \in AfterEvent
    BY DEF TakeAnswer, m
  <1> HIDE DEF raw
  <1>8. CASE /\ raw = <<>>
             /\ st' = [st EXCEPT !.lastV = Heard]
             /\ out' = <<>> /\ pc' \in AfterEvent
    <2>1. StreamTypes' /\ InLoop'
      BY <1>1, <1>2, <1>4, <1>5, <1>6, <1>8 DEF StreamTypes, AfterEvent, Pcs, InLoop
    <2>2. st'.calls = st.calls /\ st'.pending = st.pending /\ st'.full = st.full
      BY <1>1, <1>8 DEF StreamTypes
    <2>3. QED
      BY <1>1, <1>2, <1>5, <1>6, <1>8, <2>1, <2>2, LoopTells DEF CallInv
  <1>9. CASE /\ raw # <<>> /\ Waits(raw)
             /\ st' = [st EXCEPT !.lastV = Heard, !.pending = raw]
             /\ out' = <<>> /\ pc' \in AfterEvent
    <2>1. StreamTypes' /\ InLoop'
      BY <1>1, <1>2, <1>4, <1>5, <1>6, <1>9 DEF StreamTypes, AfterEvent, Pcs, InLoop
    <2>2. st'.calls = st.calls /\ st'.pending = raw /\ st'.full = st.full
      BY <1>1, <1>9 DEF StreamTypes
    <2>3. QED
      BY <1>1, <1>2, <1>5, <1>6, <1>9, <2>1, <2>2, LoopTells DEF CallInv
  <1>10. CASE /\ raw # <<>> /\ ~Waits(raw)
              /\ \E full \in {st.full \o raw}, depth \in {Depth(st.depth, raw)} :
                 \E found \in {ToolCalls(full)}, shown \in {IF depth = 0 THEN Clean(raw) ELSE <<>>} :
                   /\ st' = [st EXCEPT !.lastV = Heard, !.pending = <<>>, !.full = full,
                                       !.depth = depth, !.shown = @ \o shown,
                                       !.calls = @ \cup ToSet(found)]
                   /\ out' = NewEvents(found, shown)
              /\ IF m.last THEN pc' = "post" ELSE pc' \in AfterEvent
    <2> DEFINE full == st.full \o raw
               depth == Depth(st.depth, raw)
               found == ToolCalls(full)
               shown == IF depth = 0 THEN Clean(raw) ELSE <<>>
               new == NewEvents(found, shown)
    <2>1. /\ st' = [st EXCEPT !.lastV = Heard, !.pending = <<>>, !.full = full,
                              !.depth = depth, !.shown = @ \o shown,
                              !.calls = @ \cup ToSet(found)]
          /\ out' = new
      BY <1>10
    <2>2. full \in Seq(STRING) /\ depth \in Nat
      <3>1. full \in Seq(STRING)
        BY <1>3, <1>4, ConcatProperties
      <3>2. depth \in Nat
        BY <1>3 DEF Depth
      <3>3. QED
        BY <3>1, <3>2
    <2>3. shown \in Seq(STRING)
      BY <1>4, CleanType, EmptySeq
    <2> HIDE DEF full, depth, shown
    <2>4. found \in Seq(Seq(STRING))
      BY <2>2, ToolCallsAre
    <2> HIDE DEF found
    <2>5. ToSet(found) \subseteq Seq(STRING) /\ (ToSet(found) = {} => found = <<>>)
      <3>1. Len(found) \in Nat /\ DOMAIN found = 1..Len(found)
        BY <2>4, LenProperties
      <3>2. \A i \in 1..Len(found) : found[i] \in Seq(STRING)
        BY <2>4, ElementOfSeq
      <3>3. found # <<>> => 1 \in 1..Len(found)
        BY <2>4, EmptySeq
      <3>4. QED
        BY <3>1, <3>2, <3>3 DEF ToSet
    <2>6. /\ new \in Seq(EventRecord) /\ Kinds(new) \subseteq {"call", "content"}
          /\ CallTexts(new) = ToSet(found) \ st.calls /\ Once(new)
      BY <2>3, <2>4, NewEventsAre
    <2> HIDE DEF new
    <2>7. st.shown \o shown \in Seq(STRING) /\ <<>> \in Seq(STRING)
      BY <1>3, <2>3, ConcatProperties, EmptySeq
    <2>8. pc' \in {"loop", "reading", "post"}
      BY <1>10 DEF AfterEvent
    <2>9. /\ st'.calls = st.calls \cup ToSet(found) /\ st'.pending = <<>> /\ st'.full = full
          /\ st' \in [lastV : Seq(STRING), pending : Seq(STRING), full : Seq(STRING),
                      shown : Seq(STRING), depth : Nat,
                      calls : SUBSET (Seq(STRING) \cup {LocalCall}), reasoned : BOOLEAN]
      BY <1>1, <1>3, <1>4, <2>1, <2>2, <2>5, <2>7 DEF StreamTypes
    <2>10. StreamTypes' /\ InLoop'
      BY <1>1, <1>2, <1>5, <2>1, <2>6, <2>8, <2>9 DEF StreamTypes, Pcs, InLoop
    <2>11. /\ CallTexts(new) \cap st.calls = {} /\ st'.calls = st.calls \cup CallTexts(new)
           /\ st'.calls = {} => ToolCalls(st'.full) = <<>>
      BY <2>5, <2>6, <2>9 DEF found
    <2>12. QED
      BY <1>2, <1>5, <2>1, <2>6, <2>9, <2>10, <2>11, LoopTells
  <1>11. QED
    BY <1>7, <1>8, <1>9, <1>10

LEMMA CallsAreKinds ==
  ASSUME NEW events
  PROVE  "call" \in Kinds(events) <=> CallTexts(events) # {}
  BY DEF Kinds, CallTexts

\* A step out of the loop: it tells how the stream ended.
LEMMA EndTells ==
  ASSUME ToldInv, InLoop, ~InLoop', out = <<>>, written' = written,
         NEW new \in Seq(EventRecord), out' = new, StreamTypes', st' = st,
         Ends(new), Once(new), CallTexts(new) = {},
         pc' = "silent" => "silence" \in Kinds(new),
         ~payload' /\ pc' # "silent" =>
           (log'.failed <=> (log.failed \/ Kinds(new) \cap {"error", "silence"} # {})),
         "tool_calls" \in Kinds(new) => st.calls # {},
         "stop" \in Kinds(new) => st.calls = {}
  PROVE  ToldInv'
  <1>1. /\ CallTexts(Told) = st.calls
        /\ Kinds(Told) \cap {"done", "silence", "stop", "tool_calls"} = {}
        /\ log.failed <=> "error" \in Kinds(Told)
    BY DEF ToldInv, CallInv, TellInv
  <1>2. Kinds(Told') = Kinds(Told) \cup Kinds(new)
    BY Telling
  <1>3. CallTexts(Told') = st.calls
    BY <1>1, Telling
  <1>4. Once(Told') /\ Ends(Told')
    <2>1. CallTexts(Told) \cap CallTexts(new) = {} /\ "done" \notin Kinds(Told)
      BY <1>1
    <2>2. QED
      BY <2>1, Telling
  <1>5. "call" \in Kinds(Told') <=> st.calls # {}
    BY <1>3, CallsAreKinds
  <1> HIDE DEF Told
  <1>6. CallInv'
    BY <1>3, <1>4 DEF CallInv, ToldInv
  <1>7. TellInv'
    <2>1. pc' = "silent" => "silence" \in Kinds(Told')
      BY <1>2
    <2>2. ~payload' /\ pc' # "silent" =>
            (log'.failed <=> Kinds(Told') \cap {"error", "silence"} # {})
      BY <1>1, <1>2
    <2>3. /\ "tool_calls" \in Kinds(Told') => "call" \in Kinds(Told')
          /\ "stop" \in Kinds(Told') => "call" \notin Kinds(Told')
      BY <1>1, <1>2, <1>5
    <2>4. "call" \notin Kinds(out')
      BY CallsAreKinds
    <2>5. QED
      BY <1>4, <2>1, <2>2, <2>3, <2>4 DEF TellInv
  <1>8. QED
    BY <1>6, <1>7 DEF ToldInv

\* The ways out of the loop.
LEMMA BrokenTold ==
  ASSUME ToldInv, ReadBroken \/ IdleTimeout
  PROVE  ToldInv'
  <1>1. StreamTypes
    BY DEF ToldInv
  <1>2. CASE ReadBroken
    <2>1. /\ <<Mark("done")>> \in Seq(EventRecord) /\ Ends(<<Mark("done")>>)
          /\ Kinds(<<Mark("done")>>) = {"done"} /\ CallTexts(<<Mark("done")>>) = {}
          /\ Once(<<Mark("done")>>)
      BY MarksAre DEF EventKinds
    <2>2. /\ InLoop /\ pc' = "closing" /\ out = <<>> /\ out' = <<Mark("done")>>
          /\ UNCHANGED <<written, st, payload, log>>
      BY <1>2 DEF ReadBroken, InLoop
    <2>3. StreamTypes' /\ ~InLoop'
      BY <1>1, <1>2, <2>1, <2>2 DEF ReadBroken, StreamTypes, upstream, Pcs, InLoop
    <2>4. QED
      BY <2>1, <2>2, <2>3, EndTells
  <1>3. CASE IdleTimeout
    <2> DEFINE new == <<Mark("error"), Mark("done")>>
    <2>1. /\ new \in Seq(EventRecord) /\ Ends(new) /\ Kinds(new) = {"error", "done"}
          /\ CallTexts(new) = {} /\ Once(new)
      BY MarksAre DEF EventKinds
    <2>2. /\ InLoop /\ pc' = "closing" /\ out = <<>> /\ out' = new
          /\ UNCHANGED <<written, st, payload>> /\ log'.failed
          /\ log' \in [failed : BOOLEAN, finalized : Nat]
      BY <1>1, <1>3 DEF IdleTimeout, InLoop, StreamTypes
    <2> HIDE DEF new
    <2>3. StreamTypes' /\ ~InLoop'
      BY <1>1, <1>3, <2>1, <2>2 DEF IdleTimeout, StreamTypes, upstream, Pcs, InLoop
    <2>4. QED
      BY <2>1, <2>2, <2>3, EndTells
  <1>4. QED
    BY <1>2, <1>3

\* The end of an answer: the calls of the text so far were all told, and the rest of a
\* tag that never came is not one.
LEMMA FlushIs ==
  ASSUME ToldInv, NEW rest \in Seq(STRING), NEW full, full = st.full \o st.pending
  PROVE  /\ Flush(full, rest) \in Seq(EventRecord)
         /\ Ends(Flush(full, rest)) /\ Once(Flush(full, rest))
         /\ CallTexts(Flush(full, rest)) = {}
         /\ Kinds(Flush(full, rest)) \cap {"error", "silence"} = {}
         /\ "tool_calls" \in Kinds(Flush(full, rest)) => st.calls # {}
         /\ "stop" \in Kinds(Flush(full, rest)) => st.calls = {}
  <1> DEFINE reason == IF HasCalls(full) THEN "tool_calls" ELSE "stop"
             first == IF rest = <<>> THEN <<>> ELSE <<Event("content", rest)>>
             last == <<Mark(reason), Mark("done")>>
  <1>1. HasCalls(full) <=> st.calls # {}
    <2>1. /\ st.full \in Seq(STRING) /\ st.pending \in Seq(STRING)
          /\ st.pending = <<>> \/ Waits(st.pending)
          /\ st.calls = {} => ToolCalls(st.full) = <<>>
      BY DEF ToldInv, StreamTypes, CallInv
    <2>2. st.calls = {} => ToolCalls(full) = <<>>
      BY <2>1, WaitingEndsNoCall
    <2>3. QED
      BY <2>2 DEF HasCalls
  <1>2. /\ last \in Seq(EventRecord) /\ Ends(last) /\ Kinds(last) = {reason, "done"}
        /\ CallTexts(last) = {} /\ Once(last)
    <2>1. reason \in EventKinds /\ reason # "call" /\ reason # "done"
      BY DEF EventKinds
    <2> HIDE DEF reason
    <2>2. QED
      BY <2>1, MarksAre
  <1>3. /\ first \in Seq(EventRecord) /\ Kinds(first) \subseteq {"content"}
        /\ CallTexts(first) = {} /\ Once(first)
    <2>1. Event("content", rest) \in EventRecord /\ Event("content", rest).kind = "content"
      BY DEF Event, EventRecord, EventKinds
    <2>2. CASE rest = <<>>
      BY <2>2, FewEvents
    <2>3. CASE rest # <<>>
      <3>1. first = <<Event("content", rest)>>
        BY <2>3
      <3>2. QED
        BY <2>1, <3>1, FewEvents
    <2>4. QED
      BY <2>2, <2>3
  <1>4. Flush(full, rest) = first \o last
    BY DEF Flush
  <1>5. (reason = "tool_calls" /\ st.calls # {}) \/ (reason = "stop" /\ st.calls = {})
    <2>1. CASE HasCalls(full)
      BY <1>1, <2>1
    <2>2. CASE ~HasCalls(full)
      BY <1>1, <2>2
    <2>3. QED
      BY <2>1, <2>2
  <1> DEFINE all == first \o last
  <1> HIDE DEF first, last, reason, all
  <1>6. all \in Seq(EventRecord) /\ Kinds(all) = Kinds(first) \cup Kinds(last)
    BY <1>2, <1>3, EventsAdd DEF all
  <1>7. CallTexts(all) = CallTexts(first) \cup CallTexts(last)
    BY <1>2, <1>3, EventsAdd DEF all
  <1>8. CallTexts(first) \cap CallTexts(last) = {} /\ "done" \notin Kinds(first)
    BY <1>2, <1>3
  <1>9. Once(all)
    BY <1>2, <1>3, <1>8, EventsAdd DEF all
  <1>10. Ends(all)
    BY <1>2, <1>3, <1>8, EventsAdd DEF all
  <1>11. /\ Kinds(all) \cap {"error", "silence"} = {}
         /\ "tool_calls" \in Kinds(all) => st.calls # {}
         /\ "stop" \in Kinds(all) => st.calls = {}
    BY <1>2, <1>3, <1>5, <1>6
  <1>12. QED
    BY <1>2, <1>3, <1>4, <1>6, <1>7, <1>9, <1>10, <1>11 DEF all

LEMMA PostTold ==
  ASSUME ToldInv, PostStream
  PROVE  ToldInv'
  <1>1. StreamTypes /\ CallInv
    BY DEF ToldInv
  <1>2. /\ pc = "post" /\ InLoop /\ out = <<>> /\ pc' \in {"completing", "silent"} /\ ~InLoop'
        /\ UNCHANGED <<upstream, queue, st, payload, written>>
    BY DEF PostStream, InLoop
  <1>3. log' \in [failed : BOOLEAN, finalized : Nat]
    BY <1>1 DEF PostStream, StreamTypes
  <1>4. out' \in Seq(EventRecord) => StreamTypes'
    BY <1>1, <1>2, <1>3 DEF StreamTypes, upstream, Pcs
  <1>5. CASE payload \/ Rejected
    <2> DEFINE new == <<Mark("error"), Mark("failed"), Mark("done")>>
    <2>1. /\ new \in Seq(EventRecord) /\ Ends(new) /\ Kinds(new) = {"error", "failed", "done"}
          /\ CallTexts(new) = {} /\ Once(new)
      BY MarksAre DEF EventKinds
    <2>2. out' = new /\ pc' = "completing" /\ (~payload' => log'.failed)
      BY <1>1, <1>2, <1>5 DEF PostStream, StreamTypes
    <2> HIDE DEF new
    <2>3. QED
      BY <1>2, <1>4, <2>1, <2>2, EndTells
  <1>6. CASE ~payload /\ ~Rejected /\ Silent
    <2> DEFINE new == <<Mark("silence"), Mark("stop"), Mark("done")>>
    <2>1. /\ new \in Seq(EventRecord) /\ Ends(new) /\ Kinds(new) = {"silence", "stop", "done"}
          /\ CallTexts(new) = {} /\ Once(new)
      BY MarksAre DEF EventKinds
    <2>2. out' = new /\ pc' = "silent" /\ st.calls = {}
      BY <1>6 DEF PostStream, Silent
    <2> HIDE DEF new
    <2>3. QED
      BY <1>2, <1>4, <2>1, <2>2, EndTells
  <1>7. CASE ~payload /\ ~Rejected /\ ~Silent
    <2> DEFINE full == st.full \o st.pending
               rest == SnapshotDelta(Filtered(full), st.shown)
               new == Flush(full, rest)
    <2>1. out' = new /\ pc' = "completing" /\ log' = log
      BY <1>7 DEF PostStream
    <2>2. st.full \in Seq(STRING) /\ st.pending \in Seq(STRING) /\ st.shown \in Seq(STRING)
      BY <1>1 DEF StreamTypes
    <2>3. full \in Seq(STRING)
      BY <2>2, ConcatProperties
    <2>4. rest \in Seq(STRING)
      <3> HIDE DEF full
      <3>1. QED
        BY <2>2, <2>3, FilteredType, SnapshotDeltaType
    <2> HIDE DEF rest
    <2>5. /\ new \in Seq(EventRecord) /\ Ends(new) /\ Once(new) /\ CallTexts(new) = {}
          /\ Kinds(new) \cap {"error", "silence"} = {}
          /\ "tool_calls" \in Kinds(new) => st.calls # {}
          /\ "stop" \in Kinds(new) => st.calls = {}
      BY <2>4, FlushIs
    <2> HIDE DEF new
    <2>6. QED
      BY <1>2, <1>4, <2>1, <2>5, EndTells
  <1>8. QED
    BY <1>5, <1>6, <1>7

\* The rest: nothing more is told, and a silence becomes a failure of the log.
LEMMA EndedTold ==
  ASSUME ToldInv, Complete \/ ScheduledCleanup \/ CloseNow
  PROVE  ToldInv'
  <1>1. StreamTypes
    BY DEF ToldInv
  <1>2. /\ UNCHANGED <<upstream, queue, st, payload, out, written>>
        /\ ~InLoop /\ ~InLoop' /\ pc' # "silent"
        /\ log' \in [failed : BOOLEAN, finalized : Nat]
        /\ log'.failed = (log.failed \/ pc = "silent") /\ pc' \in Pcs
    <2>1. CASE Complete
      BY <1>1, <2>1 DEF Complete, InLoop, Pcs, StreamTypes, ended, upstream
    <2>2. CASE ScheduledCleanup
      BY <1>1, <2>2 DEF ScheduledCleanup, InLoop, Pcs, StreamTypes, upstream
    <2>3. CASE CloseNow
      <3>1. /\ UNCHANGED <<upstream, queue, st, payload, out, written>>
            /\ pc = "closing" /\ pc' = "over" /\ log' = [log EXCEPT !.finalized = @ + 1]
        BY <2>3 DEF CloseNow
      <3>2. log' = [failed |-> log.failed, finalized |-> log.finalized + 1]
        BY <1>1, <3>1 DEF StreamTypes
      <3>3. log.failed \in BOOLEAN /\ log.finalized + 1 \in Nat
        BY <1>1 DEF StreamTypes
      <3>4. log'.failed = log.failed /\ log' \in [failed : BOOLEAN, finalized : Nat]
        BY <3>2, <3>3
      <3>5. QED
        BY <3>1, <3>4 DEF InLoop, Pcs
    <2>4. QED
      BY <2>1, <2>2, <2>3
  <1>3. StreamTypes'
    BY <1>1, <1>2 DEF StreamTypes, upstream
  <1>4. Told' = Told
    BY <1>2 DEF Told
  <1> HIDE DEF Told
  <1>5. TellInv'
    <2>1. TellInv
      BY DEF ToldInv
    <2>2. QED
      BY <1>2, <1>4, <2>1 DEF TellInv
  <1>6. CallInv'
    BY <1>2, <1>4 DEF ToldInv, CallInv
  <1>7. QED
    BY <1>3, <1>5, <1>6 DEF ToldInv

LEMMA NextTold == ToldInv /\ [Next]_vars => ToldInv'
  <1> SUFFICES ASSUME ToldInv, [Next]_vars PROVE ToldInv'
    OBVIOUS
  <1>1. CASE Upstream \/ ClientLeaves
    BY <1>1, OthersTold
  <1>2. CASE Written
    BY <1>2, WrittenTold
  <1>3. CASE Handler
    BY <1>3, LoopTold, AnswerTold, BrokenTold, PostTold, EndedTold DEF Handler
  <1>4. CASE UNCHANGED vars
    <2>1. UNCHANGED <<text, sent, queue, pc, st, payload, out, written, log>>
      BY <1>4 DEF vars, upstream
    <2>2. Told' = Told /\ StreamTypes' /\ Kinds(out') = Kinds(out)
      BY <2>1 DEF ToldInv, StreamTypes, Told
    <2> HIDE DEF Told
    <2>3. QED
      BY <2>1, <2>2, Unchanging
  <1>5. QED
    BY <1>1, <1>2, <1>3, <1>4 DEF Next

LEMMA ToldHolds == Spec => []ToldInv
  BY InitTold, NextTold, PTL DEF Spec

\* What is written is the beginning of what is told.
LEMMA WrittenIsTold ==
  ASSUME ToldInv
  PROVE  /\ written \in Seq(EventRecord) /\ Len(written) \in Nat
         /\ \A i \in 1..Len(written) : i \in 1..Len(Told) /\ Told[i] = written[i]
         /\ Len(Told) = Len(written) <=> out = <<>>
         /\ out = <<>> => written = Told
  <1>1. /\ written \in Seq(EventRecord) /\ out \in Seq(EventRecord)
        /\ Len(written) \in Nat /\ Len(out) \in Nat
    BY LenProperties DEF ToldInv, StreamTypes
  <1>2. /\ Len(Told) = Len(written) + Len(out)
        /\ \A i \in 1..Len(written) + Len(out) :
             Told[i] = IF i <= Len(written) THEN written[i] ELSE out[i - Len(written)]
    BY <1>1, ConcatProperties DEF Told
  <1>3. Len(out) = 0 <=> out = <<>>
    BY <1>1, EmptySeq
  <1>4. out = <<>> => written = Told
    BY <1>1, ConcatEmptySeq DEF Told
  <1> HIDE DEF Told
  <1>5. QED
    BY <1>1, <1>2, <1>3, <1>4

\* However a stream ends (a [DONE] of the upstream, its end, an error, the idle timer, a
\* broken connection, a client that left), the client gets one [DONE] after everything
\* else, and the log counts a failure exactly when the client was told of one.
THEOREM TheEndIsTold == Spec => []EndIsTold
  <1>1. ToldInv /\ EndInv => EndIsTold
    <2> SUFFICES ASSUME ToldInv, EndInv PROVE EndIsTold
      OBVIOUS
    <2>1. ASSUME NEW i \in 1..Len(written), written[i].kind = "done" PROVE i = Len(written)
      <3>1. i \in 1..Len(Told) /\ Told[i].kind = "done" /\ Len(written) \in Nat
        BY <2>1, WrittenIsTold
      <3>2. ~InLoop
        <4>1. "done" \in Kinds(Told)
          BY <3>1 DEF Kinds
        <4> HIDE DEF Told
        <4>2. QED
          BY <4>1 DEF ToldInv, TellInv
      <3>3. i = Len(Told)
        <4> HIDE DEF Told
        <4>1. QED
          BY <3>1, <3>2 DEF ToldInv, TellInv, Ends
      <3>4. Len(written) \in 1..Len(Told)
        BY <3>1, WrittenIsTold
      <3> HIDE DEF Told
      <3>5. Len(Told) \in Int
        <4>1. Len(written) \in 1..Len(Told)
          BY <3>4
        <4>2. QED
          BY <3>1, <3>3
      <3>6. QED
        BY <3>1, <3>3, <3>4, <3>5
    <2>2. ASSUME pc = "over"
          PROVE  /\ written # <<>> /\ Last(written).kind = "done"
                 /\ ~payload => (log.failed <=> Kinds(written) \cap {"error", "silence"} # {})
      <3>1. written = Told /\ ~InLoop
        BY <2>2, WrittenIsTold DEF EndInv, InLoop
      <3> HIDE DEF Told
      <3>2. Ends(written) /\ (~payload => (log.failed <=> Kinds(written) \cap {"error", "silence"} # {}))
        BY <2>2, <3>1 DEF ToldInv, TellInv
      <3>3. Len(written) \in 1..Len(written)
        <4>1. Len(written) \in Nat \ {0}
          BY <3>2, WrittenIsTold, EmptySeq DEF Ends
        <4>2. QED
          BY <4>1
      <3>4. written[Len(written)].kind = "done"
        BY <3>2, <3>3 DEF Ends
      <3>5. QED
        BY <3>2, <3>4 DEF Ends, Last
    <2>3. QED
      BY <2>1, <2>2 DEF EndIsTold
  <1>2. Spec => []EndInv
    BY StreamEndHolds
  <1>3. QED
    BY <1>1, <1>2, ToldHolds, PTL

\* No call is written twice, whatever the upstream resends and wherever it cuts.
THEOREM NoCallTwice == Spec => []CallsOnce
  <1>1. ToldInv => CallsOnce
    <2> SUFFICES ASSUME ToldInv PROVE CallsOnce
      OBVIOUS
    <2>1. Once(Told)
      BY DEF ToldInv, CallInv
    <2>2. QED
      BY <2>1, WrittenIsTold DEF CallsOnce, Once
  <1>2. QED
    BY <1>1, ToldHolds, PTL

\* The finish reason is "tool_calls" exactly when calls were written before it.
THEOREM FinishReasonAgrees == Spec => []FinishAgrees
  <1>1. ToldInv => FinishAgrees
    <2> SUFFICES ASSUME ToldInv PROVE FinishAgrees
      OBVIOUS
    <2>1. Kinds(written) \subseteq Kinds(Told) /\ Kinds(Told) = Kinds(written) \cup Kinds(out)
      <3>1. written \in Seq(EventRecord) /\ out \in Seq(EventRecord)
        BY DEF ToldInv, StreamTypes
      <3>2. Kinds(Told) = Kinds(written) \cup Kinds(out)
        BY <3>1, EventsAdd DEF Told
      <3>3. QED
        BY <3>2
    <2> HIDE DEF Told
    <2>2. CASE InLoop
      <3>1. Kinds(Told) \cap {"stop", "tool_calls"} = {}
        BY <2>2 DEF ToldInv, TellInv
      <3>2. QED
        BY <2>1, <3>1 DEF FinishAgrees
    <2>3. CASE ~InLoop
      <3>1. /\ "tool_calls" \in Kinds(Told) => "call" \in Kinds(Told)
            /\ "stop" \in Kinds(Told) => "call" \notin Kinds(Told)
            /\ "call" \notin Kinds(out)
        BY <2>3 DEF ToldInv, TellInv
      <3>2. QED
        BY <2>1, <3>1 DEF FinishAgrees
    <2>4. QED
      BY <2>2, <2>3
  <1>2. QED
    BY <1>1, ToldHolds, PTL
=============================================================================
