------------------------------ MODULE ChunkText ------------------------------
(***************************************************************************)
(* What the streaming pipeline does with the text of an answer, which comes*)
(* in chunks cut anywhere: telling increments from resends, waiting for    *)
(* the rest of a tag, finding tool calls, and hiding their markup.         *)
(* src/routes/chatStreamingHelpers.ts, src/routes/chatHelpersCore.ts and   *)
(* src/tools/xmlToolParser.ts.                                             *)
(*                                                                         *)
(* A character is a letter, a ">" or one of the three pieces tags are made *)
(* of: "<" (a tag up to somewhere before its ">"), "function=f>" and       *)
(* "/function>", each standing for what follows the cut.                   *)
(***************************************************************************)
EXTENDS Naturals, SequencesExt

Lt == "<"
Gt == ">"
Open == "function=f>"
Close == "/function>"

HasTag(t, rest) == \E i \in 1..Len(t) - 1 : t[i] = Lt /\ t[i + 1] = rest
HasGt(t) == \E c \in {Gt, Open, Close} : Contains(t, c)

\* The characters of t at the positions in I.
At(t, I) ==
    LET kept[i \in 0..Len(t)] ==
          IF i = 0 THEN <<>>
          ELSE IF i \in I THEN Append(kept[i - 1], t[i]) ELSE kept[i - 1]
    IN  kept[Len(t)]

\* The positions of whole tags.
TagsIn(t) ==
    {i \in 1..Len(t) :
        \/ t[i] = Lt /\ i < Len(t) /\ t[i + 1] \in {Open, Close}
        \/ t[i] \in {Open, Close} /\ i > 1 /\ t[i - 1] = Lt}

\* cleanThinkTags: whole tags go, then the end of one that was cut at the
\* beginning of the text, and the beginning of one at its end.
Clean(t) ==
    LET trimmed[s \in Seq(STRING)] ==
          At(s, {i \in 1..Len(s) :
                   /\ i = 1 => s[i] \notin {Open, Close}
                   /\ i = Len(s) => s[i] # Lt})
    IN  trimmed[At(t, 1..Len(t) \ TagsIn(t))]

-----------------------------------------------------------------------------
(* Increments and resends *)

\* Mutant of NewText: every chunk is an increment.
NewTextAlways(sofar, v) == v

\* detectCumulativeChunk against what the upstream has sent so far: the same text
\* again adds nothing, a longer one adds its end, any other is an increment.  (Its
\* search for edited resends needs 32 characters and is not modelled.)
NewText(sofar, v) ==
    IF v = sofar THEN <<>>
    ELSE IF IsPrefix(sofar, v) THEN SubSeq(v, Len(sofar) + 1, Len(v)) ELSE v

\* lastVStrRaw after a chunk.
TextSoFar(sofar, v) == IF IsPrefix(sofar, v) THEN v ELSE sofar \o v

\* getSnapshotDelta: what follows the common beginning, and nothing if there is none.
SnapshotDelta(new, last) ==
    LET same == {n \in 0..Len(new) : n <= Len(last) /\ SubSeq(new, 1, n) = SubSeq(last, 1, n)}
        n == CHOOSE m \in same : \A k \in same : k <= m
    IN  IF n > 0 \/ last = <<>> THEN SubSeq(new, n + 1, Len(new)) ELSE <<>>

-----------------------------------------------------------------------------
(* Tool calls *)

\* toolCallDepth: a chunk counts as one opening and one closing tag at most.
Depth(depth, t) ==
    LET opened == IF HasTag(t, Open) THEN depth + 1 ELSE depth
    IN  IF HasTag(t, Close) /\ opened > 0 THEN opened - 1 ELSE opened

\* Whether position i of t is followed by the inside of a tool call.
Inside(t) ==
    LET in[i \in 0..Len(t)] ==
          IF i < 2 THEN FALSE
          ELSE IF in[i - 1]
               THEN ~(t[i - 1] = Lt /\ t[i] = Close)
               ELSE t[i - 1] = Lt /\ t[i] = Open
    IN  in

\* parseXmlToolCalls: the bodies of the complete calls, in order.
ToolCalls(t) ==
    LET in == Inside(t)
        body(i) == LET start == CHOOSE k \in 1..i - 1 :
                                  ~in[k - 1] /\ \A j \in k..i - 1 : in[j]
                   IN  SubSeq(t, start + 1, i - 2)
        calls[i \in 0..Len(t)] ==
          IF i = 0 THEN <<>>
          ELSE IF in[i - 1] /\ ~in[i] THEN Append(calls[i - 1], body(i)) ELSE calls[i - 1]
    IN  calls[Len(t)]

\* What a model's tool calls look like: none begins inside another.
CallsApart(t) == \A i \in 1..Len(t) - 1 : t[i] = Lt /\ t[i + 1] = Open => ~Inside(t)[i]

\* The calls not seen before, each once: loggedToolCalls.
NewCalls(calls, seen) ==
    LET new[i \in 0..Len(calls)] ==
          IF i = 0 THEN <<>>
          ELSE IF calls[i] \in seen \cup ToSet(new[i - 1])
               THEN new[i - 1] ELSE Append(new[i - 1], calls[i])
    IN  new[Len(calls)]

\* filterContentPipeline on a whole text: tool calls go with their bodies, an
\* unfinished one to the end of the text, then the markup that is left.
Filtered(t) ==
    LET in == Inside(t)
        cleaned[s \in Seq(STRING)] == Clean(s)
    IN  cleaned[At(t, {i \in 1..Len(t) :
                         /\ ~in[i] /\ ~in[i - 1]
                         /\ i < Len(t) => ~in[i + 1]})]
=============================================================================
