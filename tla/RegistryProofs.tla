---------------------------- MODULE RegistryProofs ---------------------------
(***************************************************************************)
(* Proofs about the registry (AccountRegistry), for every number of        *)
(* entries, requests, keys and operations, within RegistryAssumption: only *)
(* a reload that awaits a browser lists an account twice, every slot that  *)
(* is not counted belongs to an account removed or listed again under its  *)
(* request, the file knows what a restart must not forget, no save loses   *)
(* an account and a switched-off account stays off.                        *)
(***************************************************************************)
EXTENDS AccountRegistry, CommonLemmas

\* The emails of the entries of a list, and that each has one.
Known(ents, list) == {ents[id].email : id \in Range(list)}
Each(ents, list) == \A i, j \in 1..Len(list) : ents[list[i]].email = ents[list[j]].email => i = j

\* No process keeps no list, no operation and no slot.
BootInv ==
    boot = "down" => /\ accounts = <<>> /\ tasks = {} /\ watcher = "off" /\ ~debounce
                     /\ \A r \in Requests : slot[r] = 0

-----------------------------------------------------------------------------
(* Lists, and looking an entry up                                          *)

\* What an entry and a record of the file may be.
Entry == [email : Emails, token : BOOLEAN, throttled : 0..MaxCooldown,
          disabled : BOOLEAN, slashed : BOOLEAN, inFlight : Nat]
Record == [email : Emails, token : BOOLEAN, throttled : 0..MaxCooldown,
           disabled : BOOLEAN, slashed : BOOLEAN]

\* Elementary facts about numbers, ranges and appended lists.
LEMMA IdsAre == Ids \subseteq Nat /\ 0 \notin Ids
  BY RegistryAssumption DEF Ids

LEMMA MinOf ==
  ASSUME NEW S \in SUBSET Nat, S # {}
  PROVE  Min(S) \in S /\ \A y \in S : Min(S) <= y
  <1>1. \E x \in S : \A y \in S : x <= y
    BY Least
  <1>2. QED
    BY <1>1 DEF Min

LEMMA MaxOf ==
  ASSUME NEW n \in Nat, NEW S \in SUBSET (1..n), S # {}
  PROVE  Max(S) \in S /\ \A y \in S : y <= Max(S)
  <1>1. \E x \in S : \A y \in S : y <= x
    <2>1. S \in SUBSET (0..n)
      OBVIOUS
    <2>2. QED
      BY <2>1, Greatest
  <1>2. \E x \in S : \A y \in S : x >= y
    BY <1>1
  <1>3. QED
    BY <1>2 DEF Max

LEMMA RangeIs ==
  ASSUME NEW S, NEW list \in Seq(S)
  PROVE  /\ Len(list) \in Nat /\ DOMAIN list = 1..Len(list)
         /\ Range(list) = {list[i] : i \in 1..Len(list)} /\ Range(list) \subseteq S
         /\ \A i \in 1..Len(list) : list[i] \in S
  <1>1. Len(list) \in Nat /\ DOMAIN list = 1..Len(list) /\ \A i \in 1..Len(list) : list[i] \in S
    BY LenProperties, ElementOfSeq
  <1>2. QED
    BY <1>1 DEF Range

LEMMA AppendIs ==
  ASSUME NEW S, NEW list \in Seq(S), NEW x \in S
  PROVE  /\ Append(list, x) \in Seq(S)
         /\ Range(Append(list, x)) = Range(list) \cup {x}
         /\ Len(Append(list, x)) = Len(list) + 1
         /\ \A i \in 1..Len(list) : Append(list, x)[i] = list[i]
         /\ Append(list, x)[Len(list) + 1] = x
         /\ Distinct(list) /\ x \notin Range(list) => Distinct(Append(list, x))
  <1> DEFINE n == Len(list)
             new == Append(list, x)
  <1>1. /\ new \in Seq(S) /\ Len(new) = n + 1 /\ n \in Nat
        /\ \A i \in 1..n : new[i] = list[i]
        /\ new[n + 1] = x
    BY AppendProperties, LenProperties
  <1> HIDE DEF new
  <1>2. Range(list) = {list[i] : i \in 1..n} /\ Range(new) = {new[i] : i \in 1..n + 1}
    BY <1>1, RangeIs
  <1>3. 1..n + 1 = 1..n \cup {n + 1}
    BY <1>1
  <1>4. Range(new) = Range(list) \cup {x}
    <2> HIDE DEF n
    <2>1. QED
      BY <1>1, <1>2, <1>3
  <1>5. ASSUME Distinct(list), x \notin Range(list), NEW i \in 1..n + 1, NEW j \in 1..n + 1,
               new[i] = new[j]
        PROVE  i = j
    BY <1>1, <1>2, <1>3, <1>5 DEF Distinct
  <1>6. QED
    BY <1>1, <1>4, <1>5 DEF Distinct, new

\* The entries of a list that are in ids, one position after the other.
Keeps(list, ids, kept) ==
    /\ kept[0] = <<>>
    /\ \A i \in 1..Len(list) :
          kept[i] = IF list[i] \in ids THEN Append(kept[i - 1], list[i]) ELSE kept[i - 1]

LEMMA OnlyIs ==
  ASSUME NEW S, NEW list \in Seq(S), NEW ids
  PROVE  \E kept : Keeps(list, ids, kept) /\ Only(list, ids) = kept[Len(list)]
  <1> DEFINE n == Len(list)
             A == Seq(S)
             a == <<>>
             Step(i, s) == IF list[i] \in ids THEN Append(s, list[i]) ELSE s
             g == [i \in 1..n |-> [s \in A |-> Step(i, s)]]
             kept[i \in 0..n] ==
               IF i = 0 THEN <<>>
               ELSE IF list[i] \in ids THEN Append(kept[i - 1], list[i]) ELSE kept[i - 1]
  <1>1. n \in Nat /\ a \in A /\ \A i \in 1..n : list[i] \in S
    BY RangeIs, EmptySeq
  <1>2. \A i \in 1..n, s \in A : Step(i, s) \in A
    BY <1>1, AppendProperties
  <1>3. PICK f \in [0..n -> A] : f[0] = a /\ \A i \in 1..n : f[i] = Step(i, f[i - 1])
    <2>1. g \in [1..n -> [A -> A]]
      <3> HIDE DEF n, A, Step
      <3>1. QED
        BY <1>2
    <2>2. \E f \in [0..n -> A] : f[0] = a /\ \A i \in 1..n : f[i] = g[i][f[i - 1]]
      <3>1. n \in Nat /\ a \in A
        BY <1>1
      <3> HIDE DEF n, A, a, g
      <3>2. QED
        BY <2>1, <3>1, Iterates
    <2>3. \A f \in [0..n -> A] : \A i \in 1..n : g[i][f[i - 1]] = Step(i, f[i - 1])
      <3>1. \A i \in 1..n : i - 1 \in 0..n
        BY <1>1
      <3> HIDE DEF n, A, Step
      <3>2. QED
        BY <3>1
    <2> HIDE DEF n, A, a, g, Step
    <2>4. QED
      BY <2>2, <2>3
  <1>4. f = [i \in 0..n |-> IF i = 0 THEN <<>>
                            ELSE IF list[i] \in ids THEN Append(f[i - 1], list[i]) ELSE f[i - 1]]
    <2>1. \A i \in 0..n : f[i] = IF i = 0 THEN <<>>
                                 ELSE IF list[i] \in ids THEN Append(f[i - 1], list[i])
                                 ELSE f[i - 1]
      <3>1. \A i \in 0..n : i = 0 \/ i \in 1..n
        BY <1>1
      <3>2. QED
        BY <1>3, <3>1
    <2> HIDE DEF n
    <2>2. QED
      BY <2>1
  <1>5. kept = [i \in 0..n |-> IF i = 0 THEN <<>>
                               ELSE IF list[i] \in ids THEN Append(kept[i - 1], list[i])
                               ELSE kept[i - 1]]
    BY <1>4
  <1>6. Only(list, ids) = kept[n]
    BY DEF Only
  <1>7. Keeps(list, ids, kept)
    <2>1. \A i \in 0..n : kept[i] = IF i = 0 THEN <<>>
                                    ELSE IF list[i] \in ids THEN Append(kept[i - 1], list[i])
                                    ELSE kept[i - 1]
      <3> HIDE DEF kept, n
      <3>1. QED
        BY <1>5
    <2> HIDE DEF kept
    <2>2. 0 \in 0..n /\ \A i \in 1..n : i \in 0..n /\ i # 0
      BY <1>1
    <2>3. QED
      BY <2>1, <2>2 DEF Keeps
  <1> HIDE DEF kept
  <1>8. QED
    BY <1>6, <1>7

LEMMA OnlyAre ==
  ASSUME NEW S, NEW list \in Seq(S), NEW ids
  PROVE  /\ Only(list, ids) \in Seq(S)
         /\ Range(Only(list, ids)) = Range(list) \cap ids
         /\ Distinct(list) => Distinct(Only(list, ids))
  <1> DEFINE n == Len(list)
             A == Seq(S)
             Step(i, s) == IF list[i] \in ids THEN Append(s, list[i]) ELSE s
  <1>1. n \in Nat /\ <<>> \in A /\ \A i \in 1..n : list[i] \in S
    BY RangeIs, EmptySeq
  <1>2. PICK kept : Keeps(list, ids, kept) /\ Only(list, ids) = kept[n]
    BY OnlyIs
  <1>3. /\ kept[0] = <<>>
        /\ \A i \in 1..n : kept[i] = Step(i, kept[i - 1])
    BY <1>2 DEF Keeps
  <1> HIDE DEF n
  <1> DEFINE Had(i) == {list[k] : k \in 1..i}
             Good == {i \in 0..n : /\ kept[i] \in A /\ Range(kept[i]) = Had(i) \cap ids
                                   /\ Distinct(list) => Distinct(kept[i])}
  <1>4. 0 \in Good
    <2>1. kept[0] = <<>>
      BY <1>3
    <2>2. Had(0) = {} /\ Range(<<>>) = {} /\ Distinct(<<>>) /\ 0 \in 0..n
      BY <1>1 DEF Range, Distinct
    <2> HIDE DEF Had
    <2>3. QED
      BY <1>1, <2>1, <2>2
  <1>5. ASSUME NEW i \in 0..n - 1, i \in Good PROVE i + 1 \in Good
    <2>1. i + 1 \in 1..n /\ (i + 1) - 1 = i /\ i + 1 \in 0..n /\ i + 1 # 0
      BY <1>1
    <2>2. kept[i + 1] = Step(i + 1, kept[i])
      BY <1>3, <2>1
    <2>3. Had(i + 1) = Had(i) \cup {list[i + 1]}
      <3>1. 1..i + 1 = 1..i \cup {i + 1}
        BY <1>1
      <3>2. QED
        BY <3>1
    <2>4. /\ kept[i] \in A /\ Range(kept[i]) = Had(i) \cap ids
          /\ Distinct(list) => Distinct(kept[i])
          /\ list[i + 1] \in S
      BY <1>1, <1>5, <2>1
    <2>5. Distinct(list) => list[i + 1] \notin Had(i)
      <3>1. \A k \in 1..i : k \in 1..n /\ k # i + 1
        BY <1>1, <2>1
      <3>2. QED
        BY <2>1, <3>1 DEF Distinct, n
    <2>6. CASE list[i + 1] \notin ids
      <3>1. kept[i + 1] = kept[i]
        BY <2>2, <2>6
      <3> HIDE DEF Had
      <3>2. QED
        BY <2>1, <2>3, <2>4, <2>6, <3>1
    <2>7. CASE list[i + 1] \in ids
      <3>1. kept[i + 1] = Append(kept[i], list[i + 1])
        BY <2>2, <2>7
      <3> HIDE DEF Had
      <3>2. kept[i + 1] \in A /\ Range(kept[i + 1]) = Range(kept[i]) \cup {list[i + 1]}
        BY <2>4, <3>1, AppendIs
      <3>3. Distinct(list) => Distinct(kept[i + 1])
        BY <2>4, <2>5, <3>1, AppendIs
      <3>4. Range(kept[i + 1]) = Had(i + 1) \cap ids
        BY <2>3, <2>4, <2>7, <3>2
      <3>5. QED
        BY <2>1, <3>2, <3>3, <3>4
    <2>8. QED
      BY <2>6, <2>7
  <1>6. n \in Good
    <2> HIDE DEF Good
    <2>1. 0..n \subseteq Good
      BY <1>1, <1>4, <1>5, InductionUpTo
    <2>2. QED
      BY <1>1, <2>1
  <1>7. Had(n) = Range(list)
    BY RangeIs DEF n
  <1> HIDE DEF Had
  <1>8. QED
    BY <1>2, <1>6, <1>7

\* Entries that differ in their emails are different, and stay that way in a part of
\* their list and when one is added whose email is not there.
LEMMA EachOf ==
  ASSUME NEW ents, NEW list \in Seq(Ids), Each(ents, list)
  PROVE  /\ Distinct(list)
         /\ \A x, y \in Range(list) : ents[x].email = ents[y].email => x = y
         /\ \A ids : Each(ents, Only(list, ids))
         /\ \A x \in Ids : ents[x].email \notin Known(ents, list) => Each(ents, Append(list, x))
  <1>1. Distinct(list)
    BY DEF Each, Distinct
  <1>2. Range(list) = {list[i] : i \in 1..Len(list)} /\ Len(list) \in Nat
    BY RangeIs
  <1>3. \A x, y \in Range(list) : ents[x].email = ents[y].email => x = y
    BY <1>2 DEF Each
  <1>4. ASSUME NEW ids PROVE Each(ents, Only(list, ids))
    <2> DEFINE part == Only(list, ids)
    <2>1. part \in Seq(Ids) /\ Range(part) = Range(list) \cap ids /\ Distinct(part)
      BY <1>1, OnlyAre
    <2> HIDE DEF part
    <2>2. \A i \in 1..Len(part) : part[i] \in Range(list)
      BY <2>1, RangeIs
    <2>3. Each(ents, part)
      BY <1>3, <2>1, <2>2 DEF Each, Distinct
    <2>4. QED
      BY <2>3 DEF part
  <1>5. ASSUME NEW x \in Ids, ents[x].email \notin Known(ents, list)
        PROVE  Each(ents, Append(list, x))
    <2> DEFINE n == Len(list)
               new == Append(list, x)
    <2>1. /\ Len(new) = n + 1 /\ n \in Nat /\ new[n + 1] = x
          /\ \A i \in 1..n : new[i] = list[i]
      BY AppendIs, RangeIs
    <2>2. \A i \in 1..n : ents[list[i]].email # ents[x].email
      BY <1>2, <1>5 DEF Known
    <2> HIDE DEF new, n
    <2>3. ASSUME NEW i \in 1..n + 1, NEW j \in 1..n + 1, ents[new[i]].email = ents[new[j]].email
          PROVE  i = j
      <3>1. (i \in 1..n \/ i = n + 1) /\ (j \in 1..n \/ j = n + 1)
        BY <2>1
      <3>2. CASE i \in 1..n /\ j \in 1..n
        BY <2>1, <2>3, <3>2 DEF Each, n
      <3>3. CASE i = n + 1 \/ j = n + 1
        BY <2>1, <2>2, <2>3, <3>1, <3>3
      <3>4. QED
        BY <3>1, <3>2, <3>3
    <2>4. QED
      BY <2>1, <2>3 DEF Each, new
  <1>6. QED
    BY <1>1, <1>3, <1>4, <1>5

\* What refers to an entry keeps it.
LEMMA SweptIs ==
  ASSUME NEW ents \in [Ids -> Entry], NEW list \in Seq(Ids), NEW ts, NEW sl
  PROVE  /\ Swept(ents, list, ts, sl) \in [Ids -> Entry]
         /\ \A id \in Range(list) : Swept(ents, list, ts, sl)[id] = ents[id]
         /\ \A id \in Ids : Swept(ents, list, ts, sl)[id] \in {ents[id], Unused}
         /\ Unused \in Entry /\ ~Unused.slashed
  <1>1. Unused \in Entry /\ ~Unused.slashed
    <2>1. (CHOOSE e \in Emails : TRUE) \in Emails
      BY RegistryAssumption
    <2>2. QED
      BY <2>1, RegistryAssumption DEF Unused, NewEntry, Entry
  <1>2. Range(list) \subseteq Ids
    BY RangeIs
  <1>3. QED
    BY <1>1, <1>2 DEF Swept, Referred

-----------------------------------------------------------------------------
(* The merge of the file with the environment                              *)

\* The accounts of the environment, each once.
LEMMA EnvSeq ==
  /\ SetToSeq(EnvEmails) \in Seq(Emails)
  /\ Distinct(SetToSeq(EnvEmails))
  /\ Range(SetToSeq(EnvEmails)) = EnvEmails
  <1> DEFINE n == Cardinality(EnvEmails)
             s == SetToSeq(EnvEmails)
  <1>1. IsFiniteSet(EnvEmails) /\ EnvEmails \subseteq Emails
    BY RegistryAssumption, FS_Subset
  <1>2. n \in Nat /\ ExistsBijection(1..n, EnvEmails)
    BY <1>1, FS_CardinalityType
  <1>3. PICK b \in Bijection(1..n, EnvEmails) : TRUE
    BY <1>2 DEF ExistsBijection
  <1>4. b \in [1..n -> EnvEmails] /\ IsInjective(b)
    <2>1. b \in [1..n -> EnvEmails] /\ \A i, j \in 1..n : b[i] = b[j] => i = j
      BY DEF Bijection, Injection, IsInjective
    <2> HIDE DEF n
    <2>2. QED
      BY <2>1 DEF IsInjective
  <1>5. s \in [1..n -> EnvEmails] /\ IsInjective(s)
    <2>1. s = CHOOSE f \in [1..n -> EnvEmails] : IsInjective(f)
      BY DEF SetToSeq
    <2> HIDE DEF s, n
    <2>2. QED
      BY <1>4, <2>1
  <1> HIDE DEF n, s
  <1>6. s \in Seq(Emails) /\ s \in Seq(EnvEmails)
    <2>1. s \in [1..n -> Emails]
      BY <1>1, <1>5
    <2>2. QED
      BY <1>2, <1>5, <2>1, SeqDef
  <1>7. Len(s) = n /\ DOMAIN s = 1..n
    <2>1. DOMAIN s = 1..n /\ DOMAIN s = 1..Len(s) /\ Len(s) \in Nat
      BY <1>5, <1>6, LenProperties
    <2>2. QED
      BY <1>2, <2>1
  <1>8. s \in Injection(1..n, EnvEmails)
    BY <1>5 DEF Injection, IsInjective
  <1>9. Cardinality(1..n) = n
    BY <1>2, FS_Interval
  <1>10. s \in Surjection(1..n, EnvEmails)
    BY <1>1, <1>8, <1>9, FS_Injection DEF n
  <1>11. Range(s) = EnvEmails
    BY <1>5, <1>7, <1>10 DEF Surjection, Range
  <1>12. Distinct(s)
    BY <1>5, <1>7 DEF IsInjective, Distinct
  <1>13. QED
    BY <1>6, <1>11, <1>12 DEF s

\* The merged accounts: each email once, those of the environment, and those of the
\* file if its passwords could be decrypted.
LEMMA MergedIs ==
  ASSUME NEW recs, recs \in Seq(Record), NEW decrypted
  PROVE  /\ MergedEmails(recs, decrypted) \in Seq(Emails)
         /\ Distinct(MergedEmails(recs, decrypted))
         /\ Range(MergedEmails(recs, decrypted)) =
              EnvEmails \cup {e \in Emails : decrypted /\ \E i \in 1..Len(recs) : recs[i].email = e}
  <1> DEFINE n == Len(recs)
             A == Seq(Emails)
             a == SetToSeq(EnvEmails)
             Step(i, s) == IF decrypted /\ recs[i].email \notin Range(s)
                           THEN Append(s, recs[i].email) ELSE s
             g == [i \in 1..n |-> [s \in A |-> Step(i, s)]]
             merged[i \in 0..n] ==
               IF i = 0 THEN SetToSeq(EnvEmails)
               ELSE IF decrypted /\ recs[i].email \notin Range(merged[i - 1])
                    THEN Append(merged[i - 1], recs[i].email) ELSE merged[i - 1]
  <1>1. n \in Nat /\ a \in A /\ \A i \in 1..n : recs[i].email \in Emails
    <2>1. n \in Nat /\ \A i \in 1..n : recs[i] \in Record
      BY RangeIs
    <2>2. \A i \in 1..n : recs[i].email \in Emails
      BY <2>1 DEF Record
    <2>3. QED
      BY <2>1, <2>2, EnvSeq
  <1>2. \A i \in 1..n, s \in A : Step(i, s) \in A
    BY <1>1, AppendProperties
  <1>3. PICK f \in [0..n -> A] : f[0] = a /\ \A i \in 1..n : f[i] = Step(i, f[i - 1])
    <2>1. g \in [1..n -> [A -> A]]
      <3> HIDE DEF n, A, Step
      <3>1. QED
        BY <1>2
    <2>2. \E f \in [0..n -> A] : f[0] = a /\ \A i \in 1..n : f[i] = g[i][f[i - 1]]
      <3>1. n \in Nat /\ a \in A
        BY <1>1
      <3> HIDE DEF n, A, a, g
      <3>2. QED
        BY <2>1, <3>1, Iterates
    <2>3. \A f \in [0..n -> A] : \A i \in 1..n : g[i][f[i - 1]] = Step(i, f[i - 1])
      <3>1. \A i \in 1..n : i - 1 \in 0..n
        BY <1>1
      <3> HIDE DEF n, A, Step
      <3>2. QED
        BY <3>1
    <2> HIDE DEF n, A, a, g, Step
    <2>4. QED
      BY <2>2, <2>3
  <1>4. f = [i \in 0..n |-> IF i = 0 THEN SetToSeq(EnvEmails)
                            ELSE IF decrypted /\ recs[i].email \notin Range(f[i - 1])
                                 THEN Append(f[i - 1], recs[i].email) ELSE f[i - 1]]
    <2>1. \A i \in 0..n : f[i] = IF i = 0 THEN SetToSeq(EnvEmails)
                                 ELSE IF decrypted /\ recs[i].email \notin Range(f[i - 1])
                                      THEN Append(f[i - 1], recs[i].email) ELSE f[i - 1]
      <3>1. \A i \in 0..n : i = 0 \/ i \in 1..n
        BY <1>1
      <3>2. QED
        BY <1>3, <3>1
    <2> HIDE DEF n
    <2>2. QED
      BY <2>1
  <1>5. merged = [i \in 0..n |-> IF i = 0 THEN SetToSeq(EnvEmails)
                                 ELSE IF decrypted /\ recs[i].email \notin Range(merged[i - 1])
                                      THEN Append(merged[i - 1], recs[i].email)
                                      ELSE merged[i - 1]]
    BY <1>4
  <1>6. MergedEmails(recs, decrypted) = merged[n]
    BY DEF MergedEmails
  <1> HIDE DEF merged, n
  <1> DEFINE Had(i) == {e \in Emails : decrypted /\ \E k \in 1..i : recs[k].email = e}
             Good == {i \in 0..n : /\ merged[i] \in A /\ Distinct(merged[i])
                                   /\ Range(merged[i]) = EnvEmails \cup Had(i)}
  <1>7. 0 \in Good
    <2>1. merged[0] = SetToSeq(EnvEmails) /\ 0 \in 0..n
      BY <1>1, <1>5
    <2>2. Had(0) = {}
      OBVIOUS
    <2>3. QED
      BY <2>1, <2>2, EnvSeq
  <1>8. ASSUME NEW i \in 0..n - 1, i \in Good PROVE i + 1 \in Good
    <2>1. i + 1 \in 1..n /\ (i + 1) - 1 = i /\ i + 1 \in 0..n /\ i + 1 # 0
      BY <1>1
    <2>2. merged[i + 1] = Step(i + 1, merged[i])
      BY <1>5, <2>1
    <2> DEFINE e == recs[i + 1].email
    <2>3. e \in Emails
      BY <1>1, <2>1
    <2>4. Had(i + 1) = Had(i) \cup (IF decrypted THEN {e} ELSE {})
      <3>1. 1..i + 1 = 1..i \cup {i + 1}
        BY <1>1
      <3>2. QED
        BY <2>3, <3>1
    <2>5. merged[i] \in A /\ Distinct(merged[i]) /\ Range(merged[i]) = EnvEmails \cup Had(i)
      BY <1>8
    <2> HIDE DEF Had
    <2>6. CASE decrypted /\ e \notin Range(merged[i])
      <3>1. merged[i + 1] = Append(merged[i], e)
        BY <2>2, <2>6
      <3> HIDE DEF e
      <3>2. /\ merged[i + 1] \in A /\ Distinct(merged[i + 1])
            /\ Range(merged[i + 1]) = Range(merged[i]) \cup {e}
        BY <2>3, <2>5, <2>6, <3>1, AppendIs
      <3>3. QED
        BY <2>1, <2>4, <2>5, <2>6, <3>2
    <2>7. CASE ~(decrypted /\ e \notin Range(merged[i]))
      <3>1. merged[i + 1] = merged[i]
        BY <2>2, <2>7
      <3> HIDE DEF e
      <3>2. QED
        BY <2>1, <2>4, <2>5, <2>7, <3>1
    <2>8. QED
      BY <2>6, <2>7
  <1>9. n \in Good
    <2> HIDE DEF Good
    <2>1. 0..n \subseteq Good
      BY <1>1, <1>7, <1>8, InductionUpTo
    <2>2. QED
      BY <1>1, <2>1
  <1>10. QED
    BY <1>6, <1>9 DEF n

\* A record is the only one of its email.
SoleRecord(recs, i) == \A j \in 1..Len(recs) : recs[j].email = recs[i].email => j = i

\* The entry of a merged account is idle and remembers its record.
LEMMA MergedEntryIs ==
  ASSUME NEW recs \in Seq(Record), NEW e \in Emails, NEW stale \in BOOLEAN
  PROVE  /\ MergedEntry(recs, e, stale) \in Entry
         /\ MergedEntry(recs, e, stale).email = e
         /\ MergedEntry(recs, e, stale).inFlight = 0
         /\ (\A i \in 1..Len(recs) : ~recs[i].slashed) => ~MergedEntry(recs, e, stale).slashed
         /\ \A i \in 1..Len(recs) : recs[i].email = e /\ SoleRecord(recs, i) =>
                /\ MergedEntry(recs, e, stale).disabled = recs[i].disabled
                /\ MergedEntry(recs, e, stale).throttled = recs[i].throttled
  <1> DEFINE at == {i \in DOMAIN recs : recs[i].email = e}
             cool == {i \in at : recs[i].throttled > 0}
             m == MergedEntry(recs, e, stale)
  <1>1. /\ Len(recs) \in Nat /\ DOMAIN recs = 1..Len(recs)
        /\ \A i \in 1..Len(recs) : recs[i] \in Record
    BY RangeIs
  <1>2. /\ at # {} => Max(at) \in at
        /\ cool # {} => Max(cool) \in cool
    <2>1. at \in SUBSET (1..Len(recs)) /\ cool \in SUBSET (1..Len(recs))
      BY <1>1
    <2> HIDE DEF at, cool
    <2>2. QED
      BY <1>1, <2>1, MaxOf
  <1> DEFINE x == Max(at)
             y == Max(cool)
  <1>3. at # {} => x \in at
    BY <1>2
  <1>4. cool # {} => y \in cool
    BY <1>2
  <1>5. m = [email |-> e, token |-> (~stale /\ \E i \in at : recs[i].token),
             throttled |-> IF cool = {} THEN 0 ELSE recs[y].throttled,
             disabled |-> IF at = {} THEN FALSE ELSE recs[x].disabled,
             slashed |-> (\E i \in at : recs[i].slashed), inFlight |-> 0]
    <2> HIDE DEF x, y
    <2>1. m = [NewEntry(e) EXCEPT
                 !.throttled = IF cool = {} THEN 0 ELSE recs[y].throttled,
                 !.disabled = IF at = {} THEN FALSE ELSE recs[x].disabled,
                 !.slashed = (\E i \in at : recs[i].slashed),
                 !.token = (~stale /\ \E i \in at : recs[i].token)]
      BY DEF MergedEntry, x, y
    <2> HIDE DEF at, cool, m
    <2>2. QED
      BY <2>1 DEF NewEntry
  <1>6. at \subseteq 1..Len(recs) /\ cool \subseteq at
    BY <1>1
  <1> HIDE DEF x, y, m
  <1>7. /\ at # {} => recs[x].disabled \in BOOLEAN
        /\ cool # {} => recs[y].throttled \in 0..MaxCooldown
        /\ 0 \in 0..MaxCooldown
    BY <1>1, <1>3, <1>4, <1>6, RegistryAssumption DEF Record
  <1>8. m \in Entry
    <2> HIDE DEF at, cool
    <2>1. QED
      BY <1>5, <1>7 DEF Entry
  <1>9. m.email = e /\ m.inFlight = 0
    BY <1>5
  <1>10. (\A i \in 1..Len(recs) : ~recs[i].slashed) => ~m.slashed
    <2>1. m.slashed = \E i \in at : recs[i].slashed
      BY <1>5
    <2>2. QED
      BY <1>6, <2>1
  <1>11. ASSUME NEW i \in 1..Len(recs), recs[i].email = e, SoleRecord(recs, i)
         PROVE  m.disabled = recs[i].disabled /\ m.throttled = recs[i].throttled
    <2>1. at = {i}
      BY <1>1, <1>11 DEF SoleRecord
    <2>2. x = i /\ m.disabled = recs[i].disabled
      <3>1. x = i
        BY <1>3, <2>1
      <3>2. m.disabled = IF at = {} THEN FALSE ELSE recs[x].disabled
        BY <1>5
      <3>3. QED
        BY <2>1, <3>1, <3>2
    <2>3. m.throttled = IF cool = {} THEN 0 ELSE recs[y].throttled
      BY <1>5
    <2>4. recs[i].throttled \in Nat
      BY <1>1, RegistryAssumption DEF Record
    <2>5. CASE cool = {}
      <3>1. ~(recs[i].throttled > 0)
        BY <2>1, <2>5
      <3>2. QED
        BY <2>2, <2>3, <2>4, <2>5, <3>1
    <2>6. CASE cool # {}
      <3>1. y = i
        BY <1>4, <2>1, <2>6
      <3>2. QED
        BY <2>2, <2>3, <2>6, <3>1
    <2>7. QED
      BY <2>5, <2>6
  <1>12. QED
    BY <1>8, <1>9, <1>10, <1>11 DEF m

-----------------------------------------------------------------------------
(* The types                                                               *)

\* What a task and the file may be.
TaskSet == [kind : {"boot", "reload", "add", "login"}, email : Emails,
            entry : Ids, acct : Ids \cup {0},
            at : {"open", "create", "reading", "authorize", "signin"}]
FileSet == [key : ApiKeys \cup {"master"}, recs : Seq(Record)]

\* Looking an account up finds one of the list or none.
LEMMA FoundIn ==
  ASSUME NEW ents, NEW list \in Seq(Ids), NEW e
  PROVE  Found(ents, list, e) \in Range(list) \cup {0} /\ Range(list) \subseteq Ids
  <1> DEFINE at == {i \in DOMAIN list : ents[list[i]].email = e}
  <1>1. /\ DOMAIN list = 1..Len(list) /\ Range(list) \subseteq Ids
        /\ \A i \in 1..Len(list) : list[i] \in Range(list)
    BY RangeIs
  <1>2. at # {} => Min(at) \in at
    <2>1. at \in SUBSET Nat
      BY <1>1
    <2> HIDE DEF at
    <2>2. QED
      BY <2>1, MinOf
  <1> DEFINE k == Min(at)
  <1>3. at # {} => list[k] \in Range(list)
    BY <1>1, <1>2
  <1>4. Found(ents, list, e) = IF at = {} THEN 0 ELSE list[k]
    BY DEF Found
  <1> HIDE DEF at, k
  <1>5. QED
    BY <1>1, <1>3, <1>4

LEMMA IndexIn ==
  ASSUME NEW ents, NEW list \in Seq(Ids)
  PROVE  IndexOf(ents, list) \in [Emails -> Ids \cup {0}]
  <1> DEFINE Spots(e) == {i \in DOMAIN list : ents[list[i]].email = e}
  <1>1. /\ Len(list) \in Nat /\ DOMAIN list = 1..Len(list)
        /\ \A i \in 1..Len(list) : list[i] \in Ids
    BY RangeIs
  <1>2. ASSUME NEW e \in Emails PROVE (IF Spots(e) = {} THEN 0 ELSE list[Max(Spots(e))]) \in Ids \cup {0}
    <2>1. Spots(e) # {} => Max(Spots(e)) \in Spots(e)
      <3>1. Spots(e) \in SUBSET (1..Len(list))
        BY <1>1
      <3> HIDE DEF Spots
      <3>2. QED
        BY <1>1, <3>1, MaxOf
    <2>2. Spots(e) # {} => Max(Spots(e)) \in 1..Len(list)
      BY <1>1, <2>1
    <2> HIDE DEF Spots
    <2>3. QED
      BY <1>1, <2>2
  <1>3. IndexOf(ents, list) = [e \in Emails |-> IF Spots(e) = {} THEN 0 ELSE list[Max(Spots(e))]]
    BY DEF IndexOf
  <1> HIDE DEF Spots
  <1>4. QED
    BY <1>2, <1>3

\* Changing fields of one entry.
LEMMA EntryFields ==
  ASSUME NEW ents \in [Ids -> Entry], NEW id \in Ids
  PROVE  /\ [ents EXCEPT ![id].token = TRUE] \in [Ids -> Entry]
         /\ \A b \in BOOLEAN : [ents EXCEPT ![id].disabled = b] \in [Ids -> Entry]
         /\ \A b \in BOOLEAN : [ents EXCEPT ![id].slashed = b] \in [Ids -> Entry]
         /\ \A n \in 0..MaxCooldown : [ents EXCEPT ![id].throttled = n] \in [Ids -> Entry]
         /\ \A n \in Nat : [ents EXCEPT ![id].inFlight = n] \in [Ids -> Entry]
         /\ \A x \in Entry : [ents EXCEPT ![id] = x] \in [Ids -> Entry]
  <1>1. ents[id] \in Entry
    OBVIOUS
  <1>2. /\ [ents[id] EXCEPT !.token = TRUE] \in Entry
        /\ \A b \in BOOLEAN : [ents[id] EXCEPT !.disabled = b] \in Entry
        /\ \A b \in BOOLEAN : [ents[id] EXCEPT !.slashed = b] \in Entry
        /\ \A n \in 0..MaxCooldown : [ents[id] EXCEPT !.throttled = n] \in Entry
        /\ \A n \in Nat : [ents[id] EXCEPT !.inFlight = n] \in Entry
    BY <1>1 DEF Entry
  <1>3. QED
    BY <1>2

LEMMA NewEntryIs ==
  ASSUME NEW e \in Emails
  PROVE  /\ NewEntry(e) \in Entry /\ NewEntry(e).email = e /\ NewEntry(e).inFlight = 0
         /\ ~NewEntry(e).slashed
  BY RegistryAssumption DEF NewEntry, Entry

\* saveCookies changes the token and the cooldown of the account it finds.
LEMMA CookiesAre ==
  ASSUME NEW ents \in [Ids -> Entry], NEW list \in Seq(Ids), NEW e
  PROVE  /\ WithCookies(ents, list, e) \in [Ids -> Entry]
         /\ \A id \in Ids : /\ WithCookies(ents, list, e)[id].email = ents[id].email
                            /\ WithCookies(ents, list, e)[id].inFlight = ents[id].inFlight
                            /\ WithCookies(ents, list, e)[id].disabled = ents[id].disabled
                            /\ WithCookies(ents, list, e)[id].slashed = ents[id].slashed
         /\ Found(ents, list, e) = 0 => WithCookies(ents, list, e) = ents
  <1> DEFINE id == Found(ents, list, e)
             once == [ents EXCEPT ![id].token = TRUE]
  <1>1. id \in Ids \cup {0}
    BY FoundIn
  <1>2. WithCookies(ents, list, e) = IF id = 0 THEN ents
                                     ELSE [ents EXCEPT ![id].token = TRUE, ![id].throttled = 0]
    BY DEF WithCookies
  <1> HIDE DEF id
  <1>3. ASSUME id # 0 PROVE /\ [ents EXCEPT ![id].token = TRUE, ![id].throttled = 0] \in [Ids -> Entry]
    <2>1. id \in Ids
      BY <1>1, <1>3
    <2>2. once \in [Ids -> Entry]
      BY <2>1, EntryFields
    <2>3. 0 \in 0..MaxCooldown
      BY RegistryAssumption
    <2> DEFINE two == [once EXCEPT ![id].throttled = 0]
    <2>4. two \in [Ids -> Entry]
      <3> HIDE DEF once
      <3>1. QED
        BY <2>1, <2>2, <2>3, EntryFields
    <2>5. [ents EXCEPT ![id].token = TRUE, ![id].throttled = 0] = two
      OBVIOUS
    <2>6. QED
      BY <2>4, <2>5
  <1>4. WithCookies(ents, list, e) \in [Ids -> Entry]
    BY <1>2, <1>3
  <1>5. ASSUME NEW k \in Ids
        PROVE  /\ WithCookies(ents, list, e)[k].email = ents[k].email
               /\ WithCookies(ents, list, e)[k].inFlight = ents[k].inFlight
               /\ WithCookies(ents, list, e)[k].disabled = ents[k].disabled
               /\ WithCookies(ents, list, e)[k].slashed = ents[k].slashed
    BY <1>1, <1>2 DEF Entry
  <1>6. QED
    BY <1>2, <1>4, <1>5 DEF id

\* The type invariant, by the names of its sets.
Typed ==
    /\ boot \in {"down", "profiles", "logins", "done"}
    /\ entries \in [Ids -> Entry]
    /\ accounts \in Seq(Ids)
    /\ emailIndex \in [Emails -> Ids \cup {0}]
    /\ file \in FileSet
    /\ masterKey \in BOOLEAN
    /\ apiKey \in ApiKeys \cup {"none"}
    /\ profile \in [Emails -> Profiles]
    /\ tasks \subseteq TaskSet
    /\ watcher \in {"off", "warming", "ready", "failed"}
    /\ debounce \in BOOLEAN
    /\ slot \in [Requests -> Ids \cup {0}]

\* The type invariant, with the names of this module.
LEMMA TypesAre == TypeOK <=> Typed
  BY DEF TypeOK, Typed, Entry, FileSet, Record, TaskSet

LEMMA TypesNext == TypeOK' <=> Typed'
  BY TypesAre, PTL

LEMMA TaskFields ==
  ASSUME NEW t \in TaskSet
  PROVE  /\ t.email \in Emails /\ t.entry \in Ids /\ t.acct \in Ids \cup {0}
         /\ t.kind \in {"boot", "reload", "add", "login"}
         /\ t.at \in {"open", "create", "reading", "authorize", "signin"}
         /\ [t EXCEPT !.at = "signin", !.acct = 0] \in TaskSet
         /\ [t EXCEPT !.at = "authorize"] \in TaskSet
         /\ \A id \in Ids \cup {0} : [t EXCEPT !.at = "reading", !.acct = id] \in TaskSet
         /\ [t EXCEPT !.at = "signin", !.acct = 0].kind = t.kind
         /\ [t EXCEPT !.at = "authorize"].kind = t.kind
         /\ \A id \in Ids \cup {0} : [t EXCEPT !.at = "reading", !.acct = id].kind = t.kind
  BY DEF TaskSet

\* What a save writes: a record of every entry of the list.
LEMMA ImageIs ==
  ASSUME TypeOK, NEW ents \in [Ids -> Entry], NEW list \in Seq(Ids)
  PROVE  /\ Image(ents, list) \in FileSet
         /\ Image(ents, list).key = KeyInUse
         /\ Len(Image(ents, list).recs) = Len(list)
         /\ DOMAIN Image(ents, list).recs = 1..Len(list)
         /\ \A i \in 1..Len(list) :
              /\ Image(ents, list).recs[i] \in Record
              /\ Image(ents, list).recs[i].email = ents[list[i]].email
              /\ Image(ents, list).recs[i].throttled = ents[list[i]].throttled
              /\ Image(ents, list).recs[i].disabled = ents[list[i]].disabled
              /\ Image(ents, list).recs[i].slashed = ents[list[i]].slashed
  <1> DEFINE n == Len(list)
             Of(id) == [email |-> ents[id].email, token |-> ents[id].token,
                        throttled |-> ents[id].throttled, disabled |-> ents[id].disabled,
                        slashed |-> ents[id].slashed]
             recs == [i \in 1..n |-> Of(list[i])]
  <1>1. n \in Nat /\ DOMAIN list = 1..n /\ \A i \in 1..n : list[i] \in Ids
    BY RangeIs
  <1>2. \A id \in Ids : Of(id) \in Record
    BY DEF Entry, Record
  <1>3. Image(ents, list) = [key |-> KeyInUse, recs |-> recs]
    BY <1>1 DEF Image
  <1>4. recs \in [1..n -> Record] /\ \A i \in 1..n : recs[i] = Of(list[i])
    <2> HIDE DEF n, Of
    <2>1. QED
      BY <1>1, <1>2
  <1>5. \A id \in Ids : /\ Of(id).email = ents[id].email
                        /\ Of(id).throttled = ents[id].throttled
                        /\ Of(id).disabled = ents[id].disabled
                        /\ Of(id).slashed = ents[id].slashed
    OBVIOUS
  <1> HIDE DEF n, Of, recs
  <1>6. recs \in Seq(Record)
    BY <1>1, <1>4, SeqDef
  <1>7. DOMAIN recs = 1..n /\ Len(recs) = n
    <2>1. DOMAIN recs = 1..n /\ DOMAIN recs = 1..Len(recs) /\ Len(recs) \in Nat
      BY <1>4, <1>6, LenProperties
    <2>2. QED
      BY <1>1, <2>1
  <1>8. KeyInUse \in ApiKeys \cup {"master"}
    BY DEF KeyInUse, TypeOK
  <1>9. Image(ents, list) \in FileSet
    BY <1>3, <1>6, <1>8 DEF FileSet
  <1>10. \A i \in 1..n : recs[i] \in Record /\ recs[i] = Of(list[i]) /\ list[i] \in Ids
    BY <1>1, <1>4
  <1>11. QED
    BY <1>3, <1>5, <1>7, <1>9, <1>10 DEF n

\* What a save, an update of the list and the end of a task leave is typed.
LEMMA SavesTyped ==
  ASSUME TypeOK, NEW ents \in [Ids -> Entry], NEW list \in Seq(Ids),
         Saves(ents, list) \/ NoSave
  PROVE  file' \in FileSet /\ masterKey' \in BOOLEAN /\ debounce' \in BOOLEAN
  <1>1. file \in FileSet /\ masterKey \in BOOLEAN /\ debounce \in BOOLEAN
    BY TypesAre DEF Typed
  <1>2. CASE Saves(ents, list)
    <2>1. file' \in FileSet
      BY <1>2, ImageIs DEF Saves
    <2>2. masterKey' \in BOOLEAN
      BY <1>1, <1>2 DEF Saves
    <2>3. debounce' \in BOOLEAN
      BY <1>1, <1>2 DEF Saves
    <2>4. QED
      BY <2>1, <2>2, <2>3
  <1>3. CASE NoSave
    BY <1>1, <1>3 DEF NoSave
  <1>4. QED
    BY <1>2, <1>3

LEMMA PutTyped ==
  ASSUME NEW ents \in [Ids -> Entry], NEW list \in Seq(Ids), NEW ts \in SUBSET TaskSet,
         NEW sl \in [Requests -> Ids \cup {0}], Put(ents, list, ts, sl)
  PROVE  /\ entries' \in [Ids -> Entry] /\ accounts' \in Seq(Ids)
         /\ tasks' \subseteq TaskSet /\ slot' \in [Requests -> Ids \cup {0}]
  BY SweptIs DEF Put

LEMMA ReloadedTyped ==
  ASSUME TypeOK, NEW ents \in [Ids -> Entry], NEW list \in Seq(Ids), NEW ts \in SUBSET TaskSet,
         Reloaded(ents, list, ts)
  PROVE  /\ entries' \in [Ids -> Entry] /\ accounts' \in Seq(Ids)
         /\ tasks' \subseteq TaskSet /\ slot' \in [Requests -> Ids \cup {0}]
         /\ emailIndex' \in [Emails -> Ids \cup {0}]
  <1> DEFINE kept == Only(list, {id \in Ids : Stays(ents, id)})
  <1>1. Put(ents, kept, ts, slot) /\ Reindex(ents, kept)
    BY DEF Reloaded
  <1>2. kept \in Seq(Ids)
    BY OnlyAre
  <1>3. slot \in [Requests -> Ids \cup {0}] /\ emailIndex \in [Emails -> Ids \cup {0}]
    BY DEF TypeOK
  <1> HIDE DEF kept
  <1>4. emailIndex' \in [Emails -> Ids \cup {0}]
    BY <1>1, <1>2, <1>3, IndexIn DEF Reindex
  <1>5. QED
    BY <1>1, <1>2, <1>3, <1>4, PutTyped

LEMMA ReturnsTyped ==
  ASSUME TypeOK, NEW t \in tasks, NEW ok \in BOOLEAN, NEW ents \in [Ids -> Entry],
         Returns(t, ok, ents)
  PROVE  /\ entries' \in [Ids -> Entry] /\ accounts' \in Seq(Ids)
         /\ tasks' \subseteq TaskSet /\ slot' \in [Requests -> Ids \cup {0}]
         /\ emailIndex' \in [Emails -> Ids \cup {0}]
  <1> DEFINE got == IF ok THEN [ents EXCEPT ![t.entry].token = TRUE] ELSE ents
             rest == tasks \ {t}
             more == rest \cup {[t EXCEPT !.at = "signin", !.acct = 0]}
  <1>1. /\ accounts \in Seq(Ids) /\ slot \in [Requests -> Ids \cup {0}]
        /\ emailIndex \in [Emails -> Ids \cup {0}] /\ tasks \subseteq TaskSet
    BY TypesAre DEF Typed
  <1>2. t \in TaskSet /\ t.entry \in Ids
    BY <1>1, TaskFields
  <1>3. got \in [Ids -> Entry]
    BY <1>2, EntryFields
  <1>4. rest \in SUBSET TaskSet /\ more \in SUBSET TaskSet
    BY <1>1, <1>2, TaskFields
  <1>5. \/ Reloaded(got, Append(accounts, t.entry), rest)
        \/ Put(got, accounts, more, slot) /\ UNCHANGED emailIndex
        \/ Put(got, accounts, rest, slot) /\ UNCHANGED emailIndex
    BY DEF Returns
  <1> HIDE DEF got, rest, more
  <1>6. Append(accounts, t.entry) \in Seq(Ids)
    BY <1>1, <1>2, AppendIs
  <1>7. QED
    BY <1>1, <1>3, <1>4, <1>5, <1>6, ReloadedTyped, PutTyped

LEMMA AfterTyped ==
  ASSUME TypeOK, NEW t \in tasks, NEW loggedIn \in BOOLEAN, NEW ents \in [Ids -> Entry],
         After(t, loggedIn, ents)
  PROVE  /\ entries' \in [Ids -> Entry] /\ accounts' \in Seq(Ids)
         /\ tasks' \subseteq TaskSet /\ slot' \in [Requests -> Ids \cup {0}]
         /\ emailIndex' \in [Emails -> Ids \cup {0}]
  <1> DEFINE updated == Found(ents, accounts, t.email)
             acct == IF t.at = "create" THEN t.acct ELSE updated
             ok == loggedIn /\ acct # 0 /\ ents[acct].token
             next == [t EXCEPT !.at = "reading", !.acct = updated]
  <1>1. /\ accounts \in Seq(Ids) /\ slot \in [Requests -> Ids \cup {0}]
        /\ emailIndex \in [Emails -> Ids \cup {0}] /\ tasks \subseteq TaskSet
    BY TypesAre DEF Typed
  <1>2. updated \in Ids \cup {0}
    BY <1>1, FoundIn
  <1>3. next \in TaskSet /\ acct \in Ids \cup {0}
    <2> HIDE DEF updated
    <2>1. QED
      BY <1>1, <1>2, TaskFields
  <1>4. ok \in BOOLEAN
    <2> HIDE DEF acct
    <2>1. acct # 0 => ents[acct].token \in BOOLEAN
      BY <1>3 DEF Entry
    <2>2. QED
      BY <2>1
  <1>5. \/ /\ tasks' = (tasks \ {t}) \cup {next}
           /\ entries' = ents /\ UNCHANGED <<accounts, emailIndex, slot>>
        \/ Returns(t, ok, ents)
    BY DEF After
  <1> HIDE DEF next, ok
  <1>6. QED
    BY <1>1, <1>3, <1>4, <1>5, ReturnsTyped

-----------------------------------------------------------------------------
(* The types, of the operations that await a browser                       *)

LEMMA TaskStepTypes ==
  ASSUME TypeOK, TaskStep
  PROVE  TypeOK'
  <1>1. /\ boot \in {"down", "profiles", "logins", "done"}
        /\ entries \in [Ids -> Entry] /\ accounts \in Seq(Ids)
        /\ emailIndex \in [Emails -> Ids \cup {0}] /\ file \in FileSet
        /\ masterKey \in BOOLEAN /\ apiKey \in ApiKeys \cup {"none"}
        /\ profile \in [Emails -> Profiles] /\ tasks \subseteq TaskSet
        /\ watcher \in {"off", "warming", "ready", "failed"}
        /\ debounce \in BOOLEAN /\ slot \in [Requests -> Ids \cup {0}]
    BY TypesAre DEF Typed
  <1>2. boot' = boot /\ apiKey' = apiKey /\ watcher' = watcher
    BY DEF TaskStep
  <1>3. PICK t \in tasks : \/ ReadFails(t) \/ ReadBlank(t) \/ ReadCookies(t)
                           \/ LogsIn(t) \/ IsLoggedIn(t) \/ LoginFails(t)
                           \/ SignsIn(t) \/ SignInFails(t)
    BY DEF TaskStep
  <1>4. t \in TaskSet /\ t.email \in Emails /\ t.entry \in Ids /\ t.acct \in Ids \cup {0}
    BY <1>1, TaskFields
  <1> DEFINE Goal == /\ entries' \in [Ids -> Entry] /\ accounts' \in Seq(Ids)
                     /\ tasks' \subseteq TaskSet /\ slot' \in [Requests -> Ids \cup {0}]
                     /\ emailIndex' \in [Emails -> Ids \cup {0}]
                     /\ file' \in FileSet /\ masterKey' \in BOOLEAN /\ debounce' \in BOOLEAN
                     /\ profile' \in [Emails -> Profiles]
             cook == WithCookies(entries, accounts, t.email)
  <1> SUFFICES Goal
    BY <1>1, <1>2, TypesNext DEF Typed
  <1>5. NoSave => file' \in FileSet /\ masterKey' \in BOOLEAN /\ debounce' \in BOOLEAN
    BY <1>1 DEF NoSave
  <1>6. cook \in [Ids -> Entry]
    BY <1>1, CookiesAre
  <1>7. \A state \in Profiles : Written(t.email, state) \in [Emails -> Profiles]
    BY <1>1, <1>4 DEF Written
  <1>8. CASE ReadFails(t)
    <2>1. Returns(t, FALSE, entries) /\ NoSave /\ profile' = profile
      BY <1>8 DEF ReadFails
    <2>2. QED
      BY <1>1, <1>5, <2>1, ReturnsTyped
  <1>9. CASE ReadBlank(t)
    <2>1. /\ NoSave /\ profile' = profile
          /\ \/ /\ tasks' = (tasks \ {t}) \cup {[t EXCEPT !.at = "authorize"]}
                /\ UNCHANGED <<entries, accounts, emailIndex, slot>>
             \/ Returns(t, FALSE, entries)
      BY <1>9 DEF ReadBlank
    <2>2. [t EXCEPT !.at = "authorize"] \in TaskSet
      BY <1>4, TaskFields
    <2>3. QED
      BY <1>1, <1>5, <2>1, <2>2, ReturnsTyped
  <1>10. CASE ReadCookies(t)
    <2>1. PICK slashed \in BOOLEAN :
            LET signed == profile[t.email] = "signed"
                kept == IF t.acct = 0 THEN entries
                        ELSE [entries EXCEPT ![t.acct].slashed = slashed]
                now == IF signed THEN WithCookies(kept, accounts, t.email) ELSE kept
            IN /\ Returns(t, signed, now)
               /\ Saves(now, accounts) \/ NoSave
      BY <1>10 DEF ReadCookies
    <2> DEFINE signed == profile[t.email] = "signed"
               kept == IF t.acct = 0 THEN entries
                       ELSE [entries EXCEPT ![t.acct].slashed = slashed]
               now == IF signed THEN WithCookies(kept, accounts, t.email) ELSE kept
    <2>2. kept \in [Ids -> Entry]
      BY <1>1, <1>4, EntryFields
    <2>3. now \in [Ids -> Entry]
      <3> HIDE DEF kept
      <3>1. QED
        BY <1>1, <2>2, CookiesAre
    <2>4. signed \in BOOLEAN
      OBVIOUS
    <2>5. Returns(t, signed, now) /\ (Saves(now, accounts) \/ NoSave) /\ profile' = profile
      BY <1>10, <2>1 DEF ReadCookies
    <2> HIDE DEF now, signed
    <2>6. QED
      BY <1>1, <2>3, <2>4, <2>5, ReturnsTyped, SavesTyped
  <1>11. CASE LogsIn(t)
    <2>1. /\ After(t, TRUE, cook)
          /\ Saves(cook, accounts) \/ NoSave
          /\ profile' = Written(t.email, "signed")
      BY <1>11 DEF LogsIn
    <2>2. profile' \in [Emails -> Profiles]
      BY <1>7, <2>1 DEF Profiles
    <2> HIDE DEF cook
    <2>3. QED
      BY <1>1, <1>6, <2>1, <2>2, AfterTyped, SavesTyped
  <1>12. CASE IsLoggedIn(t)
    <2>1. After(t, TRUE, entries) /\ NoSave /\ profile' = profile
      BY <1>12 DEF IsLoggedIn
    <2>2. QED
      BY <1>1, <1>5, <2>1, AfterTyped
  <1>13. CASE LoginFails(t)
    <2>1. After(t, FALSE, entries) /\ NoSave
      BY <1>13 DEF LoginFails
    <2>2. profile' \in [Emails -> Profiles]
      BY <1>1, <1>7, <1>13 DEF LoginFails, Profiles
    <2>3. QED
      BY <1>1, <1>5, <2>1, <2>2, AfterTyped
  <1>14. CASE SignsIn(t)
    <2> DEFINE got == [entries EXCEPT ![t.entry].token = TRUE]
               now == IF t.kind = "boot" THEN WithCookies(got, accounts, t.email) ELSE got
               rest == tasks \ {t}
    <2>1. got \in [Ids -> Entry]
      BY <1>1, <1>4, EntryFields
    <2>2. now \in [Ids -> Entry]
      <3> HIDE DEF got
      <3>1. QED
        BY <1>1, <2>1, CookiesAre
    <2>3. /\ Put(now, accounts, rest, slot) /\ (Saves(now, accounts) \/ NoSave)
          /\ emailIndex' = emailIndex /\ profile' = profile
      BY <1>14 DEF SignsIn
    <2>4. rest \in SUBSET TaskSet
      BY <1>1
    <2> HIDE DEF now, rest
    <2>5. QED
      BY <1>1, <2>2, <2>3, <2>4, PutTyped, SavesTyped
  <1>15. CASE SignInFails(t)
    <2> DEFINE rest == tasks \ {t}
    <2>1. /\ Put(entries, accounts, rest, slot) /\ NoSave
          /\ emailIndex' = emailIndex /\ profile' = profile
      BY <1>15 DEF SignInFails
    <2>2. rest \in SUBSET TaskSet
      BY <1>1
    <2> HIDE DEF rest
    <2>3. QED
      BY <1>1, <1>5, <2>1, <2>2, PutTyped
  <1>16. QED
    BY <1>3, <1>8, <1>9, <1>10, <1>11, <1>12, <1>13, <1>14, <1>15

-----------------------------------------------------------------------------
(* The start                                                               *)

\* No cookie of an entry has "//".
NoneSlashed(ents) == \A id \in Ids : ~ents[id].slashed

\* What a start makes of the file and the environment.
LEMMA StartIs ==
  ASSUME TypeOK, Start
  PROVE  /\ entries' \in [Ids -> Entry] /\ accounts' \in Seq(Ids)
         /\ Each(entries', accounts') /\ emailIndex' = IndexOf(entries', accounts')
         /\ tasks' \subseteq TaskSet /\ \A t \in tasks' : t.kind = "boot"
         /\ profile' \in [Emails -> Profiles]
         /\ \A e \in Known(entries', accounts') : profile'[e] # "gone"
         /\ boot' \in {"profiles", "done"}
         /\ masterKey' \in BOOLEAN /\ apiKey' \in ApiKeys
         /\ UNCHANGED <<file, watcher, debounce, slot>>
         /\ EnvEmails \subseteq Known(entries', accounts')
         /\ \A id \in Ids : entries'[id].inFlight = 0
         /\ (\A i \in 1..Len(file.recs) : ~file.recs[i].slashed) =>
              /\ NoneSlashed(entries')
              /\ \A i \in 1..Len(file.recs) :
                   file.recs[i].email \in Known(entries', accounts') \/ file.key # KeyInUse'
              /\ \A id \in Range(accounts'), i \in 1..Len(file.recs) :
                   entries'[id].email = file.recs[i].email /\ SoleRecord(file.recs, i) =>
                     /\ entries'[id].disabled = file.recs[i].disabled
                     /\ entries'[id].throttled = file.recs[i].throttled
  <1>1. /\ file.recs \in Seq(Record) /\ profile \in [Emails -> Profiles] /\ masterKey \in BOOLEAN
    BY TypesAre DEF Typed, FileSet
  <1>2. PICK key \in ApiKeys, stale \in SUBSET Emails :
          LET inUse == IF masterKey \/ key = "none" THEN "master" ELSE key
              recs == Loaded(file.recs)
              list == MergedEmails(recs, file.key = inUse)
              byId == [id \in Ids |-> IF id \in DOMAIN list
                                      THEN MergedEntry(recs, list[id], list[id] \in stale)
                                      ELSE Unused]
              order == [i \in DOMAIN list |-> i]
          IN /\ Len(list) <= MaxEntries
             /\ stale \subseteq {p.email : p \in {q \in Range(recs) : q.token}}
             /\ apiKey' = key
             /\ masterKey' = (masterKey \/ (recs # <<>> /\ key = "none"))
             /\ entries' = byId
             /\ accounts' = order
             /\ emailIndex' = IndexOf(byId, order)
             /\ tasks' = {LoadTask("boot", list[i], i, i) : i \in DOMAIN list}
             /\ profile' = [e \in Emails |-> IF e \in Range(list) THEN WithDir(e) ELSE profile[e]]
             /\ boot' = IF list = <<>> THEN "done" ELSE "profiles"
    BY DEF Start
  <1> DEFINE inUse == IF masterKey \/ key = "none" THEN "master" ELSE key
             recs == Loaded(file.recs)
             list == MergedEmails(recs, file.key = inUse)
             byId == [id \in Ids |-> IF id \in DOMAIN list
                                     THEN MergedEntry(recs, list[id], list[id] \in stale)
                                     ELSE Unused]
             order == [i \in DOMAIN list |-> i]
             n == Len(list)
  <1>3. /\ n <= MaxEntries
        /\ apiKey' = key
        /\ masterKey' = (masterKey \/ (recs # <<>> /\ key = "none"))
        /\ entries' = byId
        /\ accounts' = order
        /\ emailIndex' = IndexOf(byId, order)
        /\ tasks' = {LoadTask("boot", list[i], i, i) : i \in DOMAIN list}
        /\ profile' = [e \in Emails |-> IF e \in Range(list) THEN WithDir(e) ELSE profile[e]]
        /\ boot' = IF list = <<>> THEN "done" ELSE "profiles"
    BY <1>2
  <1>4. recs \in Seq(Record) /\ (recs = file.recs \/ \E p \in Range(file.recs) : p.slashed)
    BY <1>1, EmptySeq DEF Loaded
  <1>5. /\ list \in Seq(Emails) /\ Distinct(list)
        /\ Range(list) = EnvEmails \cup {e \in Emails : file.key = inUse
                                             /\ \E i \in 1..Len(recs) : recs[i].email = e}
    <2> HIDE DEF recs, inUse
    <2>1. QED
      BY <1>4, MergedIs
  <1> HIDE DEF list, recs, inUse
  <1>6. n \in Nat /\ DOMAIN list = 1..n /\ Range(list) = {list[i] : i \in 1..n} /\ \A i \in 1..n : list[i] \in Emails
    BY <1>5, RangeIs
  <1>7. 1..n \subseteq Ids
    BY <1>3, <1>6, RegistryAssumption DEF Ids
  <1>8. \A i \in 1..n : byId[i] = MergedEntry(recs, list[i], list[i] \in stale)
    BY <1>6, <1>7
  <1>9. \A i \in Ids : i \in 1..n \/ byId[i] = Unused
    BY <1>6
  <1>10. \A i \in 1..n : byId[i] \in Entry /\ byId[i].email = list[i] /\ byId[i].inFlight = 0
    <2> HIDE DEF byId, n
    <2> SUFFICES ASSUME NEW i \in 1..n
                 PROVE  byId[i] \in Entry /\ byId[i].email = list[i] /\ byId[i].inFlight = 0
      OBVIOUS
    <2> DEFINE late == list[i] \in stale
    <2>1. late \in BOOLEAN /\ byId[i] = MergedEntry(recs, list[i], late) /\ list[i] \in Emails
      BY <1>6, <1>8
    <2> HIDE DEF late
    <2>2. QED
      BY <1>4, <2>1, MergedEntryIs
  <1>11. Unused \in Entry /\ Unused.inFlight = 0 /\ ~Unused.slashed
    <2>1. (CHOOSE e \in Emails : TRUE) \in Emails
      BY RegistryAssumption
    <2>2. QED
      BY <2>1, NewEntryIs DEF Unused
  <1>12. byId \in [Ids -> Entry]
    <2>1. \A i \in Ids : byId[i] \in Entry
      BY <1>9, <1>10, <1>11
    <2>2. QED
      BY <2>1
  <1>13. order = [i \in 1..n |-> i] /\ order \in [1..n -> Ids] /\ order \in Seq(Ids)
    <2>1. order = [i \in 1..n |-> i]
      BY <1>6
    <2>2. order \in [1..n -> Ids]
      BY <1>7, <2>1
    <2> HIDE DEF order
    <2>3. QED
      BY <1>6, <2>1, <2>2, SeqDef
  <1>14. Len(order) = n /\ \A i \in 1..n : order[i] = i
    <2>1. DOMAIN order = 1..Len(order) /\ DOMAIN order = 1..n /\ Len(order) \in Nat
      BY <1>13, LenProperties
    <2>2. QED
      BY <1>6, <1>13, <2>1
  <1>15. Range(order) = 1..n
    <2>1. Range(order) = {order[i] : i \in 1..n}
      BY <1>13, <1>14, RangeIs
    <2> HIDE DEF order, n
    <2>2. QED
      BY <1>14, <2>1
  <1> HIDE DEF byId, order, n
  <1>16. Each(byId, order)
    <2>1. ASSUME NEW i \in 1..n, NEW j \in 1..n, byId[order[i]].email = byId[order[j]].email
          PROVE  i = j
      BY <1>5, <1>10, <1>14, <2>1 DEF Distinct, n
    <2>2. QED
      BY <1>14, <2>1 DEF Each
  <1>17. Known(byId, order) = Range(list)
    BY <1>6, <1>10, <1>15 DEF Known
  <1>18. tasks' \subseteq TaskSet /\ \A t \in tasks' : t.kind = "boot"
    <2>1. ASSUME NEW i \in 1..n
          PROVE  LoadTask("boot", list[i], i, i) \in TaskSet /\ LoadTask("boot", list[i], i, i).kind = "boot"
      BY <1>6, <1>7 DEF LoadTask, Task, TaskSet
    <2>2. QED
      BY <1>3, <1>6, <2>1
  <1>19. /\ profile' \in [Emails -> Profiles]
         /\ \A e \in Known(byId, order) : profile'[e] # "gone"
    <2>1. \A e \in Emails : WithDir(e) \in Profiles /\ WithDir(e) # "gone"
      BY <1>1 DEF WithDir, Profiles
    <2>2. Range(list) \subseteq Emails
      BY <1>6
    <2>3. QED
      BY <1>1, <1>3, <1>17, <2>1, <2>2
  <1>20. \A id \in Ids : byId[id].inFlight = 0
    BY <1>9, <1>10, <1>11
  <1>21. UNCHANGED <<file, watcher, debounce, slot>>
    BY DEF Start
  <1>22. ASSUME \A i \in 1..Len(file.recs) : ~file.recs[i].slashed
         PROVE  /\ NoneSlashed(byId)
                /\ \A i \in 1..Len(file.recs) :
                     file.recs[i].email \in Known(byId, order) \/ file.key # KeyInUse'
                /\ \A id \in Range(order), i \in 1..Len(file.recs) :
                     byId[id].email = file.recs[i].email /\ SoleRecord(file.recs, i) =>
                       /\ byId[id].disabled = file.recs[i].disabled
                       /\ byId[id].throttled = file.recs[i].throttled
    <2>1. recs = file.recs
      <3>1. Range(file.recs) = {file.recs[i] : i \in 1..Len(file.recs)}
        BY <1>1, RangeIs
      <3>2. QED
        BY <1>4, <1>22, <3>1
    <2>2. NoneSlashed(byId)
      <3>1. ASSUME NEW i \in 1..n PROVE ~byId[i].slashed
        <4> DEFINE late == list[i] \in stale
        <4>1. late \in BOOLEAN /\ byId[i] = MergedEntry(recs, list[i], late) /\ list[i] \in Emails
          BY <1>6, <1>8
        <4> HIDE DEF late
        <4>2. QED
          BY <1>4, <1>22, <2>1, <4>1, MergedEntryIs
      <3>2. QED
        BY <1>9, <1>11, <3>1 DEF NoneSlashed
    <2>3. KeyInUse' = inUse
      BY <1>1, <1>3 DEF KeyInUse, inUse
    <2>4. ASSUME NEW i \in 1..Len(file.recs), file.key = KeyInUse'
          PROVE  file.recs[i].email \in Known(byId, order)
      <3>1. file.recs[i] \in Record
        BY <1>1, ElementOfSeq
      <3>2. file.recs[i].email \in Emails
        BY <3>1 DEF Record
      <3>3. QED
        BY <1>5, <1>17, <2>1, <2>3, <2>4, <3>2
    <2>5. ASSUME NEW id \in 1..n, NEW i \in 1..Len(file.recs), byId[id].email = file.recs[i].email,
                 SoleRecord(file.recs, i)
          PROVE  byId[id].disabled = file.recs[i].disabled /\ byId[id].throttled = file.recs[i].throttled
      <3>1. file.recs[i].email = list[id] /\ list[id] \in Emails
        BY <1>6, <1>10, <2>5
      <3> DEFINE late == list[id] \in stale
      <3>2. late \in BOOLEAN /\ byId[id] = MergedEntry(recs, list[id], late)
        BY <1>8
      <3> HIDE DEF late
      <3>3. QED
        BY <1>4, <2>1, <2>5, <3>1, <3>2, MergedEntryIs
    <2>6. QED
      BY <1>15, <2>2, <2>4, <2>5
  <1>23. boot' \in {"profiles", "done"} /\ masterKey' \in BOOLEAN /\ apiKey' \in ApiKeys
    BY <1>1, <1>3
  <1>24. EnvEmails \subseteq Known(byId, order)
    BY <1>5, <1>17
  <1>25. entries' = byId /\ accounts' = order /\ emailIndex' = IndexOf(byId, order)
    BY <1>3
  <1>26. QED
    BY <1>12, <1>13, <1>16, <1>18, <1>19, <1>20, <1>21, <1>22, <1>23, <1>24, <1>25

-----------------------------------------------------------------------------
(* The types, of the other actions                                         *)

\* The number of a new entry is one that nothing refers to.
LEMMA FreeIs ==
  ASSUME TypeOK, FreeIds # {}
  PROVE  /\ Min(FreeIds) \in Ids /\ Min(FreeIds) \notin Range(accounts)
         /\ \A r \in Requests : slot[r] # Min(FreeIds)
         /\ \A t \in tasks : t.entry # Min(FreeIds) /\ t.acct # Min(FreeIds)
  <1>1. FreeIds \in SUBSET Nat
    BY IdsAre DEF FreeIds
  <1>2. Min(FreeIds) \in FreeIds
    BY <1>1, MinOf
  <1>3. \A r \in Requests : slot[r] \in Range(slot)
    BY DEF TypeOK, Range
  <1> DEFINE id == Min(FreeIds)
  <1>4. id \in FreeIds
    BY <1>2
  <1> HIDE DEF id
  <1>5. id \in Ids /\ id \notin Range(accounts) /\ id \notin Range(slot)
        /\ \A t \in tasks : t.entry # id /\ t.acct # id
    BY <1>4 DEF FreeIds, Referred
  <1>6. QED
    BY <1>3, <1>5 DEF id

LEMMA ReloadTypes ==
  ASSUME TypeOK, Reload
  PROVE  TypeOK'
  <1>1. Typed
    BY TypesAre
  <1>2. /\ debounce' = FALSE
        /\ UNCHANGED <<boot, file, keyVars, watcher>>
    BY DEF Reload
  <1> DEFINE Goal == /\ entries' \in [Ids -> Entry] /\ accounts' \in Seq(Ids)
                     /\ tasks' \subseteq TaskSet /\ slot' \in [Requests -> Ids \cup {0}]
                     /\ emailIndex' \in [Emails -> Ids \cup {0}]
                     /\ profile' \in [Emails -> Profiles]
  <1> SUFFICES Goal
    BY <1>1, <1>2, TypesNext DEF Typed, keyVars
  <1>3. CASE UNCHANGED <<entries, accounts, emailIndex, profile, tasks, slot>>
    BY <1>1, <1>3 DEF Typed
  <1>4. CASE Reloaded(entries, accounts, tasks) /\ UNCHANGED profile
    BY <1>1, <1>4, ReloadedTyped DEF Typed
  <1>5. CASE /\ FreeIds # {}
             /\ \E e \in Missing :
                   LET id == Min(FreeIds)
                       ents == [entries EXCEPT ![id] = NewEntry(e)]
                   IN /\ profile' = [profile EXCEPT ![e] = WithDir(e)]
                      /\ IF profile[e] \in {"gone", "none"}
                         THEN Reloaded(ents, Append(accounts, id), tasks)
                         ELSE /\ tasks' = tasks \cup {LoadTask("reload", e, id, 0)}
                              /\ entries' = ents
                              /\ UNCHANGED <<accounts, emailIndex, slot>>
    <2> DEFINE id == Min(FreeIds)
               Ents(e) == [entries EXCEPT ![id] = NewEntry(e)]
    <2>1. PICK e \in Missing :
            /\ profile' = [profile EXCEPT ![e] = WithDir(e)]
            /\ \/ Reloaded(Ents(e), Append(accounts, id), tasks)
               \/ /\ tasks' = tasks \cup {LoadTask("reload", e, id, 0)}
                  /\ entries' = Ents(e)
                  /\ UNCHANGED <<accounts, emailIndex, slot>>
      BY <1>5
    <2>2. e \in Emails
      BY RegistryAssumption DEF Missing
    <2>3. id \in Ids
      BY <1>5, FreeIs
    <2> HIDE DEF id
    <2> DEFINE ents == Ents(e)
    <2>4. ents \in [Ids -> Entry]
      BY <1>1, <2>2, <2>3, NewEntryIs, EntryFields DEF Typed
    <2>5. Append(accounts, id) \in Seq(Ids)
      BY <1>1, <2>3, AppendIs DEF Typed
    <2>6. profile' \in [Emails -> Profiles]
      BY <1>1, <2>1, <2>2 DEF Typed, WithDir, Profiles
    <2>7. LoadTask("reload", e, id, 0) \in TaskSet
      BY <2>2, <2>3 DEF LoadTask, Task, TaskSet
    <2> HIDE DEF ents
    <2>8. CASE Reloaded(ents, Append(accounts, id), tasks)
      <3> DEFINE list == Append(accounts, id)
      <3>1. list \in Seq(Ids)
        BY <2>5
      <3> HIDE DEF list
      <3>2. Reloaded(ents, list, tasks)
        BY <2>8 DEF list
      <3>3. tasks \in SUBSET TaskSet
        BY <1>1 DEF Typed
      <3>4. QED
        BY <2>4, <2>6, <3>1, <3>2, <3>3, ReloadedTyped
    <2>9. CASE /\ tasks' = tasks \cup {LoadTask("reload", e, id, 0)}
               /\ entries' = ents
               /\ UNCHANGED <<accounts, emailIndex, slot>>
      BY <1>1, <2>4, <2>6, <2>7, <2>9 DEF Typed
    <2>10. QED
      BY <2>1, <2>8, <2>9 DEF ents
  <1>6. QED
    BY <1>3, <1>4, <1>5 DEF Reload

\* What the removal and the registration of an account put in place.
LEMMA ChangedTypes ==
  ASSUME TypeOK, NEW ents \in [Ids -> Entry], NEW list \in Seq(Ids), NEW ts \in SUBSET TaskSet,
         Put(ents, list, ts, slot), emailIndex' = IndexOf(ents, list), Saves(ents, list),
         profile' \in [Emails -> Profiles], UNCHANGED <<boot, apiKey, watcher>>
  PROVE  TypeOK'
  <1>1. Typed
    BY TypesAre
  <1>2. slot \in [Requests -> Ids \cup {0}]
    BY <1>1 DEF Typed
  <1>3. /\ entries' \in [Ids -> Entry] /\ accounts' \in Seq(Ids)
        /\ tasks' \subseteq TaskSet /\ slot' \in [Requests -> Ids \cup {0}]
    BY <1>2, PutTyped
  <1>4. file' \in FileSet /\ masterKey' \in BOOLEAN /\ debounce' \in BOOLEAN
    BY SavesTyped
  <1>5. emailIndex' \in [Emails -> Ids \cup {0}]
    BY IndexIn
  <1>6. QED
    BY <1>1, <1>3, <1>4, <1>5, TypesNext DEF Typed

\* What AddAccount does.
LEMMA AddIs ==
  ASSUME TypeOK, NEW e \in Emails, AddAccount(e)
  PROVE  LET id == Min(FreeIds)
             ents == [entries EXCEPT ![id] = NewEntry(e)]
             list == Append(accounts, id)
             ts == tasks \cup {Task("add", e, id, 0, "open")}
         IN /\ id \in Ids /\ id \notin Range(accounts) /\ (\A r \in Requests : slot[r] # id)
            /\ ents \in [Ids -> Entry] /\ list \in Seq(Ids) /\ ts \in SUBSET TaskSet
            /\ Put(ents, list, ts, slot)
            /\ emailIndex' = IndexOf(ents, list)
            /\ Saves(ents, list)
            /\ profile' = [profile EXCEPT ![e] = WithDir(e)] /\ profile' \in [Emails -> Profiles]
            /\ boot # "down" /\ Found(entries, accounts, e) = 0
            /\ UNCHANGED <<boot, apiKey, watcher>>
  <1>1. Typed
    BY TypesAre
  <1> DEFINE id == Min(FreeIds)
             ents == [entries EXCEPT ![id] = NewEntry(e)]
             list == Append(accounts, id)
             ts == tasks \cup {Task("add", e, id, 0, "open")}
  <1>2. id \in Ids /\ id \notin Range(accounts) /\ \A r \in Requests : slot[r] # id
    BY FreeIs DEF AddAccount
  <1>3. /\ Put(ents, list, ts, slot)
        /\ emailIndex' = IndexOf(ents, list)
        /\ Saves(ents, list)
        /\ profile' = [profile EXCEPT ![e] = WithDir(e)]
        /\ boot # "down" /\ Found(entries, accounts, e) = 0
        /\ UNCHANGED <<boot, apiKey, watcher>>
    BY DEF AddAccount, NotRegistered
  <1>4. profile' \in [Emails -> Profiles]
    BY <1>1, <1>3 DEF Typed, WithDir, Profiles
  <1> HIDE DEF id
  <1>5. ents \in [Ids -> Entry]
    BY <1>1, <1>2, NewEntryIs, EntryFields DEF Typed
  <1>6. list \in Seq(Ids)
    BY <1>1, <1>2, AppendIs DEF Typed
  <1>7. ts \in SUBSET TaskSet
    <2>1. Task("add", e, id, 0, "open") \in TaskSet
      BY <1>2 DEF Task, TaskSet
    <2>2. QED
      BY <1>1, <2>1 DEF Typed
  <1>8. QED
    BY <1>2, <1>3, <1>4, <1>5, <1>6, <1>7 DEF id

LEMMA RemoveIs ==
  ASSUME TypeOK, NEW e \in Emails, RemoveAccount(e)
  PROVE  LET id == Found(entries, accounts, e)
             list == Only(accounts, Ids \ {id})
         IN /\ id \in Ids /\ id # 0
            /\ list \in Seq(Ids)
            /\ Put(entries, list, tasks, slot)
            /\ emailIndex' = IndexOf(entries, list)
            /\ Saves(entries, list)
            /\ \/ profile' = [profile EXCEPT ![e] = "gone"]
               \/ SurvivingProfiles /\ profile' = profile
            /\ profile' \in [Emails -> Profiles]
            /\ boot # "down"
            /\ UNCHANGED <<boot, apiKey, watcher>>
  <1>1. Typed
    BY TypesAre
  <1> DEFINE id == Found(entries, accounts, e)
             list == Only(accounts, Ids \ {id})
  <1>2. /\ id # 0
        /\ Put(entries, list, tasks, slot)
        /\ emailIndex' = IndexOf(entries, list)
        /\ Saves(entries, list)
        /\ \/ profile' = [profile EXCEPT ![e] = "gone"]
           \/ SurvivingProfiles /\ profile' = profile
        /\ boot # "down"
        /\ UNCHANGED <<boot, apiKey, watcher>>
    BY DEF RemoveAccount
  <1>3. id \in Ids
    BY <1>1, <1>2, FoundIn DEF Typed
  <1>4. list \in Seq(Ids)
    <2> HIDE DEF id
    <2>1. QED
      BY <1>1, OnlyAre DEF Typed
  <1>5. profile' \in [Emails -> Profiles]
    BY <1>1, <1>2 DEF Typed, Profiles
  <1>6. QED
    BY <1>2, <1>3, <1>4, <1>5

\* The entry an index leads to.
LEMMA ByEmailIn ==
  ASSUME TypeOK, NEW e \in Emails
  PROVE  ByEmail(e) \in Ids \cup {0}
  BY DEF ByEmail, TypeOK

LEMMA SlotEmail ==
  ASSUME TypeOK, NEW r \in Requests, slot[r] # 0
  PROVE  slot[r] \in Ids /\ entries[slot[r]].email \in Emails
  <1>1. entries \in [Ids -> Entry] /\ slot[r] \in Ids
    BY TypesAre DEF Typed
  <1>2. QED
    BY <1>1 DEF Entry

LEMMA OperatorTypes ==
  ASSUME TypeOK, NEW e \in Emails,
         \/ AddAccount(e) \/ RemoveAccount(e) \/ LoginAccount(e)
         \/ \E value \in BOOLEAN : SetAccountDisabled(e, value)
         \/ DeleteProfile(e) \/ TokenExpires(e)
  PROVE  TypeOK'
  <1>1. Typed
    BY TypesAre
  <1>2. CASE AddAccount(e)
    <2> DEFINE id == Min(FreeIds)
               ents == [entries EXCEPT ![id] = NewEntry(e)]
               list == Append(accounts, id)
               ts == tasks \cup {Task("add", e, id, 0, "open")}
    <2>1. /\ ents \in [Ids -> Entry] /\ list \in Seq(Ids) /\ ts \in SUBSET TaskSet
          /\ Put(ents, list, ts, slot)
          /\ emailIndex' = IndexOf(ents, list)
          /\ Saves(ents, list)
          /\ profile' \in [Emails -> Profiles]
          /\ UNCHANGED <<boot, apiKey, watcher>>
      BY <1>2, AddIs
    <2> HIDE DEF ents, list, ts
    <2>2. QED
      BY <2>1, ChangedTypes
  <1>3. CASE RemoveAccount(e)
    <2> DEFINE list == Only(accounts, Ids \ {Found(entries, accounts, e)})
    <2>1. /\ list \in Seq(Ids) /\ Put(entries, list, tasks, slot)
          /\ emailIndex' = IndexOf(entries, list)
          /\ Saves(entries, list)
          /\ profile' \in [Emails -> Profiles]
          /\ UNCHANGED <<boot, apiKey, watcher>>
      BY <1>3, RemoveIs
    <2> HIDE DEF list
    <2>2. entries \in [Ids -> Entry] /\ tasks \in SUBSET TaskSet
      BY <1>1 DEF Typed
    <2>3. QED
      BY <2>1, <2>2, ChangedTypes
  <1>4. CASE LoginAccount(e)
    <2> DEFINE task == Task("login", e, ByEmail(e), 0, "open")
    <2>1. task \in TaskSet
      BY <1>4, ByEmailIn DEF LoginAccount, Task, TaskSet
    <2>2. /\ tasks' = tasks \cup {task}
          /\ profile' = [profile EXCEPT ![e] = WithDir(e)]
          /\ UNCHANGED <<boot, entries, accounts, emailIndex, file, keyVars, watcher, debounce, slot>>
      BY <1>4 DEF LoginAccount
    <2> HIDE DEF task
    <2>3. profile' \in [Emails -> Profiles]
      BY <1>1, <2>2 DEF Typed, WithDir, Profiles
    <2>4. QED
      BY <1>1, <2>1, <2>2, <2>3, TypesNext DEF Typed, keyVars
  <1>5. ASSUME NEW value \in BOOLEAN, SetAccountDisabled(e, value) PROVE TypeOK'
    <2> DEFINE id == ByEmail(e)
               ents == [entries EXCEPT ![id].disabled = value]
    <2>1. id \in Ids
      BY <1>5, ByEmailIn DEF SetAccountDisabled
    <2>2. /\ entries' = ents /\ Saves(ents, accounts)
          /\ UNCHANGED <<boot, accounts, emailIndex, apiKey, profile, tasks, watcher, slot>>
      BY <1>5 DEF SetAccountDisabled
    <2> HIDE DEF id
    <2>3. ents \in [Ids -> Entry]
      BY <1>1, <2>1, EntryFields DEF Typed
    <2> HIDE DEF ents
    <2>4. file' \in FileSet /\ masterKey' \in BOOLEAN /\ debounce' \in BOOLEAN
      BY <1>1, <2>2, <2>3, SavesTyped DEF Typed
    <2>5. QED
      BY <1>1, <2>2, <2>3, <2>4, TypesNext DEF Typed
  <1>6. CASE DeleteProfile(e) \/ TokenExpires(e)
    <2>1. /\ profile' \in [Emails -> Profiles]
          /\ UNCHANGED <<boot, entries, accounts, emailIndex, file, keyVars, tasks, watcher, debounce, slot>>
      BY <1>1, <1>6 DEF DeleteProfile, TokenExpires, Typed, Profiles
    <2>2. QED
      BY <1>1, <2>1, TypesNext DEF Typed, keyVars
  <1>7. QED
    BY <1>2, <1>3, <1>4, <1>5, <1>6

LEMMA RequestTypes ==
  ASSUME TypeOK, NEW r \in Requests, PickAccount(r) \/ EndRequest(r) \/ ThrottleAccount(r)
  PROVE  TypeOK'
  <1>1. Typed
    BY TypesAre
  <1>2. CASE PickAccount(r)
    <2>1. PICK id \in Range(accounts) :
            /\ entries' = [entries EXCEPT ![id].inFlight = @ + 1]
            /\ slot' = [slot EXCEPT ![r] = id]
      BY <1>2 DEF PickAccount
    <2>2. id \in Ids
      BY <1>1, RangeIs DEF Typed
    <2>3. entries[id].inFlight + 1 \in Nat
      BY <1>1, <2>2 DEF Typed, Entry
    <2>4. entries' \in [Ids -> Entry]
      BY <1>1, <2>1, <2>2, <2>3, EntryFields DEF Typed
    <2>5. slot' \in [Requests -> Ids \cup {0}]
      BY <1>1, <2>1, <2>2 DEF Typed
    <2>6. UNCHANGED <<boot, accounts, emailIndex, file, keyVars, profile, tasks, watcher, debounce>>
      BY <1>2 DEF PickAccount
    <2>7. QED
      BY <1>1, <2>4, <2>5, <2>6, TypesNext DEF Typed, keyVars
  <1>3. CASE EndRequest(r)
    <2> DEFINE e == entries[slot[r]].email
               ents == DecrementInFlight(e)
               sl == [slot EXCEPT ![r] = 0]
    <2>1. e \in Emails
      BY <1>3, SlotEmail DEF EndRequest
    <2>2. /\ Put(ents, accounts, tasks, sl)
          /\ UNCHANGED <<boot, emailIndex, file, keyVars, profile, watcher, debounce>>
      BY <1>3 DEF EndRequest
    <2> HIDE DEF e
    <2>3. ents \in [Ids -> Entry]
      <3>1. ByEmail(e) \in Ids \cup {0}
        BY <2>1, ByEmailIn
      <3> DEFINE id == ByEmail(e)
      <3>2. ASSUME id # 0, entries[id].inFlight > 0
            PROVE  [entries EXCEPT ![id].inFlight = @ - 1] \in [Ids -> Entry]
        <4>1. id \in Ids
          BY <3>1, <3>2
        <4> HIDE DEF id
        <4>2. entries[id].inFlight - 1 \in Nat
          BY <1>1, <3>2, <4>1 DEF Typed, Entry
        <4>3. QED
          BY <1>1, <4>1, <4>2, EntryFields DEF Typed
      <3>3. QED
        BY <1>1, <3>2 DEF DecrementInFlight, Typed
    <2>4. sl \in [Requests -> Ids \cup {0}]
      BY <1>1 DEF Typed
    <2>5. accounts \in Seq(Ids) /\ tasks \in SUBSET TaskSet
      BY <1>1 DEF Typed
    <2> HIDE DEF ents, sl
    <2>6. /\ entries' \in [Ids -> Entry] /\ accounts' \in Seq(Ids)
          /\ tasks' \subseteq TaskSet /\ slot' \in [Requests -> Ids \cup {0}]
      BY <2>2, <2>3, <2>4, <2>5, PutTyped
    <2>7. QED
      BY <1>1, <2>2, <2>6, TypesNext DEF Typed, keyVars
  <1>4. CASE ThrottleAccount(r)
    <2> DEFINE e == entries[slot[r]].email
               id == ByEmail(e)
               ents == [entries EXCEPT ![id].throttled = Throttled(@)]
    <2>1. e \in Emails
      BY <1>4, SlotEmail DEF ThrottleAccount
    <2>2. /\ id # 0 /\ entries' = ents /\ Saves(ents, accounts)
          /\ UNCHANGED <<boot, accounts, emailIndex, apiKey, profile, tasks, watcher, slot>>
      BY <1>4 DEF ThrottleAccount
    <2>3. id \in Ids
      BY <2>1, <2>2, ByEmailIn
    <2>4. MaxCooldown \in 0..MaxCooldown
      BY RegistryAssumption
    <2> HIDE DEF id, e
    <2>5. ents \in [Ids -> Entry]
      <3>1. ents = [entries EXCEPT ![id].throttled = MaxCooldown]
        BY DEF Throttled
      <3>2. QED
        BY <1>1, <2>3, <2>4, <3>1, EntryFields DEF Typed
    <2> HIDE DEF ents
    <2>6. file' \in FileSet /\ masterKey' \in BOOLEAN /\ debounce' \in BOOLEAN
      BY <1>1, <2>2, <2>5, SavesTyped DEF Typed
    <2>7. QED
      BY <1>1, <2>2, <2>5, <2>6, TypesNext DEF Typed
  <1>5. QED
    BY <1>2, <1>3, <1>4

\* Time only lowers cooldowns, in the entries and in the file alike.
LEMMA TickIs ==
  ASSUME TypeOK, Tick
  PROVE  /\ entries' \in [Ids -> Entry] /\ file' \in FileSet
         /\ file'.key = file.key /\ Len(file'.recs) = Len(file.recs)
         /\ \A id \in Ids : /\ entries'[id].email = entries[id].email
                            /\ entries'[id].inFlight = entries[id].inFlight
                            /\ entries'[id].disabled = entries[id].disabled
                            /\ entries'[id].slashed = entries[id].slashed
                            /\ entries'[id].throttled = Less(entries[id].throttled)
         /\ \A i \in 1..Len(file.recs) :
              /\ file'.recs[i].email = file.recs[i].email
              /\ file'.recs[i].disabled = file.recs[i].disabled
              /\ file'.recs[i].slashed = file.recs[i].slashed
              /\ file'.recs[i].throttled = Less(file.recs[i].throttled)
  <1>1. Typed
    BY TypesAre
  <1>2. \A n \in 0..MaxCooldown : Less(n) \in 0..MaxCooldown
    BY RegistryAssumption DEF Less
  <1> DEFINE Cooler(id) == [entries[id] EXCEPT !.throttled = Less(@)]
             Aged(i) == [file.recs[i] EXCEPT !.throttled = Less(@)]
             n == Len(file.recs)
             recs == [i \in 1..n |-> Aged(i)]
  <1>3. \A id \in Ids : /\ Cooler(id) \in Entry
                        /\ Cooler(id).email = entries[id].email
                        /\ Cooler(id).inFlight = entries[id].inFlight
                        /\ Cooler(id).disabled = entries[id].disabled
                        /\ Cooler(id).slashed = entries[id].slashed
                        /\ Cooler(id).throttled = Less(entries[id].throttled)
    <2> SUFFICES ASSUME NEW id \in Ids
                 PROVE  /\ Cooler(id) \in Entry
                        /\ Cooler(id).email = entries[id].email
                        /\ Cooler(id).inFlight = entries[id].inFlight
                        /\ Cooler(id).disabled = entries[id].disabled
                        /\ Cooler(id).slashed = entries[id].slashed
                        /\ Cooler(id).throttled = Less(entries[id].throttled)
      OBVIOUS
    <2>1. entries[id] \in Entry
      BY <1>1 DEF Typed
    <2>2. Less(entries[id].throttled) \in 0..MaxCooldown
      BY <1>2, <2>1 DEF Entry
    <2>3. QED
      BY <2>1, <2>2 DEF Entry
  <1>4. entries' = [id \in Ids |-> Cooler(id)] /\ file' = [file EXCEPT !.recs = [i \in DOMAIN file.recs |-> Aged(i)]]
    BY DEF Tick
  <1>5. file.recs \in Seq(Record) /\ DOMAIN file.recs = 1..n /\ n \in Nat
    BY <1>1, RangeIs DEF Typed, FileSet
  <1>6. file' = [file EXCEPT !.recs = recs]
    BY <1>4, <1>5
  <1>7. \A i \in 1..n : /\ Aged(i) \in Record
                        /\ Aged(i).email = file.recs[i].email
                        /\ Aged(i).disabled = file.recs[i].disabled
                        /\ Aged(i).slashed = file.recs[i].slashed
                        /\ Aged(i).throttled = Less(file.recs[i].throttled)
    <2> SUFFICES ASSUME NEW i \in 1..n
                 PROVE  /\ Aged(i) \in Record
                        /\ Aged(i).email = file.recs[i].email
                        /\ Aged(i).disabled = file.recs[i].disabled
                        /\ Aged(i).slashed = file.recs[i].slashed
                        /\ Aged(i).throttled = Less(file.recs[i].throttled)
      OBVIOUS
    <2>1. file.recs[i] \in Record
      BY <1>5, ElementOfSeq
    <2>2. Less(file.recs[i].throttled) \in 0..MaxCooldown
      BY <1>2, <2>1 DEF Record
    <2>3. QED
      BY <2>1, <2>2 DEF Record
  <1> HIDE DEF Cooler, Aged, n
  <1>8. recs \in [1..n -> Record] /\ \A i \in 1..n : recs[i] = Aged(i)
    BY <1>7
  <1> HIDE DEF recs
  <1>9. recs \in Seq(Record)
    BY <1>5, <1>8, SeqDef
  <1>10. Len(recs) = n
    <2>1. DOMAIN recs = 1..n /\ DOMAIN recs = 1..Len(recs) /\ Len(recs) \in Nat
      BY <1>8, <1>9, LenProperties
    <2>2. QED
      BY <1>5, <2>1
  <1>11. file' \in FileSet /\ file'.key = file.key /\ file'.recs = recs
    BY <1>1, <1>6, <1>9 DEF Typed, FileSet
  <1>12. \A id \in Ids : entries'[id] = Cooler(id)
    BY <1>4
  <1>13. entries' \in [Ids -> Entry]
    BY <1>3, <1>4
  <1>14. QED
    BY <1>3, <1>7, <1>8, <1>10, <1>11, <1>12, <1>13 DEF n

LEMMA UnusedIs == Unused \in Entry /\ Unused.inFlight = 0 /\ ~Unused.slashed
  <1>1. (CHOOSE e \in Emails : TRUE) \in Emails
    BY RegistryAssumption
  <1>2. QED
    BY <1>1, NewEntryIs DEF Unused

\* A process that ends leaves the file, cut or not, and the profiles.
LEMMA CrashIs ==
  ASSUME TypeOK, Crash
  PROVE  /\ boot # "down" /\ boot' = "down"
         /\ entries' = [id \in Ids |-> Unused] /\ accounts' = <<>>
         /\ emailIndex' = [e \in Emails |-> 0]
         /\ file' = file \/ file' = [file EXCEPT !.recs = <<>>]
         /\ file' \in FileSet
         /\ tasks' = {} /\ watcher' = "off" /\ debounce' = FALSE
         /\ slot' = [r \in Requests |-> 0] /\ apiKey' = "none"
         /\ UNCHANGED <<masterKey, profile>>
  <1>1. file \in FileSet
    BY TypesAre DEF Typed
  <1>2. [file EXCEPT !.recs = <<>>] \in FileSet
    BY <1>1, EmptySeq DEF FileSet
  <1>3. QED
    BY <1>1, <1>2 DEF Crash

\* The registry starts, and stays, within its types.
LEMMA InitTypes == Init => TypeOK
  <1> SUFFICES ASSUME Init PROVE Typed
    BY TypesAre
  <1>1. <<>> \in Seq(Ids) /\ <<>> \in Seq(Record)
    BY EmptySeq
  <1>2. [key |-> "master", recs |-> <<>>] \in FileSet
    BY <1>1 DEF FileSet
  <1>3. QED
    BY <1>1, <1>2, UnusedIs DEF Init, Typed, Profiles

LEMMA StepTypes == TypeOK /\ [Next]_vars => TypeOK'
  <1> SUFFICES ASSUME TypeOK, [Next]_vars PROVE TypeOK'
    OBVIOUS
  <1>1. Typed
    BY TypesAre
  <1>2. CASE Start
    <2>1. boot' \in {"down", "profiles", "logins", "done"} /\ apiKey' \in ApiKeys \cup {"none"}
      BY <1>2, StartIs
    <2>2. emailIndex' \in [Emails -> Ids \cup {0}]
      <3> DEFINE ents == entries'
                 list == accounts'
      <3>1. list \in Seq(Ids) /\ emailIndex' = IndexOf(ents, list)
        BY <1>2, StartIs
      <3> HIDE DEF ents, list
      <3>2. QED
        BY <3>1, IndexIn
    <2>3. QED
      BY <1>1, <1>2, <2>1, <2>2, StartIs, TypesNext DEF Typed
  <1>3. CASE BootLogins
    <2> DEFINE new == {Task("boot", entries[id].email, id, 0, "signin") :
                         id \in {i \in Range(accounts) : ~entries[i].token}}
    <2>1. \A id \in Range(accounts) : Task("boot", entries[id].email, id, 0, "signin") \in TaskSet
      <3>1. \A id \in Range(accounts) : id \in Ids /\ entries[id].email \in Emails
        BY <1>1, RangeIs DEF Typed, Entry
      <3>2. QED
        BY <3>1 DEF Task, TaskSet
    <2>2. new \subseteq TaskSet
      BY <2>1
    <2>3. tasks' = tasks \cup new /\ boot' = "logins"
          /\ UNCHANGED <<entries, accounts, emailIndex, file, keyVars, profile, watcher, debounce, slot>>
      BY <1>3 DEF BootLogins
    <2> HIDE DEF new
    <2>4. QED
      BY <1>1, <2>2, <2>3, TypesNext DEF Typed, keyVars
  <1>4. CASE BootDone
    BY <1>1, <1>4, TypesNext DEF BootDone, Typed, keyVars
  <1>5. CASE WatcherReady
    BY <1>1, <1>5, TypesNext DEF WatcherReady, Typed, keyVars
  <1>6. CASE WatcherFails
    BY <1>1, <1>6, TypesNext DEF WatcherFails, Typed, keyVars
  <1>7. CASE WatcherRetries
    BY <1>1, <1>7, TypesNext DEF WatcherRetries, Typed, keyVars
  <1>8. CASE Tick
    <2>1. UNCHANGED <<boot, accounts, emailIndex, keyVars, profile, tasks, watcher, debounce, slot>>
      BY <1>8 DEF Tick
    <2>2. entries' \in [Ids -> Entry] /\ file' \in FileSet
      BY <1>8, TickIs
    <2>3. QED
      BY <1>1, <2>1, <2>2, TypesNext DEF Typed, keyVars
  <1>9. CASE Crash
    <2>1. /\ entries' \in [Ids -> Entry] /\ accounts' \in Seq(Ids)
          /\ emailIndex' \in [Emails -> Ids \cup {0}] /\ slot' \in [Requests -> Ids \cup {0}]
          /\ file' \in FileSet /\ apiKey' = "none" /\ boot' = "down" /\ tasks' = {}
          /\ watcher' = "off" /\ debounce' = FALSE /\ UNCHANGED <<masterKey, profile>>
      BY <1>9, CrashIs, UnusedIs, EmptySeq
    <2>2. QED
      BY <1>1, <2>1, TypesNext DEF Typed
  <1>10. CASE UNCHANGED vars
    BY <1>1, <1>10, TypesNext DEF vars, Typed
  <1>11. QED
    BY <1>2, <1>3, <1>4, <1>5, <1>6, <1>7, <1>8, <1>9, <1>10,
       TaskStepTypes, ReloadTypes, OperatorTypes, RequestTypes DEF Next, Operator

\* The state of the registry keeps to its types, whatever the operator, the file
\* watcher, the browsers and the clock do: no operation leaves an entry without a
\* number or a task without an account.
THEOREM RegistryTypes == Spec => []TypeOK
  BY InitTypes, StepTypes, PTL DEF Spec

-----------------------------------------------------------------------------
(* Lists that may name an account twice                                    *)

\* id is the last entry of an email in a list, or the first one.
LastOf(ents, list, e, id) ==
    \E k \in 1..Len(list) :
        /\ list[k] = id /\ ents[id].email = e
        /\ \A j \in 1..Len(list) : j > k => ents[list[j]].email # e
FirstOf(ents, list, e, id) ==
    \E k \in 1..Len(list) :
        /\ list[k] = id /\ ents[id].email = e
        /\ \A j \in 1..Len(list) : j < k => ents[list[j]].email # e

\* The index leads to the last entry of an email, and to none if there is none.
LEMMA IndexLast ==
  ASSUME NEW ents, NEW list \in Seq(Ids), NEW e \in Emails
  PROVE  /\ IndexOf(ents, list)[e] = 0 <=> e \notin Known(ents, list)
         /\ IndexOf(ents, list)[e] # 0 => LastOf(ents, list, e, IndexOf(ents, list)[e])
         /\ \A id : LastOf(ents, list, e, id) => IndexOf(ents, list)[e] = id
  <1> DEFINE n == Len(list)
             at == {i \in DOMAIN list : ents[list[i]].email = e}
             m == Max(at)
  <1>1. /\ n \in Nat /\ DOMAIN list = 1..n /\ Range(list) = {list[i] : i \in 1..n}
        /\ \A i \in 1..n : list[i] \in Ids
    BY RangeIs
  <1>2. at # {} <=> e \in Known(ents, list)
    BY <1>1 DEF Known
  <1>3. IndexOf(ents, list)[e] = IF at = {} THEN 0 ELSE list[m]
    BY DEF IndexOf
  <1>4. at \in SUBSET (1..n)
    BY <1>1
  <1>5. at # {} => m \in at /\ \A j \in at : j <= m
    <2> HIDE DEF at
    <2>1. QED
      BY <1>1, <1>4, MaxOf
  <1>6. \A i : i \in at <=> i \in 1..n /\ ents[list[i]].email = e
    BY <1>1
  <1> HIDE DEF at, m
  <1>7. at # {} => list[m] # 0 /\ LastOf(ents, list, e, list[m])
    BY <1>1, <1>5, <1>6, IdsAre DEF LastOf, n
  <1>8. ASSUME NEW id, LastOf(ents, list, e, id) PROVE at # {} /\ list[m] = id
    <2>1. PICK k \in 1..n : list[k] = id /\ ents[id].email = e
                            /\ \A j \in 1..n : j > k => ents[list[j]].email # e
      BY <1>8 DEF LastOf, n
    <2>2. k \in at
      BY <1>6, <2>1
    <2>3. m \in 1..n /\ m <= k /\ k <= m
      BY <1>1, <1>5, <1>6, <2>1, <2>2
    <2>4. QED
      BY <2>1, <2>2, <2>3
  <1>9. QED
    BY <1>2, <1>3, <1>7, <1>8

\* A look-up finds the first.
LEMMA FoundFirst ==
  ASSUME NEW ents, NEW list \in Seq(Ids), NEW e
  PROVE  /\ Found(ents, list, e) = 0 <=> e \notin Known(ents, list)
         /\ Found(ents, list, e) # 0 => FirstOf(ents, list, e, Found(ents, list, e))
  <1> DEFINE n == Len(list)
             at == {i \in DOMAIN list : ents[list[i]].email = e}
             m == Min(at)
  <1>1. /\ n \in Nat /\ DOMAIN list = 1..n /\ Range(list) = {list[i] : i \in 1..n}
        /\ \A i \in 1..n : list[i] \in Ids
    BY RangeIs
  <1>2. at # {} <=> e \in Known(ents, list)
    BY <1>1 DEF Known
  <1>3. Found(ents, list, e) = IF at = {} THEN 0 ELSE list[m]
    BY DEF Found
  <1>4. at \in SUBSET Nat
    BY <1>1
  <1>5. at # {} => m \in at /\ \A j \in at : m <= j
    <2> HIDE DEF at
    <2>1. QED
      BY <1>1, <1>4, MinOf
  <1>6. \A i : i \in at <=> i \in 1..n /\ ents[list[i]].email = e
    BY <1>1
  <1> HIDE DEF at, m
  <1>7. at # {} => list[m] # 0 /\ FirstOf(ents, list, e, list[m])
    BY <1>1, <1>5, <1>6, IdsAre DEF FirstOf, n
  <1>8. QED
    BY <1>2, <1>3, <1>7

\* An entry that is both is the only one.
LEMMA FirstLast ==
  ASSUME NEW ents, NEW list \in Seq(Ids), Distinct(list), NEW e, NEW id,
         FirstOf(ents, list, e, id), LastOf(ents, list, e, id)
  PROVE  \A x \in Range(list) : ents[x].email = e => x = id
  <1> DEFINE n == Len(list)
  <1>1. n \in Nat /\ Range(list) = {list[i] : i \in 1..n}
    BY RangeIs
  <1>2. PICK k \in 1..n : list[k] = id /\ \A j \in 1..n : j < k => ents[list[j]].email # e
    BY DEF FirstOf
  <1>3. PICK l \in 1..n : list[l] = id /\ \A j \in 1..n : j > l => ents[list[j]].email # e
    BY DEF LastOf
  <1>4. k = l
    BY <1>2, <1>3 DEF Distinct
  <1>5. ASSUME NEW i \in 1..n, ents[list[i]].email = e PROVE list[i] = id
    BY <1>1, <1>2, <1>3, <1>4, <1>5
  <1>6. QED
    BY <1>1, <1>5

\* An entry that is added is the last one of its email.
LEMMA AppendLast ==
  ASSUME NEW ents, NEW S, NEW list \in Seq(S), NEW x \in S, NEW e
  PROVE  /\ ents[x].email = e => LastOf(ents, Append(list, x), e, x)
         /\ ents[x].email # e =>
              \A id : LastOf(ents, list, e, id) => LastOf(ents, Append(list, x), e, id)
  <1> DEFINE n == Len(list)
             new == Append(list, x)
  <1>1. n \in Nat /\ Len(new) = n + 1 /\ new[n + 1] = x /\ \A i \in 1..n : new[i] = list[i]
    BY RangeIs, AppendIs
  <1> HIDE DEF new
  <1>2. ents[x].email = e => LastOf(ents, new, e, x)
    BY <1>1 DEF LastOf
  <1>3. ASSUME ents[x].email # e, NEW id, LastOf(ents, list, e, id) PROVE LastOf(ents, new, e, id)
    <2>1. PICK k \in 1..n : list[k] = id /\ ents[id].email = e
                            /\ \A j \in 1..n : j > k => ents[list[j]].email # e
      BY <1>3 DEF LastOf
    <2>2. \A j \in 1..n + 1 : j \in 1..n \/ j = n + 1
      BY <1>1
    <2>3. \A j \in 1..n + 1 : j > k => ents[new[j]].email # e
      BY <1>1, <1>3, <2>1, <2>2
    <2>4. k \in 1..n + 1 /\ new[k] = id
      BY <1>1, <2>1
    <2>5. QED
      BY <1>1, <2>1, <2>3, <2>4 DEF LastOf
  <1>4. QED
    BY <1>2, <1>3 DEF new

\* The last entry of an email that stays in a part of the list is the last one there.
LEMMA OnlyLast ==
  ASSUME NEW ents, NEW list \in Seq(Ids), NEW ids, NEW e, NEW id \in ids,
         LastOf(ents, list, e, id)
  PROVE  LastOf(ents, Only(list, ids), e, id)
  <1> DEFINE n == Len(list)
  <1>1. n \in Nat /\ \A i \in 1..n : list[i] \in Ids
    BY RangeIs
  <1>2. PICK kept : Keeps(list, ids, kept) /\ Only(list, ids) = kept[n]
    BY OnlyIs
  <1>3. PICK k \in 1..n : list[k] = id /\ ents[id].email = e
                          /\ \A j \in 1..n : j > k => ents[list[j]].email # e
    BY DEF LastOf
  <1>4. /\ kept[0] = <<>>
        /\ \A i \in 1..n : kept[i] = IF list[i] \in ids THEN Append(kept[i - 1], list[i])
                                     ELSE kept[i - 1]
    BY <1>2 DEF Keeps
  <1> HIDE DEF n
  <1> DEFINE Good == {i \in 0..n : /\ kept[i] \in Seq(Ids)
                                   /\ i >= k => LastOf(ents, kept[i], e, id)}
  <1>5. 0 \in Good
    <2>1. kept[0] \in Seq(Ids)
      BY <1>4, EmptySeq
    <2>2. QED
      BY <1>1, <1>3, <2>1
  <1>6. ASSUME NEW i \in 0..n - 1, i \in Good PROVE i + 1 \in Good
    <2>1. i + 1 \in 1..n /\ i + 1 \in 0..n /\ (i + 1) - 1 = i
      BY <1>1
    <2> DEFINE x == list[i + 1]
               s == kept[i]
               next == kept[i + 1]
    <2>2. next = IF x \in ids THEN Append(s, x) ELSE s
      BY <1>4, <2>1
    <2>3. x \in Ids /\ s \in Seq(Ids) /\ (i >= k => LastOf(ents, s, e, id))
      BY <1>1, <1>6, <2>1
    <2>4. i + 1 > k => ents[x].email # e
      BY <1>3, <2>1
    <2>5. i + 1 = k => x = id /\ ents[x].email = e
      BY <1>3
    <2>6. i + 1 >= k => i + 1 = k \/ (i >= k /\ i + 1 > k)
      BY <1>1, <1>3
    <2> HIDE DEF x, s, next
    <2>7. next \in Seq(Ids)
      BY <2>2, <2>3, AppendIs
    <2>8. i + 1 = k => LastOf(ents, next, e, id)
      BY <2>2, <2>3, <2>5, AppendLast
    <2>9. i >= k /\ i + 1 > k => LastOf(ents, next, e, id)
      BY <2>2, <2>3, <2>4, AppendLast
    <2>10. QED
      BY <2>1, <2>6, <2>7, <2>8, <2>9 DEF next
  <1>7. n \in Good
    <2> HIDE DEF Good
    <2>1. 0..n \subseteq Good
      BY <1>1, <1>5, <1>6, InductionUpTo
    <2>2. QED
      BY <1>1, <2>1
  <1>8. QED
    BY <1>1, <1>2, <1>3, <1>7

\* Only the emails of the list matter for the index.
LEMMA SameIndex ==
  ASSUME NEW one, NEW two, NEW list \in Seq(Ids),
         \A id \in Range(list) : two[id].email = one[id].email
  PROVE  /\ IndexOf(two, list) = IndexOf(one, list)
         /\ Known(two, list) = Known(one, list)
  <1>1. DOMAIN list = 1..Len(list) /\ \A i \in DOMAIN list : list[i] \in Range(list)
    BY RangeIs
  <1>2. \A e : {i \in DOMAIN list : two[list[i]].email = e} = {i \in DOMAIN list : one[list[i]].email = e}
    BY <1>1
  <1>3. \A e \in Emails :
          LET at == {i \in DOMAIN list : two[list[i]].email = e}
              was == {i \in DOMAIN list : one[list[i]].email = e}
          IN (IF at = {} THEN 0 ELSE list[Max(at)]) = (IF was = {} THEN 0 ELSE list[Max(was)])
    BY <1>2
  <1>4. IndexOf(two, list) = IndexOf(one, list)
    BY <1>3 DEF IndexOf
  <1>5. Known(two, list) = Known(one, list)
    BY DEF Known
  <1>6. QED
    BY <1>4, <1>5

\* The positions of an email.  A list whose entries of it are all in another list has
\* no more of them.
CopiesOf(ents, list, e) == {i \in DOMAIN list : ents[list[i]].email = e}

LEMMA NoMoreCopies ==
  ASSUME NEW one, NEW was \in Seq(Ids), NEW two, NEW list \in Seq(Ids), Distinct(list), NEW e,
         \A x \in Range(list) : two[x].email = e => x \in Range(was) /\ one[x].email = e
  PROVE  /\ Cardinality(CopiesOf(two, list, e)) \in Nat /\ Cardinality(CopiesOf(one, was, e)) \in Nat
         /\ Cardinality(CopiesOf(two, list, e)) <= Cardinality(CopiesOf(one, was, e))
  <1> DEFINE S == {i \in DOMAIN list : two[list[i]].email = e}
             T == {i \in DOMAIN was : one[was[i]].email = e}
             f == [i \in S |-> CHOOSE j \in T : was[j] = list[i]]
  <1>1. /\ DOMAIN was = 1..Len(was) /\ Len(was) \in Nat
        /\ Range(was) = {was[j] : j \in 1..Len(was)}
        /\ DOMAIN list = 1..Len(list) /\ \A i \in 1..Len(list) : list[i] \in Range(list)
    BY RangeIs
  <1>2. IsFiniteSet(T)
    <2>1. IsFiniteSet(1..Len(was))
      <3>1. \A n \in Nat : IsFiniteSet(1..n)
        BY FS_Interval
      <3>2. QED
        BY <1>1, <3>1
    <2>2. T \in SUBSET (1..Len(was))
      BY <1>1
    <2>3. QED
      BY <2>1, <2>2, FS_Subset
  <1>3. ASSUME NEW i \in S PROVE f[i] \in T /\ was[f[i]] = list[i]
    <2>1. list[i] \in Range(was) /\ one[list[i]].email = e
      BY <1>1
    <2>2. \E j \in T : was[j] = list[i]
      BY <1>1, <2>1
    <2> HIDE DEF T, S
    <2>3. QED
      BY <2>2
  <1>4. f \in [S -> T]
    <2>1. \A i \in S : (CHOOSE j \in T : was[j] = list[i]) \in T
      BY <1>3
    <2> HIDE DEF S, T
    <2>2. QED
      BY <2>1
  <1>5. ASSUME NEW i \in S, NEW j \in S, f[i] = f[j] PROVE i = j
    <2>1. list[i] = list[j]
      BY <1>3, <1>5
    <2>2. QED
      BY <2>1 DEF Distinct
  <1>6. f \in Injection(S, T)
    <2> HIDE DEF S, T, f
    <2>1. QED
      BY <1>4, <1>5 DEF Injection, IsInjective
  <1> HIDE DEF S, T, f
  <1>7. IsFiniteSet(S) /\ Cardinality(S) <= Cardinality(T)
    BY <1>2, <1>6, FS_Injection
  <1>8. QED
    BY <1>2, <1>7, FS_CardinalityType DEF S, T, CopiesOf

-----------------------------------------------------------------------------
(* Accounts listed twice, and slots                                        *)

\* A reload that awaits a browser has an entry of its own, idle and not listed, for an
\* account of the environment.
ReloadsAre ==
    \A t \in tasks : t.kind = "reload" =>
        /\ t.email \in EnvEmails /\ entries[t.entry].email = t.email
        /\ entries[t.entry].inFlight = 0 /\ t.entry \notin Range(accounts)
        /\ \A u \in tasks : u.kind = "reload" /\ u.entry = t.entry => u = t

\* Only the accounts of the environment are listed twice; the index leads to the last.
TwiceInv ==
    /\ Distinct(accounts)
    /\ \A x, y \in Range(accounts) :
          entries[x].email = entries[y].email => x = y \/ entries[x].email \in EnvEmails
    /\ emailIndex = IndexOf(entries, accounts)

SharedInv == TypeOK /\ BootInv /\ ReloadsAre /\ TwiceInv /\ CountsHeld

\* What every step does.
SharedStep == SharedInv' /\ DuplicatedByReload /\ FewerElsewhere /\ DroppedIdle

\* The requests that hold the slot of an entry.
Holding(id, sl) == {r \in Requests : sl[r] = id}

LEMMA HoldingIs ==
  ASSUME NEW id, NEW sl
  PROVE  /\ IsFiniteSet(Holding(id, sl)) /\ Cardinality(Holding(id, sl)) \in Nat
         /\ Cardinality(Holding(id, sl)) = 0 <=> \A r \in Requests : sl[r] # id
  <1>1. IsFiniteSet(Holding(id, sl)) /\ Cardinality(Holding(id, sl)) \in Nat
    BY RegistryAssumption, FS_Subset, FS_CardinalityType DEF Holding
  <1>2. QED
    BY <1>1, FS_EmptySet DEF Holding

\* The holders of an entry, before and after a step.
LEMMA HoldersAre ==
  ASSUME NEW id
  PROVE  /\ Holders(id) = Cardinality(Holding(id, slot)) /\ Holders(id) \in Nat
         /\ Holders(id)' = Cardinality(Holding(id, slot')) /\ Holders(id)' \in Nat
         /\ slot' = slot => Holders(id)' = Holders(id)
  <1>1. Holders(id) = Cardinality(Holding(id, slot)) /\ Holders(id)' = Cardinality(Holding(id, slot'))
    BY DEF Holders, Holding
  <1>2. QED
    BY <1>1, HoldingIs

\* The index and the counters of the entries it leads to.
LEMMA IndexedAre ==
  ASSUME SharedInv
  PROVE  /\ entries \in [Ids -> Entry] /\ accounts \in Seq(Ids) /\ Range(accounts) \subseteq Ids
         /\ slot \in [Requests -> Ids \cup {0}] /\ tasks \subseteq TaskSet
         /\ \A e \in Emails :
              /\ ByEmail(e) = 0 <=> e \notin Known(entries, accounts)
              /\ ByEmail(e) # 0 => /\ LastOf(entries, accounts, e, ByEmail(e))
                                   /\ ByEmail(e) \in Range(accounts)
                                   /\ entries[ByEmail(e)].email = e
                                   /\ entries[ByEmail(e)].inFlight <= Holders(ByEmail(e))
              /\ \A id : LastOf(entries, accounts, e, id) => ByEmail(e) = id
  <1>1. /\ entries \in [Ids -> Entry] /\ accounts \in Seq(Ids) /\ Range(accounts) \subseteq Ids
        /\ slot \in [Requests -> Ids \cup {0}] /\ tasks \subseteq TaskSet
    BY TypesAre, RangeIs DEF SharedInv, Typed
  <1>2. ASSUME NEW e \in Emails
        PROVE /\ ByEmail(e) = 0 <=> e \notin Known(entries, accounts)
              /\ ByEmail(e) # 0 => LastOf(entries, accounts, e, ByEmail(e))
              /\ \A id : LastOf(entries, accounts, e, id) => ByEmail(e) = id
    BY <1>1, IndexLast DEF SharedInv, TwiceInv, ByEmail
  <1>3. ASSUME NEW e \in Emails, ByEmail(e) # 0
        PROVE  /\ ByEmail(e) \in Range(accounts) /\ entries[ByEmail(e)].email = e
               /\ entries[ByEmail(e)].inFlight <= Holders(ByEmail(e))
    <2>1. LastOf(entries, accounts, e, ByEmail(e))
      BY <1>2, <1>3
    <2>2. Range(accounts) = {accounts[i] : i \in 1..Len(accounts)}
      BY <1>1, RangeIs
    <2>3. ByEmail(e) \in Range(accounts) /\ entries[ByEmail(e)].email = e
      BY <2>1, <2>2 DEF LastOf
    <2>4. QED
      BY <1>3, <2>3 DEF SharedInv, CountsHeld
  <1>4. QED
    BY <1>1, <1>2, <1>3

\* The same for the counters of the next state.
LEMMA CountsNext ==
  ASSUME \A e \in Emails : emailIndex'[e] # 0 =>
            entries'[emailIndex'[e]].inFlight <= Cardinality(Holding(emailIndex'[e], slot'))
  PROVE  CountsHeld'
  BY DEF CountsHeld, ByEmail, Holders, Holding

\* An entry that is listed after a step has no more copies than before, unless a reload
\* lists it.
LEMMA CopiesStep ==
  ASSUME SharedInv, accounts' \in Seq(Ids), Distinct(accounts'), NEW e,
         \A x \in Range(accounts') : entries'[x].email = e =>
            x \in Range(accounts) /\ entries[x].email = e
  PROVE  ~(Cardinality(Copies(e)') > Cardinality(Copies(e)))
  <1> DEFINE S == CopiesOf(entries', accounts', e)
             T == CopiesOf(entries, accounts, e)
  <1>1. /\ Cardinality(S) \in Nat /\ Cardinality(T) \in Nat /\ Cardinality(S) <= Cardinality(T)
    BY IndexedAre, NoMoreCopies
  <1>2. Copies(e)' = S /\ Copies(e) = T
    BY DEF Copies, CopiesOf
  <1> HIDE DEF S, T
  <1>3. QED
    BY <1>1, <1>2

\* A step that changes fields of entries and keeps the list.
LEMMA FieldsKept ==
  ASSUME SharedInv, TypeOK', UNCHANGED <<accounts, emailIndex, slot>>,
         \A id \in Range(accounts) : /\ entries'[id].email = entries[id].email
                                     /\ entries'[id].inFlight = entries[id].inFlight,
         ReloadsAre',
         \/ boot # "down" /\ boot' # "down"
         \/ UNCHANGED <<boot, tasks, watcher, debounce>>
  PROVE  SharedStep
  <1>1. /\ entries \in [Ids -> Entry] /\ accounts \in Seq(Ids) /\ Range(accounts) \subseteq Ids
    BY IndexedAre
  <1>2. BootInv'
    BY DEF SharedInv, BootInv
  <1>3. TwiceInv'
    <2>1. IndexOf(entries', accounts) = IndexOf(entries, accounts)
      BY <1>1, SameIndex
    <2>2. QED
      BY <2>1 DEF SharedInv, TwiceInv
  <1>4. CountsHeld'
    <2>1. ASSUME NEW e \in Emails, emailIndex'[e] # 0
          PROVE  entries'[emailIndex'[e]].inFlight <= Cardinality(Holding(emailIndex'[e], slot'))
      <3>1. ByEmail(e) = emailIndex'[e]
        BY DEF ByEmail
      <3>2. ByEmail(e) \in Range(accounts) /\ entries[ByEmail(e)].inFlight <= Holders(ByEmail(e))
        BY <2>1, <3>1, IndexedAre
      <3>3. QED
        BY <3>1, <3>2, HoldersAre
    <2>2. QED
      BY <2>1, CountsNext
  <1>5. DuplicatedByReload
    <2>1. \A e \in Emails : ~(Cardinality(Copies(e)') > Cardinality(Copies(e)))
      BY <1>1, CopiesStep DEF SharedInv, TwiceInv
    <2>2. QED
      BY <2>1 DEF DuplicatedByReload
  <1>6. FewerElsewhere
    <2>1. ASSUME NEW id \in Range(accounts)
          PROVE  ~(Holders(id)' + entries[id].inFlight > Holders(id) + entries'[id].inFlight)
      <3>1. Holders(id)' = Holders(id) /\ Holders(id) \in Nat
        BY HoldersAre
      <3>2. entries[id].inFlight \in Nat /\ entries'[id].inFlight = entries[id].inFlight
        BY <1>1 DEF Entry
      <3>3. QED
        BY <3>1, <3>2
    <2>2. QED
      BY <2>1 DEF FewerElsewhere
  <1>7. DroppedIdle
    BY DEF DroppedIdle
  <1>8. QED
    BY <1>2, <1>3, <1>4, <1>5, <1>6, <1>7 DEF SharedStep, SharedInv

\* What a step that makes another list adds: an entry of an email that is not listed, or
\* that of a reload which awaited a browser.
Added(ents, new, list) ==
    \/ new = accounts
    \/ \E id \in Ids \ Range(accounts) :
          /\ new = Append(accounts, id) /\ id \in Range(list) /\ ents[id].inFlight = 0
          /\ \/ ents[id].email \notin Known(entries, accounts)
             \/ /\ ents[id].email \in EnvEmails
                /\ \E t \in tasks \ tasks' : t.kind = "reload" /\ t.email = ents[id].email

\* What it drops: idle entries, or the first one of the email the operator removes.
Dropped(list) ==
    \A x \in Range(accounts) \ Range(list) :
        \/ entries[x].email \notin EnvEmails /\ entries[x].inFlight = 0
        \/ /\ RemoveAccount(entries[x].email)
           /\ FirstOf(entries, accounts, entries[x].email, x)

\* The reloads that go on.
ReloadsRest(ents, list, ts) ==
    \A t \in ts : t.kind = "reload" =>
        /\ t \in tasks /\ t.entry \notin Range(list)
        /\ ents[t.entry].email = entries[t.entry].email
        /\ ents[t.entry].inFlight = entries[t.entry].inFlight

\* The entries of a list that is put in place, and those of the reloads that go on.
LEMMA PutKeeps ==
  ASSUME NEW ents \in [Ids -> Entry], NEW list \in Seq(Ids), NEW ts \in SUBSET TaskSet, NEW sl,
         Put(ents, list, ts, sl)
  PROVE  /\ accounts' = list /\ tasks' = ts /\ slot' = sl
         /\ \A id \in Range(list) : entries'[id] = ents[id]
         /\ \A t \in ts : entries'[t.entry] = ents[t.entry]
  <1>1. accounts' = list /\ tasks' = ts /\ slot' = sl /\ entries' = Swept(ents, list, ts, sl)
    BY DEF Put
  <1>2. \A id \in Range(list) : entries'[id] = ents[id]
    BY <1>1, SweptIs
  <1>3. ASSUME NEW t \in ts PROVE entries'[t.entry] = ents[t.entry]
    <2>1. t.entry \in Ids
      BY TaskFields
    <2>2. t.entry \in Referred(list, ts, sl)
      BY DEF Referred
    <2>3. QED
      BY <1>1, <2>1, <2>2 DEF Swept
  <1>4. QED
    BY <1>1, <1>2, <1>3

LEMMA ReloadsPut ==
  ASSUME SharedInv, NEW ents \in [Ids -> Entry], NEW list \in Seq(Ids), NEW ts \in SUBSET TaskSet,
         NEW sl, Put(ents, list, ts, sl), ReloadsRest(ents, list, ts)
  PROVE  ReloadsAre'
  <1>1. accounts' = list /\ tasks' = ts /\ \A t \in ts : entries'[t.entry] = ents[t.entry]
    BY PutKeeps
  <1>2. ASSUME NEW t \in ts, t.kind = "reload"
        PROVE  /\ t.email \in EnvEmails /\ entries'[t.entry].email = t.email
               /\ entries'[t.entry].inFlight = 0 /\ t.entry \notin Range(list)
               /\ \A u \in ts : u.kind = "reload" /\ u.entry = t.entry => u = t
    <2>1. /\ t \in tasks /\ t.entry \notin Range(list)
          /\ entries'[t.entry].email = entries[t.entry].email
          /\ entries'[t.entry].inFlight = entries[t.entry].inFlight
      BY <1>1, <1>2 DEF ReloadsRest
    <2>2. \A u \in ts : u.kind = "reload" => u \in tasks
      BY DEF ReloadsRest
    <2>3. QED
      BY <1>2, <2>1, <2>2 DEF SharedInv, ReloadsAre
  <1>3. QED
    BY <1>1, <1>2 DEF ReloadsAre

\* The list that is made: what is in it, and which entries are its last ones.
LEMMA MadeIs ==
  ASSUME SharedInv, NEW ents \in [Ids -> Entry], NEW new \in Seq(Ids), NEW list \in Seq(Ids),
         NEW ids, list = new \/ list = Only(new, ids), Added(ents, new, list)
  PROVE  /\ Distinct(list) /\ Range(list) \subseteq Ids
         /\ \/ Range(list) \subseteq Range(accounts)
            \/ \E id \in Ids \ Range(accounts) :
                  /\ new = Append(accounts, id) /\ id \in Range(list) /\ ents[id].inFlight = 0
                  /\ Range(list) \subseteq Range(accounts) \cup {id}
                  /\ \/ ents[id].email \notin Known(entries, accounts)
                     \/ /\ ents[id].email \in EnvEmails
                        /\ \E t \in tasks \ tasks' : t.kind = "reload" /\ t.email = ents[id].email
         /\ \A e : \A id \in Range(list) : LastOf(ents, new, e, id) => LastOf(ents, list, e, id)
  <1>1. accounts \in Seq(Ids) /\ Distinct(accounts)
    BY IndexedAre DEF SharedInv, TwiceInv
  <1>2. Distinct(new)
    <2>1. \A id \in Ids : id \notin Range(accounts) => Distinct(Append(accounts, id))
      BY <1>1, AppendIs
    <2>2. QED
      BY <1>1, <2>1 DEF Added
  <1>3. Distinct(list) /\ Range(list) \subseteq Range(new)
    BY <1>2, OnlyAre
  <1>4. Range(list) \subseteq Ids
    BY RangeIs
  <1>5. \A id \in Ids : Range(Append(accounts, id)) = Range(accounts) \cup {id}
    BY <1>1, AppendIs
  <1>6. ASSUME NEW e, NEW id \in Range(list), LastOf(ents, new, e, id)
        PROVE  LastOf(ents, list, e, id)
    <2>1. CASE list = new
      BY <1>6, <2>1
    <2>2. CASE list = Only(new, ids)
      <3>1. id \in ids
        BY <2>2, OnlyAre
      <3>2. QED
        BY <1>6, <2>2, <3>1, OnlyLast
    <2>3. QED
      BY <2>1, <2>2
  <1>7. \/ Range(list) \subseteq Range(accounts)
        \/ \E id \in Ids \ Range(accounts) :
              /\ new = Append(accounts, id) /\ id \in Range(list) /\ ents[id].inFlight = 0
              /\ Range(list) \subseteq Range(accounts) \cup {id}
              /\ \/ ents[id].email \notin Known(entries, accounts)
                 \/ /\ ents[id].email \in EnvEmails
                    /\ \E t \in tasks \ tasks' : t.kind = "reload" /\ t.email = ents[id].email
    <2>1. CASE new = accounts
      BY <1>3, <2>1
    <2>2. CASE new # accounts
      BY <1>3, <1>5, <2>2 DEF Added
    <2>3. QED
      BY <2>1, <2>2
  <1>8. QED
    BY <1>3, <1>4, <1>6, <1>7

\* A step that makes another list keeps the slots of the entries the index leads to: its
\* last entry of an email stays the last one, or is dropped with nothing left of the email,
\* or is followed by a new entry without requests.
LEMMA CountsMade ==
  ASSUME SharedInv, NEW ents \in [Ids -> Entry], NEW new \in Seq(Ids), NEW list \in Seq(Ids),
         NEW ids, list = new \/ list = Only(new, ids),
         NEW ts \in SUBSET TaskSet, Put(ents, list, ts, slot), emailIndex' = IndexOf(ents, list),
         \A x \in Range(accounts) : /\ ents[x].email = entries[x].email
                                    /\ ents[x].inFlight = entries[x].inFlight,
         Added(ents, new, list), Dropped(list)
  PROVE  CountsHeld'
  <1>1. /\ accounts \in Seq(Ids) /\ Range(accounts) \subseteq Ids /\ entries \in [Ids -> Entry]
        /\ Distinct(accounts)
    BY IndexedAre DEF SharedInv, TwiceInv
  <1>2. Range(list) \subseteq Ids /\ slot' = slot /\ \A id \in Range(list) : entries'[id] = ents[id]
    BY MadeIs, PutKeeps
  <1>3. ASSUME NEW e \in Emails, IndexOf(ents, list)[e] # 0
        PROVE  LET y == IndexOf(ents, list)[e]
               IN  y \in Range(list) /\ ents[y].inFlight <= Holders(y)
    <2> DEFINE y == IndexOf(ents, list)[e]
               z == ByEmail(e)
    <2>1. LastOf(ents, list, e, y) /\ \A id : LastOf(ents, list, e, id) => y = id
      BY <1>3, IndexLast
    <2> HIDE DEF y
    <2>2. y \in Range(list) /\ ents[y].email = e
      <3>1. Range(list) = {list[i] : i \in 1..Len(list)}
        BY RangeIs
      <3>2. QED
        BY <2>1, <3>1 DEF LastOf
    <2>3. CASE y \notin Range(accounts)
      <3>1. \/ Range(list) \subseteq Range(accounts)
            \/ \E id \in Ids : ents[id].inFlight = 0 /\ Range(list) \subseteq Range(accounts) \cup {id}
        BY MadeIs
      <3>2. ents[y].inFlight = 0
        BY <2>2, <2>3, <3>1
      <3>3. QED
        BY <2>2, <3>2, HoldersAre DEF y
    <2>4. CASE y \in Range(accounts)
      <3>1. entries[y].email = e /\ ents[y].inFlight = entries[y].inFlight
        BY <2>2, <2>4
      <3>2. e \in Known(entries, accounts)
        BY <2>4, <3>1 DEF Known
      <3>3. /\ z # 0 /\ z \in Range(accounts) /\ entries[z].email = e
            /\ entries[z].inFlight <= Holders(z) /\ LastOf(entries, accounts, e, z)
        BY <3>2, IndexedAre
      <3> HIDE DEF z
      <3>4. SUFFICES ASSUME y # z PROVE FALSE
        BY <2>2, <3>1, <3>3 DEF y
      <3>5. e \in EnvEmails
        BY <2>4, <3>1, <3>3, <3>4 DEF SharedInv, TwiceInv
      <3>6. z \in Range(list)
        <4> SUFFICES ASSUME z \notin Range(list) PROVE FALSE
          OBVIOUS
        <4>1. FirstOf(entries, accounts, e, z)
          BY <3>3, <3>5 DEF Dropped
        <4>2. QED
          BY <1>1, <2>4, <3>1, <3>3, <3>4, <4>1, FirstLast
      <3>7. LastOf(ents, accounts, e, z)
        <4>1. \A j \in 1..Len(accounts) : accounts[j] \in Range(accounts)
          BY <1>1, RangeIs
        <4>2. QED
          BY <3>3, <4>1 DEF LastOf
      <3>8. CASE new = accounts
        <4>1. LastOf(ents, list, e, z)
          BY <3>6, <3>7, <3>8, MadeIs
        <4>2. QED
          BY <2>1, <3>4, <4>1
      <3>9. CASE new # accounts
        <4>1. PICK id \in Ids \ Range(accounts) : new = Append(accounts, id) /\ id \in Range(list)
          BY <3>9 DEF Added
        <4>2. LastOf(ents, new, e, id) \/ LastOf(ents, new, e, z)
          BY <1>1, <3>7, <4>1, AppendLast
        <4>3. LastOf(ents, list, e, id) \/ LastOf(ents, list, e, z)
          BY <3>6, <4>1, <4>2, MadeIs
        <4>4. QED
          BY <2>1, <2>4, <3>4, <4>1, <4>3
      <3>10. QED
        BY <3>8, <3>9
    <2>5. QED
      BY <2>3, <2>4 DEF y
  <1>4. ASSUME NEW e \in Emails, emailIndex'[e] # 0
        PROVE  entries'[emailIndex'[e]].inFlight <= Cardinality(Holding(emailIndex'[e], slot'))
    BY <1>2, <1>3, <1>4, HoldersAre
  <1>5. QED
    BY <1>4, CountsNext

\* A step that makes another list does what every step does.
LEMMA ListMade ==
  ASSUME SharedInv, TypeOK', boot # "down", boot' # "down",
         NEW ents \in [Ids -> Entry], NEW new \in Seq(Ids), NEW list \in Seq(Ids),
         NEW ids, list = new \/ list = Only(new, ids),
         NEW ts \in SUBSET TaskSet, Put(ents, list, ts, slot), emailIndex' = IndexOf(ents, list),
         \A x \in Range(accounts) : /\ ents[x].email = entries[x].email
                                    /\ ents[x].inFlight = entries[x].inFlight,
         Added(ents, new, list), Dropped(list), ReloadsRest(ents, list, ts)
  PROVE  SharedStep
  <1>1. /\ accounts \in Seq(Ids) /\ Range(accounts) \subseteq Ids /\ entries \in [Ids -> Entry]
    BY IndexedAre
  <1>2. /\ accounts' = list /\ slot' = slot /\ \A id \in Range(list) : entries'[id] = ents[id]
    BY PutKeeps
  <1>3. /\ Distinct(list) /\ Range(list) \subseteq Ids
        /\ \/ Range(list) \subseteq Range(accounts)
           \/ \E id \in Ids \ Range(accounts) :
                 /\ Range(list) \subseteq Range(accounts) \cup {id}
                 /\ \/ ents[id].email \notin Known(entries, accounts)
                    \/ /\ ents[id].email \in EnvEmails
                       /\ \E t \in tasks \ tasks' : t.kind = "reload" /\ t.email = ents[id].email
    BY MadeIs
  <1>4. BootInv'
    BY DEF BootInv
  <1>5. ReloadsAre' /\ CountsHeld'
    BY ReloadsPut, CountsMade
  <1>6. TwiceInv'
    <2>1. emailIndex' = IndexOf(entries', list)
      BY <1>2, SameIndex
    <2>2. ASSUME NEW x \in Range(list), NEW y \in Range(list), ents[x].email = ents[y].email, x # y
          PROVE  ents[x].email \in EnvEmails
      <3>1. \A k \in Range(accounts) : ents[k].email \in Known(entries, accounts)
        BY DEF Known
      <3>2. CASE x \in Range(accounts) /\ y \in Range(accounts)
        BY <2>2, <3>2 DEF SharedInv, TwiceInv
      <3>3. CASE ~(x \in Range(accounts) /\ y \in Range(accounts))
        BY <1>3, <2>2, <3>1, <3>3
      <3>4. QED
        BY <3>2, <3>3
    <2>3. QED
      BY <1>2, <1>3, <2>1, <2>2 DEF TwiceInv
  <1>7. DuplicatedByReload
    <2> SUFFICES ASSUME NEW e \in Emails, Copies(e) # {},
                        Cardinality(Copies(e)') > Cardinality(Copies(e))
                 PROVE  \E t \in tasks \ tasks' : t.kind = "reload" /\ t.email = e
      BY DEF DuplicatedByReload
    <2>1. e \in Known(entries, accounts)
      BY <1>1, RangeIs DEF Copies, Known
    <2>2. PICK x \in Range(list) : ents[x].email = e /\ ~(x \in Range(accounts) /\ entries[x].email = e)
      BY <1>2, <1>3, CopiesStep
    <2>3. x \notin Range(accounts)
      BY <2>2
    <2>4. QED
      BY <1>3, <2>1, <2>2, <2>3
  <1>8. FewerElsewhere
    <2>1. ASSUME NEW id \in Range(accounts), id \in Range(list)
          PROVE  ~(Holders(id)' + entries[id].inFlight > Holders(id) + entries'[id].inFlight)
      <3>1. Holders(id)' = Holders(id) /\ Holders(id) \in Nat
        BY <1>2, HoldersAre
      <3>2. entries[id].inFlight \in Nat /\ entries'[id].inFlight = entries[id].inFlight
        BY <1>1, <1>2, <2>1 DEF Entry
      <3>3. QED
        BY <3>1, <3>2
    <2>2. QED
      BY <1>2, <2>1 DEF FewerElsewhere
  <1>9. DroppedIdle
    <2> SUFFICES ASSUME NEW r \in Requests, slot[r] \in Range(accounts) \ Range(list)
                 PROVE  \/ RemoveAccount(entries[slot[r]].email)
                        \/ entries[slot[r]].inFlight < Holders(slot[r])
      BY <1>2 DEF DroppedIdle
    <2> DEFINE id == slot[r]
    <2>1. Cardinality(Holding(id, slot)) # 0
      BY HoldingIs
    <2>2. Holders(id) \in Nat /\ Holders(id) # 0
      BY <2>1, HoldersAre
    <2>3. QED
      BY <2>2 DEF Dropped
  <1>10. QED
    BY <1>4, <1>5, <1>6, <1>7, <1>8, <1>9 DEF SharedStep, SharedInv

\* The index of the list that is put in place.
LEMMA ReindexIs ==
  ASSUME SharedInv, NEW ents, NEW list \in Seq(Ids), Reindex(ents, list),
         \A x \in Range(accounts) : ents[x].email = entries[x].email
  PROVE  emailIndex' = IndexOf(ents, list)
  <1>1. IndexOf(ents, accounts) = IndexOf(entries, accounts)
    BY IndexedAre, SameIndex
  <1>2. QED
    BY <1>1 DEF Reindex, SharedInv, TwiceInv

\* The last part of reloadAccounts drops idle accounts that are not in the environment.
LEMMA ReloadedShared ==
  ASSUME SharedInv, TypeOK', boot # "down", boot' # "down",
         NEW ents \in [Ids -> Entry], NEW new \in Seq(Ids), NEW ts \in SUBSET TaskSet,
         Reloaded(ents, new, ts),
         \A x \in Range(accounts) : /\ ents[x].email = entries[x].email
                                    /\ ents[x].inFlight = entries[x].inFlight,
         \/ new = accounts
         \/ \E id \in Ids \ Range(accounts) :
               /\ new = Append(accounts, id) /\ ents[id].inFlight = 0
               /\ ents[id].email \in EnvEmails
               /\ \/ ents[id].email \notin Known(entries, accounts)
                  \/ \E t \in tasks \ ts : t.kind = "reload" /\ t.email = ents[id].email,
         ReloadsRest(ents, new, ts)
  PROVE  SharedStep
  <1> DEFINE ids == {id \in Ids : Stays(ents, id)}
             list == Only(new, ids)
  <1>1. /\ accounts \in Seq(Ids) /\ Range(accounts) \subseteq Ids /\ entries \in [Ids -> Entry]
    BY IndexedAre
  <1>2. list \in Seq(Ids) /\ Range(list) = Range(new) \cap ids
    BY OnlyAre
  <1>3. Put(ents, list, ts, slot) /\ Reindex(ents, list)
    BY DEF Reloaded
  <1>4. ReloadsRest(ents, list, ts)
    BY <1>2 DEF ReloadsRest
  <1>5. Range(accounts) \subseteq Range(new) /\ \A id \in Ids : Range(Append(accounts, id)) = Range(accounts) \cup {id}
    <2>1. \A id \in Ids : Range(Append(accounts, id)) = Range(accounts) \cup {id}
      BY <1>1, AppendIs
    <2>2. QED
      BY <2>1
  <1>6. tasks' = ts
    BY <1>3 DEF Put
  <1> HIDE DEF list
  <1>7. emailIndex' = IndexOf(ents, list)
    BY <1>2, <1>3, ReindexIs
  <1>8. Dropped(list)
    <2> SUFFICES ASSUME NEW x \in Range(accounts) \ Range(list)
                 PROVE  entries[x].email \notin EnvEmails /\ entries[x].inFlight = 0
      BY DEF Dropped
    <2>1. x \in Ids /\ ~Stays(ents, x)
      BY <1>1, <1>2, <1>5
    <2>2. entries[x].inFlight \in Nat
      BY <1>1, <2>1 DEF Entry
    <2>3. QED
      BY <2>1, <2>2 DEF Stays
  <1>9. Added(ents, new, list)
    <2>1. CASE new = accounts
      BY <2>1 DEF Added
    <2>2. CASE new # accounts
      <3>1. PICK id \in Ids \ Range(accounts) :
               /\ new = Append(accounts, id) /\ ents[id].inFlight = 0
               /\ ents[id].email \in EnvEmails
               /\ \/ ents[id].email \notin Known(entries, accounts)
                  \/ \E t \in tasks \ ts : t.kind = "reload" /\ t.email = ents[id].email
        BY <2>2
      <3>2. id \in Range(list)
        BY <1>2, <1>5, <3>1 DEF Stays
      <3>3. QED
        BY <1>6, <3>1, <3>2 DEF Added
    <2>3. QED
      BY <2>1, <2>2
  <1>10. list = Only(new, ids)
    BY DEF list
  <1> HIDE DEF ids
  <1>11. QED
    BY <1>2, <1>3, <1>4, <1>7, <1>8, <1>9, <1>10, ListMade

\* Entries of which a step changes neither the email nor the requests.
SameCounts(ents) ==
    \A id \in Ids : /\ ents[id].email = entries[id].email
                    /\ ents[id].inFlight = entries[id].inFlight

\* An operation ends or goes on, and the list stays.
LEMMA PutShared ==
  ASSUME SharedInv, TypeOK', boot # "down", boot' # "down",
         NEW ents \in [Ids -> Entry], SameCounts(ents),
         NEW ts \in SUBSET TaskSet, \A t \in ts : t.kind = "reload" => t \in tasks,
         Put(ents, accounts, ts, slot), UNCHANGED emailIndex
  PROVE  SharedStep
  <1>1. /\ accounts \in Seq(Ids) /\ Range(accounts) \subseteq Ids /\ tasks \subseteq TaskSet
    BY IndexedAre
  <1>2. \A t \in ts : t.entry \in Ids
    BY TaskFields
  <1>3. /\ UNCHANGED <<accounts, slot>> /\ \A id \in Range(accounts) : entries'[id] = ents[id]
    BY <1>1, PutKeeps
  <1>4. ReloadsRest(ents, accounts, ts)
    BY <1>1, <1>2 DEF SharedInv, ReloadsAre, ReloadsRest, SameCounts
  <1>5. ReloadsAre'
    BY <1>1, <1>4, ReloadsPut
  <1>6. QED
    BY <1>1, <1>3, <1>5, FieldsKept DEF SameCounts

\* The caller of loadCookiesFromProfile goes on.
LEMMA ReturnsShared ==
  ASSUME SharedInv, TypeOK', boot # "down", boot' # "down",
         NEW t \in tasks, NEW ok \in BOOLEAN, NEW ents \in [Ids -> Entry], SameCounts(ents),
         Returns(t, ok, ents)
  PROVE  SharedStep
  <1> DEFINE got == IF ok THEN [ents EXCEPT ![t.entry].token = TRUE] ELSE ents
             rest == tasks \ {t}
             more == rest \cup {[t EXCEPT !.at = "signin", !.acct = 0]}
             new == Append(accounts, t.entry)
  <1>1. /\ accounts \in Seq(Ids) /\ Range(accounts) \subseteq Ids /\ tasks \subseteq TaskSet
    BY IndexedAre
  <1>2. t \in TaskSet /\ t.entry \in Ids
    BY <1>1, TaskFields
  <1>3. got \in [Ids -> Entry]
    BY <1>2, EntryFields
  <1>4. SameCounts(got)
    BY <1>2 DEF SameCounts, Entry
  <1>5. /\ rest \in SUBSET TaskSet /\ more \in SUBSET TaskSet
        /\ [t EXCEPT !.at = "signin", !.acct = 0].kind = t.kind
    BY <1>1, <1>2, TaskFields
  <1>6. \/ t.kind = "reload" /\ Reloaded(got, new, rest)
        \/ t.kind # "reload" /\ Put(got, accounts, more, slot) /\ UNCHANGED emailIndex
        \/ Put(got, accounts, rest, slot) /\ UNCHANGED emailIndex
    BY DEF Returns
  <1> HIDE DEF got
  <1>7. CASE t.kind = "reload" /\ Reloaded(got, new, rest)
    <2>1. /\ t.email \in EnvEmails /\ entries[t.entry].email = t.email
          /\ entries[t.entry].inFlight = 0 /\ t.entry \notin Range(accounts)
          /\ \A u \in tasks : u.kind = "reload" /\ u.entry = t.entry => u = t
      BY <1>7 DEF SharedInv, ReloadsAre
    <2>2. got[t.entry].email = t.email /\ got[t.entry].inFlight = 0
      BY <1>2, <1>4, <2>1 DEF SameCounts
    <2>3. new \in Seq(Ids) /\ Range(new) = Range(accounts) \cup {t.entry}
      BY <1>1, <1>2, AppendIs
    <2>4. ReloadsRest(got, new, rest)
      <3>1. \A u \in rest : u.entry \in Ids
        BY <1>5, TaskFields
      <3>2. \A u \in rest : u.kind = "reload" => u.entry \notin Range(accounts) /\ u.entry # t.entry
        BY <1>7, <2>1 DEF SharedInv, ReloadsAre
      <3> HIDE DEF new
      <3>3. QED
        BY <1>4, <2>3, <3>1, <3>2 DEF ReloadsRest, SameCounts
    <2>5. \E id \in Ids \ Range(accounts) :
             /\ new = Append(accounts, id) /\ got[id].inFlight = 0
             /\ got[id].email \in EnvEmails
             /\ \E u \in tasks \ rest : u.kind = "reload" /\ u.email = got[id].email
      BY <1>2, <1>7, <2>1, <2>2
    <2>6. \A x \in Range(accounts) : got[x].email = entries[x].email /\ got[x].inFlight = entries[x].inFlight
      BY <1>1, <1>4 DEF SameCounts
    <2> HIDE DEF new, rest
    <2>7. QED
      BY <1>3, <1>5, <1>7, <2>3, <2>4, <2>5, <2>6, ReloadedShared
  <1>8. CASE t.kind # "reload" /\ Put(got, accounts, more, slot) /\ UNCHANGED emailIndex
    <2>1. \A u \in more : u.kind = "reload" => u \in tasks
      BY <1>5, <1>8
    <2> HIDE DEF more
    <2>2. QED
      BY <1>3, <1>4, <1>5, <1>8, <2>1, PutShared
  <1>9. CASE Put(got, accounts, rest, slot) /\ UNCHANGED emailIndex
    <2>1. \A u \in rest : u.kind = "reload" => u \in tasks
      OBVIOUS
    <2> HIDE DEF rest
    <2>2. QED
      BY <1>3, <1>4, <1>5, <1>9, <2>1, PutShared
  <1>10. QED
    BY <1>6, <1>7, <1>8, <1>9

\* An operation takes its next step, with an entry of its own as before.
LEMMA StepsOn ==
  ASSUME SharedInv, TypeOK', boot # "down", boot' # "down",
         NEW ents \in [Ids -> Entry], SameCounts(ents), entries' = ents,
         NEW t \in tasks, NEW next, next.kind = t.kind, next.email = t.email, next.entry = t.entry,
         tasks' = (tasks \ {t}) \cup {next},
         UNCHANGED <<accounts, emailIndex, slot>>
  PROVE  SharedStep
  <1>1. /\ accounts \in Seq(Ids) /\ Range(accounts) \subseteq Ids /\ tasks \subseteq TaskSet
    BY IndexedAre
  <1>2. \A u \in tasks : u.entry \in Ids
    BY <1>1, TaskFields
  <1>3. ASSUME NEW v \in tasks', v.kind = "reload"
        PROVE  /\ v.email \in EnvEmails /\ entries'[v.entry].email = v.email
               /\ entries'[v.entry].inFlight = 0 /\ v.entry \notin Range(accounts)
               /\ \A u \in tasks' : u.kind = "reload" /\ u.entry = v.entry => u = v
    <2>1. PICK w \in tasks : /\ w.kind = "reload" /\ w.email = v.email /\ w.entry = v.entry
                             /\ (v = w /\ w # t) \/ (v = next /\ w = t)
      BY <1>3
    <2>2. /\ w.email \in EnvEmails /\ entries[w.entry].email = w.email
          /\ entries[w.entry].inFlight = 0 /\ w.entry \notin Range(accounts)
          /\ \A u \in tasks : u.kind = "reload" /\ u.entry = w.entry => u = w
      BY <2>1 DEF SharedInv, ReloadsAre
    <2>3. entries'[v.entry].email = v.email /\ entries'[v.entry].inFlight = 0
      BY <1>2, <2>1, <2>2 DEF SameCounts
    <2>4. ASSUME NEW u \in tasks', u.kind = "reload", u.entry = v.entry PROVE u = v
      BY <2>1, <2>2, <2>4
    <2>5. QED
      BY <2>1, <2>2, <2>3, <2>4
  <1>4. ReloadsAre'
    BY <1>3 DEF ReloadsAre
  <1>5. QED
    BY <1>1, <1>4, FieldsKept DEF SameCounts

\* A browser session ends.
LEMMA AfterShared ==
  ASSUME SharedInv, TypeOK', boot # "down", boot' # "down",
         NEW t \in tasks, NEW loggedIn \in BOOLEAN, NEW ents \in [Ids -> Entry], SameCounts(ents),
         After(t, loggedIn, ents)
  PROVE  SharedStep
  <1> DEFINE updated == Found(ents, accounts, t.email)
             acct == IF t.at = "create" THEN t.acct ELSE updated
             ok == loggedIn /\ acct # 0 /\ ents[acct].token
             next == [t EXCEPT !.at = "reading", !.acct = updated]
  <1>1. accounts \in Seq(Ids) /\ Range(accounts) \subseteq Ids /\ tasks \subseteq TaskSet
    BY IndexedAre
  <1>2. updated \in Ids \cup {0}
    BY <1>1, FoundIn
  <1>3. t \in TaskSet /\ t.acct \in Ids \cup {0}
    BY <1>1, TaskFields
  <1>4. next.kind = t.kind /\ next.email = t.email /\ next.entry = t.entry
    BY <1>3 DEF TaskSet
  <1>5. ok \in BOOLEAN
    <2>1. acct \in Ids \cup {0}
      BY <1>2, <1>3
    <2> HIDE DEF acct
    <2>2. acct # 0 => ents[acct].token \in BOOLEAN
      BY <2>1 DEF Entry
    <2>3. QED
      BY <2>2
  <1>6. \/ /\ tasks' = (tasks \ {t}) \cup {next}
           /\ entries' = ents /\ UNCHANGED <<accounts, emailIndex, slot>>
        \/ Returns(t, ok, ents)
    BY DEF After
  <1> HIDE DEF next, ok
  <1>7. QED
    BY <1>4, <1>5, <1>6, ReturnsShared, StepsOn

LEMMA CookiesCount ==
  ASSUME SharedInv, NEW ents \in [Ids -> Entry], SameCounts(ents), NEW e
  PROVE  WithCookies(ents, accounts, e) \in [Ids -> Entry] /\ SameCounts(WithCookies(ents, accounts, e))
  <1>1. accounts \in Seq(Ids)
    BY IndexedAre
  <1>2. QED
    BY <1>1, CookiesAre DEF SameCounts

LEMMA TaskShared ==
  ASSUME SharedInv, TypeOK', TaskStep
  PROVE  SharedStep
  <1>1. /\ accounts \in Seq(Ids) /\ Range(accounts) \subseteq Ids /\ tasks \subseteq TaskSet
        /\ entries \in [Ids -> Entry]
    BY IndexedAre
  <1>2. PICK t \in tasks : \/ ReadFails(t) \/ ReadBlank(t) \/ ReadCookies(t)
                           \/ LogsIn(t) \/ IsLoggedIn(t) \/ LoginFails(t)
                           \/ SignsIn(t) \/ SignInFails(t)
    BY DEF TaskStep
  <1>3. boot # "down" /\ boot' # "down"
    BY <1>2 DEF TaskStep, SharedInv, BootInv
  <1>4. t \in TaskSet /\ t.entry \in Ids /\ t.acct \in Ids \cup {0}
    BY <1>1, TaskFields
  <1>5. SameCounts(entries)
    BY DEF SameCounts
  <1> DEFINE rest == tasks \ {t}
             cook == WithCookies(entries, accounts, t.email)
  <1>6. cook \in [Ids -> Entry] /\ SameCounts(cook)
    BY <1>1, <1>5, CookiesCount
  <1>7. rest \in SUBSET TaskSet /\ \A u \in rest : u.kind = "reload" => u \in tasks
    BY <1>1
  <1> HIDE DEF rest, cook
  <1>8. CASE ReadFails(t)
    BY <1>1, <1>3, <1>5, <1>8, ReturnsShared DEF ReadFails
  <1>9. CASE ReadBlank(t)
    <2> DEFINE next == [t EXCEPT !.at = "authorize"]
    <2>1. next.kind = t.kind /\ next.email = t.email /\ next.entry = t.entry
      BY <1>4 DEF TaskSet
    <2>2. \/ /\ tasks' = (tasks \ {t}) \cup {next} /\ entries' = entries
             /\ UNCHANGED <<accounts, emailIndex, slot>>
          \/ Returns(t, FALSE, entries)
      BY <1>9 DEF ReadBlank
    <2> HIDE DEF next
    <2>3. QED
      BY <1>1, <1>3, <1>5, <2>1, <2>2, ReturnsShared, StepsOn
  <1>10. CASE ReadCookies(t)
    <2> DEFINE Kept(slashed) == IF t.acct = 0 THEN entries
                                ELSE [entries EXCEPT ![t.acct].slashed = slashed]
    <2>1. PICK slashed \in BOOLEAN, signed \in BOOLEAN :
             Returns(t, signed, IF signed THEN WithCookies(Kept(slashed), accounts, t.email)
                                ELSE Kept(slashed))
      BY <1>10 DEF ReadCookies
    <2> DEFINE kept == Kept(slashed)
               now == IF signed THEN WithCookies(kept, accounts, t.email) ELSE kept
    <2>2. kept \in [Ids -> Entry]
      BY <1>1, <1>4, EntryFields
    <2>3. SameCounts(kept)
      BY <1>1, <1>4 DEF SameCounts, Entry
    <2> HIDE DEF kept
    <2>4. now \in [Ids -> Entry] /\ SameCounts(now)
      BY <2>2, <2>3, CookiesCount
    <2>5. Returns(t, signed, now)
      BY <2>1 DEF kept
    <2> HIDE DEF now
    <2>6. QED
      BY <1>3, <2>4, <2>5, ReturnsShared
  <1>11. CASE LogsIn(t)
    <2>1. After(t, TRUE, cook)
      BY <1>11 DEF LogsIn, cook
    <2>2. QED
      BY <1>3, <1>6, <2>1, AfterShared
  <1>12. CASE IsLoggedIn(t) \/ LoginFails(t)
    BY <1>1, <1>3, <1>5, <1>12, AfterShared DEF IsLoggedIn, LoginFails
  <1>13. CASE SignsIn(t)
    <2> DEFINE got == [entries EXCEPT ![t.entry].token = TRUE]
               now == IF t.kind = "boot" THEN WithCookies(got, accounts, t.email) ELSE got
    <2>1. got \in [Ids -> Entry]
      BY <1>1, <1>4, EntryFields
    <2>2. SameCounts(got)
      BY <1>1, <1>4 DEF SameCounts, Entry
    <2>3. Put(now, accounts, rest, slot) /\ UNCHANGED emailIndex
      BY <1>13 DEF SignsIn, rest
    <2> HIDE DEF got
    <2>4. now \in [Ids -> Entry] /\ SameCounts(now)
      BY <2>1, <2>2, CookiesCount
    <2> HIDE DEF now
    <2>5. QED
      BY <1>3, <1>7, <2>3, <2>4, PutShared
  <1>14. CASE SignInFails(t)
    <2>1. Put(entries, accounts, rest, slot) /\ UNCHANGED emailIndex
      BY <1>14 DEF SignInFails, rest
    <2>2. QED
      BY <1>1, <1>3, <1>5, <1>7, <2>1, PutShared
  <1>15. QED
    BY <1>2, <1>8, <1>9, <1>10, <1>11, <1>12, <1>13, <1>14

\* A reload adds an account of the environment that is not listed, or begins to await its
\* profile with an entry nothing refers to.
LEMMA ReloadShared ==
  ASSUME SharedInv, TypeOK', Reload
  PROVE  SharedStep
  <1>1. /\ accounts \in Seq(Ids) /\ Range(accounts) \subseteq Ids /\ tasks \subseteq TaskSet
        /\ entries \in [Ids -> Entry]
    BY IndexedAre
  <1>2. boot # "down" /\ boot' # "down"
    BY DEF Reload, SharedInv, BootInv
  <1>3. Missing = EnvEmails \ Known(entries, accounts)
    BY DEF Missing, Known
  <1>4. ReloadsRest(entries, accounts, tasks)
    BY DEF ReloadsRest, SharedInv, ReloadsAre
  <1>5. CASE UNCHANGED <<entries, accounts, emailIndex, profile, tasks, slot>>
    <2>1. ReloadsAre'
      BY <1>5 DEF SharedInv, ReloadsAre
    <2>2. QED
      BY <1>2, <1>5, <2>1, FieldsKept
  <1>6. CASE Reloaded(entries, accounts, tasks)
    BY <1>1, <1>2, <1>4, <1>6, ReloadedShared
  <1>7. CASE /\ FreeIds # {}
             /\ \E e \in Missing :
                   LET id == Min(FreeIds)
                       ents == [entries EXCEPT ![id] = NewEntry(e)]
                   IN IF profile[e] \in {"gone", "none"}
                      THEN Reloaded(ents, Append(accounts, id), tasks)
                      ELSE /\ tasks' = tasks \cup {LoadTask("reload", e, id, 0)}
                           /\ entries' = ents
                           /\ UNCHANGED <<accounts, emailIndex, slot>>
    <2> DEFINE id == Min(FreeIds)
               Ents(e) == [entries EXCEPT ![id] = NewEntry(e)]
    <2>1. PICK e \in Missing :
            \/ Reloaded(Ents(e), Append(accounts, id), tasks)
            \/ /\ tasks' = tasks \cup {LoadTask("reload", e, id, 0)}
               /\ entries' = Ents(e)
               /\ UNCHANGED <<accounts, emailIndex, slot>>
      BY <1>7
    <2>2. e \in EnvEmails \ Known(entries, accounts) /\ e \in Emails
      BY <1>3, RegistryAssumption
    <2>3. /\ id \in Ids \ Range(accounts) /\ \A t \in tasks : t.entry # id
      BY <1>7, FreeIs DEF SharedInv
    <2> HIDE DEF id
    <2> DEFINE ents == Ents(e)
    <2>4. ents \in [Ids -> Entry]
      BY <1>1, <2>2, <2>3, NewEntryIs, EntryFields
    <2>5. ents[id].email = e /\ ents[id].inFlight = 0 /\ \A k \in Ids \ {id} : ents[k] = entries[k]
      BY <1>1, <2>2, <2>3, NewEntryIs
    <2> HIDE DEF ents
    <2>6. \A x \in Range(accounts) : ents[x] = entries[x]
      BY <1>1, <2>3, <2>5
    <2>7. \A t \in tasks : t.entry \in Ids \ {id} /\ ents[t.entry] = entries[t.entry]
      BY <1>1, <2>3, <2>5, TaskFields
    <2>8. CASE Reloaded(ents, Append(accounts, id), tasks)
      <3> DEFINE new == Append(accounts, id)
      <3>1. new \in Seq(Ids) /\ Range(new) = Range(accounts) \cup {id}
        BY <1>1, <2>3, AppendIs
      <3>2. \E k \in Ids \ Range(accounts) :
               /\ new = Append(accounts, k) /\ ents[k].inFlight = 0
               /\ ents[k].email \in EnvEmails /\ ents[k].email \notin Known(entries, accounts)
        BY <2>2, <2>3, <2>5
      <3>3. Reloaded(ents, new, tasks)
        BY <2>8
      <3> HIDE DEF new
      <3>4. ReloadsRest(ents, new, tasks)
        BY <1>4, <2>7, <3>1 DEF ReloadsRest
      <3>5. QED
        BY <1>1, <1>2, <2>4, <2>6, <3>1, <3>2, <3>3, <3>4, ReloadedShared
    <2>9. CASE /\ tasks' = tasks \cup {LoadTask("reload", e, id, 0)}
               /\ entries' = ents
               /\ UNCHANGED <<accounts, emailIndex, slot>>
      <3> DEFINE new == LoadTask("reload", e, id, 0)
      <3>1. new.email = e /\ new.entry = id /\ new.kind = "reload"
        BY DEF LoadTask, Task
      <3> HIDE DEF new
      <3>2. tasks' = tasks \cup {new}
        BY <2>9 DEF new
      <3>3. ASSUME NEW t \in tasks', t.kind = "reload"
            PROVE  /\ t.email \in EnvEmails /\ entries'[t.entry].email = t.email
                   /\ entries'[t.entry].inFlight = 0 /\ t.entry \notin Range(accounts)
                   /\ \A u \in tasks' : u.kind = "reload" /\ u.entry = t.entry => u = t
        <4>1. CASE t = new
          BY <2>2, <2>3, <2>5, <2>9, <3>1, <3>2, <4>1
        <4>2. CASE t \in tasks
          <5>1. /\ t.email \in EnvEmails /\ entries[t.entry].email = t.email
                /\ entries[t.entry].inFlight = 0 /\ t.entry \notin Range(accounts)
                /\ \A u \in tasks : u.kind = "reload" /\ u.entry = t.entry => u = t
            BY <3>3, <4>2 DEF SharedInv, ReloadsAre
          <5>2. t.entry # id /\ entries'[t.entry] = entries[t.entry]
            BY <2>7, <2>9, <4>2
          <5>3. QED
            BY <3>1, <3>2, <5>1, <5>2
        <4>3. QED
          BY <3>2, <3>3, <4>1, <4>2
      <3>4. ReloadsAre'
        BY <2>9, <3>3 DEF ReloadsAre
      <3>5. QED
        BY <1>2, <2>6, <2>9, <3>4, FieldsKept
    <2>10. QED
      BY <2>1, <2>8, <2>9 DEF ents
  <1>8. QED
    BY <1>5, <1>6, <1>7 DEF Reload

\* The operator adds an account that is not listed.
LEMMA AddShared ==
  ASSUME SharedInv, TypeOK', NEW e \in Emails, AddAccount(e)
  PROVE  SharedStep
  <1> DEFINE id == Min(FreeIds)
             ents == [entries EXCEPT ![id] = NewEntry(e)]
             list == Append(accounts, id)
             ts == tasks \cup {Task("add", e, id, 0, "open")}
  <1>1. /\ accounts \in Seq(Ids) /\ Range(accounts) \subseteq Ids /\ tasks \subseteq TaskSet
        /\ entries \in [Ids -> Entry]
    BY IndexedAre
  <1>2. /\ id \in Ids /\ id \notin Range(accounts)
        /\ ents \in [Ids -> Entry] /\ list \in Seq(Ids) /\ ts \in SUBSET TaskSet
        /\ Put(ents, list, ts, slot)
        /\ emailIndex' = IndexOf(ents, list)
        /\ boot # "down" /\ Found(entries, accounts, e) = 0 /\ boot' = boot
    BY AddIs DEF SharedInv
  <1>3. \A t \in tasks : t.entry # id
    BY FreeIs DEF AddAccount, SharedInv
  <1> HIDE DEF id
  <1>4. ents[id].email = e /\ ents[id].inFlight = 0 /\ \A k \in Ids \ {id} : ents[k] = entries[k]
    BY <1>1, <1>2, NewEntryIs
  <1>5. Range(list) = Range(accounts) \cup {id}
    BY <1>1, <1>2, AppendIs
  <1>6. e \notin Known(entries, accounts)
    BY <1>1, <1>2, FoundFirst
  <1>7. \A t \in ts : t.kind = "reload" => t \in tasks
    BY DEF Task
  <1>8. list = Append(accounts, id)
    OBVIOUS
  <1> HIDE DEF ents, list, ts
  <1>9. \A x \in Range(accounts) : ents[x] = entries[x]
    BY <1>1, <1>2, <1>4
  <1>10. ReloadsRest(ents, list, ts)
    <2>1. \A t \in tasks : t.entry \in Ids \ {id} /\ ents[t.entry] = entries[t.entry]
      BY <1>1, <1>3, <1>4, TaskFields
    <2>2. QED
      BY <1>5, <1>7, <2>1 DEF ReloadsRest, SharedInv, ReloadsAre
  <1>11. Added(ents, list, list)
    BY <1>2, <1>4, <1>5, <1>6, <1>8 DEF Added
  <1>12. Dropped(list)
    BY <1>5 DEF Dropped
  <1>13. QED
    BY <1>2, <1>9, <1>10, <1>11, <1>12, ListMade

\* The operator removes the first entry of an email.
LEMMA RemoveShared ==
  ASSUME SharedInv, TypeOK', NEW e \in Emails, RemoveAccount(e)
  PROVE  SharedStep
  <1> DEFINE id == Found(entries, accounts, e)
             list == Only(accounts, Ids \ {id})
  <1>1. /\ accounts \in Seq(Ids) /\ Range(accounts) \subseteq Ids /\ tasks \subseteq TaskSet
        /\ entries \in [Ids -> Entry]
    BY IndexedAre
  <1>2. /\ id # 0 /\ list \in Seq(Ids) /\ Put(entries, list, tasks, slot)
        /\ emailIndex' = IndexOf(entries, list)
        /\ boot # "down" /\ boot' = boot
    BY RemoveIs DEF SharedInv
  <1>3. FirstOf(entries, accounts, e, id)
    BY <1>1, <1>2, FoundFirst
  <1>4. entries[id].email = e
    BY <1>3 DEF FirstOf
  <1> HIDE DEF id
  <1>5. Range(list) = Range(accounts) \ {id}
    <2>1. Range(list) = Range(accounts) \cap (Ids \ {id})
      BY <1>1, OnlyAre
    <2>2. QED
      BY <1>1, <2>1
  <1>6. list = Only(accounts, Ids \ {id})
    OBVIOUS
  <1> HIDE DEF list
  <1>7. Dropped(list)
    BY <1>3, <1>4, <1>5 DEF Dropped
  <1>8. Added(entries, accounts, list)
    BY DEF Added
  <1>9. ReloadsRest(entries, list, tasks)
    BY <1>5 DEF ReloadsRest, SharedInv, ReloadsAre
  <1>10. QED
    BY <1>1, <1>2, <1>6, <1>7, <1>8, <1>9, ListMade

\* The process starts, and ends.
LEMMA StartShared ==
  ASSUME SharedInv, TypeOK', Start
  PROVE  SharedStep
  <1>1. accounts = <<>> /\ Range(accounts) = {} /\ \A e \in Emails : Copies(e) = {}
    <2>1. accounts = <<>>
      BY DEF Start, SharedInv, BootInv
    <2>2. QED
      BY <2>1 DEF Range, Copies
  <1>2. /\ entries' \in [Ids -> Entry] /\ accounts' \in Seq(Ids)
        /\ Each(entries', accounts') /\ emailIndex' = IndexOf(entries', accounts')
        /\ \A t \in tasks' : t.kind = "boot"
        /\ boot' # "down" /\ slot' = slot
        /\ \A id \in Ids : entries'[id].inFlight = 0
    BY StartIs DEF SharedInv
  <1>3. BootInv' /\ ReloadsAre'
    BY <1>2 DEF BootInv, ReloadsAre
  <1>4. TwiceInv'
    <2> DEFINE ents == entries'
               list == accounts'
    <2>1. list \in Seq(Ids) /\ Each(ents, list)
      BY <1>2
    <2> HIDE DEF ents, list
    <2>2. Distinct(list) /\ \A x, y \in Range(list) : ents[x].email = ents[y].email => x = y
      BY <2>1, EachOf
    <2>3. QED
      BY <1>2, <2>2 DEF TwiceInv, ents, list
  <1>5. CountsHeld'
    <2>1. ASSUME NEW e \in Emails, emailIndex'[e] # 0
          PROVE  entries'[emailIndex'[e]].inFlight <= Cardinality(Holding(emailIndex'[e], slot'))
      <3>1. emailIndex'[e] \in Ids
        BY <2>1, TypesNext DEF Typed
      <3>2. QED
        BY <1>2, <3>1, HoldingIs
    <2>2. QED
      BY <2>1, CountsNext
  <1>6. DuplicatedByReload /\ FewerElsewhere /\ DroppedIdle
    BY <1>1 DEF DuplicatedByReload, FewerElsewhere, DroppedIdle
  <1>7. QED
    BY <1>3, <1>4, <1>5, <1>6 DEF SharedStep, SharedInv

LEMMA CrashShared ==
  ASSUME SharedInv, TypeOK', Crash
  PROVE  SharedStep
  <1>1. /\ accounts' = <<>> /\ Range(accounts') = {} /\ tasks' = {} /\ watcher' = "off" /\ ~debounce'
        /\ slot' = [r \in Requests |-> 0] /\ emailIndex' = [e \in Emails |-> 0]
    BY DEF Crash, Range
  <1>2. BootInv' /\ ReloadsAre'
    BY <1>1 DEF BootInv, ReloadsAre
  <1>3. TwiceInv'
    BY <1>1 DEF TwiceInv, Distinct, IndexOf
  <1>4. CountsHeld'
    BY <1>1, CountsNext
  <1>5. DuplicatedByReload
    <2>1. accounts' \in Seq(Ids) /\ Distinct(accounts')
      BY <1>1, EmptySeq DEF Distinct
    <2>2. \A e \in Emails : ~(Cardinality(Copies(e)') > Cardinality(Copies(e)))
      BY <1>1, <2>1, CopiesStep
    <2>3. QED
      BY <2>2 DEF DuplicatedByReload
  <1>6. FewerElsewhere
    BY <1>1 DEF FewerElsewhere
  <1>7. DroppedIdle
    <2>1. \A r \in Requests : slot'[r] = 0
      BY <1>1
    <2>2. 0 \notin Range(accounts)
      BY IndexedAre, IdsAre
    <2>3. QED
      BY <2>1, <2>2 DEF DroppedIdle
  <1>8. QED
    BY <1>2, <1>3, <1>4, <1>5, <1>6, <1>7 DEF SharedStep, SharedInv

\* A request takes the slot of a listed entry.
LEMMA PickShared ==
  ASSUME SharedInv, TypeOK', NEW r \in Requests, PickAccount(r)
  PROVE  SharedStep
  <1>1. /\ accounts \in Seq(Ids) /\ Range(accounts) \subseteq Ids /\ entries \in [Ids -> Entry]
        /\ slot \in [Requests -> Ids \cup {0}] /\ tasks \subseteq TaskSet
    BY IndexedAre
  <1>2. PICK id \in Range(accounts) :
          /\ entries' = [entries EXCEPT ![id].inFlight = @ + 1]
          /\ slot' = [slot EXCEPT ![r] = id]
    BY DEF PickAccount
  <1>3. /\ slot[r] = 0
        /\ UNCHANGED <<boot, accounts, emailIndex, tasks, watcher, debounce>>
    BY DEF PickAccount
  <1>4. boot # "down"
    <2>1. accounts # <<>>
      BY <1>2 DEF Range
    <2>2. QED
      BY <2>1 DEF SharedInv, BootInv
  <1>5. id \in Ids /\ id # 0
    BY <1>1, <1>2, IdsAre
  <1>6. \A k \in Ids : /\ entries'[k].email = entries[k].email
                       /\ entries[k].inFlight \in Nat
                       /\ entries'[k].inFlight = IF k = id THEN entries[k].inFlight + 1
                                                 ELSE entries[k].inFlight
    BY <1>1, <1>2, <1>5 DEF Entry
  <1>7. \A k \in Ids : Holders(k)' = IF k = id THEN Holders(k) + 1 ELSE Holders(k)
    <2>1. \A k \in Ids \ {id} : Holding(k, slot') = Holding(k, slot)
      BY <1>1, <1>2, <1>3, IdsAre DEF Holding
    <2>2. Holding(id, slot') = Holding(id, slot) \cup {r} /\ r \notin Holding(id, slot)
      BY <1>1, <1>2, <1>3, <1>5 DEF Holding
    <2> DEFINE H == Holding(id, slot)
    <2>3. IsFiniteSet(H)
      BY HoldingIs
    <2>4. Cardinality(H \cup {r}) = Cardinality(H) + 1
      <3>1. r \notin H
        BY <2>2
      <3> HIDE DEF H
      <3>2. QED
        BY <2>3, <3>1, FS_AddElement
    <2>5. QED
      BY <1>5, <2>1, <2>2, <2>4, HoldersAre
  <1>8. BootInv'
    BY <1>3, <1>4 DEF BootInv
  <1>9. ReloadsAre'
    <2>1. \A t \in tasks : t.entry \in Ids
      BY <1>1, TaskFields
    <2>2. QED
      BY <1>2, <1>3, <1>6, <2>1 DEF SharedInv, ReloadsAre
  <1>10. TwiceInv'
    <2>1. IndexOf(entries', accounts) = IndexOf(entries, accounts)
      BY <1>1, <1>6, SameIndex
    <2>2. QED
      BY <1>1, <1>3, <1>6, <2>1 DEF SharedInv, TwiceInv
  <1>11. CountsHeld'
    <2>1. ASSUME NEW e \in Emails, NEW y, y = ByEmail(e), y # 0
          PROVE  entries'[y].inFlight <= Cardinality(Holding(y, slot'))
      <3>1. y \in Ids /\ entries[y].inFlight <= Holders(y)
        BY <1>1, <2>1, IndexedAre
      <3>2. Holders(y)' = Cardinality(Holding(y, slot')) /\ Holders(y) \in Nat
        BY HoldersAre
      <3>3. entries'[y].inFlight <= Holders(y)'
        BY <1>6, <1>7, <3>1, <3>2
      <3>4. QED
        BY <3>2, <3>3
    <2>2. \A e \in Emails : emailIndex'[e] = ByEmail(e)
      BY <1>3 DEF ByEmail
    <2>3. QED
      BY <2>1, <2>2, CountsNext
  <1>12. DuplicatedByReload
    <2>1. \A e \in Emails : ~(Cardinality(Copies(e)') > Cardinality(Copies(e)))
      BY <1>1, <1>3, <1>6, CopiesStep DEF SharedInv, TwiceInv
    <2>2. QED
      BY <2>1 DEF DuplicatedByReload
  <1>13. FewerElsewhere
    <2>1. \A k \in Range(accounts) :
            ~(Holders(k)' + entries[k].inFlight > Holders(k) + entries'[k].inFlight)
      BY <1>1, <1>6, <1>7, HoldersAre
    <2>2. QED
      BY <2>1 DEF FewerElsewhere
  <1>14. DroppedIdle
    BY <1>3 DEF DroppedIdle
  <1>15. QED
    BY <1>8, <1>9, <1>10, <1>11, <1>12, <1>13, <1>14 DEF SharedStep, SharedInv

\* A request gives back the slot of the entry its email leads to, which is its own unless
\* that was removed or listed again meanwhile.
LEMMA EndShared ==
  ASSUME SharedInv, TypeOK', NEW r \in Requests, EndRequest(r)
  PROVE  SharedStep
  <1> DEFINE s == slot[r]
             e == entries[slot[r]].email
             y == ByEmail(e)
             sl == [slot EXCEPT ![r] = 0]
             ents == DecrementInFlight(e)
  <1>1. /\ accounts \in Seq(Ids) /\ Range(accounts) \subseteq Ids /\ entries \in [Ids -> Entry]
        /\ slot \in [Requests -> Ids \cup {0}] /\ tasks \subseteq TaskSet
    BY IndexedAre
  <1>2. s # 0 /\ Put(ents, accounts, tasks, sl) /\ UNCHANGED <<boot, emailIndex, watcher, debounce>>
    BY DEF EndRequest
  <1>3. boot # "down"
    BY <1>2 DEF SharedInv, BootInv
  <1>4. s \in Ids /\ e \in Emails
    BY <1>2, SlotEmail DEF SharedInv
  <1>5. /\ y # 0 => y \in Range(accounts) /\ y \in Ids /\ entries[y].email = e
                    /\ entries[y].inFlight <= Holders(y)
        /\ \A x \in Emails : ByEmail(x) = s => x = e
    <2>1. y # 0 => y \in Range(accounts) /\ entries[y].email = e /\ entries[y].inFlight <= Holders(y)
      BY <1>4, IndexedAre
    <2>2. \A x \in Emails : ByEmail(x) = s => x = e
      BY <1>2, IndexedAre
    <2>3. QED
      BY <1>1, <2>1, <2>2
  <1>6. sl \in [Requests -> Ids \cup {0}]
    BY <1>1
  <1>7. ents = IF y # 0 /\ entries[y].inFlight > 0 THEN [entries EXCEPT ![y].inFlight = @ - 1] ELSE entries
    BY DEF DecrementInFlight
  <1> HIDE DEF ents, y, e, s
  <1>8. \A k \in Ids : /\ entries[k].inFlight \in Nat
                       /\ ents[k].email = entries[k].email
                       /\ ents[k].inFlight = IF k = y /\ entries[k].inFlight > 0
                                             THEN entries[k].inFlight - 1 ELSE entries[k].inFlight
    BY <1>1, <1>5, <1>7, IdsAre DEF Entry
  <1>9. ents \in [Ids -> Entry]
    <2>1. CASE y # 0 /\ entries[y].inFlight > 0
      <3>1. y \in Ids /\ entries[y].inFlight - 1 \in Nat
        BY <1>5, <1>8, <2>1
      <3>2. [entries EXCEPT ![y].inFlight = entries[y].inFlight - 1] \in [Ids -> Entry]
        BY <1>1, <3>1, EntryFields
      <3>3. QED
        BY <1>7, <2>1, <3>2
    <2>2. CASE ~(y # 0 /\ entries[y].inFlight > 0)
      BY <1>1, <1>7, <2>2
    <2>3. QED
      BY <2>1, <2>2
  <1>10. /\ accounts' = accounts /\ tasks' = tasks /\ slot' = sl
         /\ \A id \in Range(accounts) : entries'[id] = ents[id]
         /\ \A t \in tasks : entries'[t.entry] = ents[t.entry]
    BY <1>1, <1>2, <1>9, PutKeeps
  <1>11. \A k \in Ids : Holders(k)' = IF k = s THEN Holders(k) - 1 ELSE Holders(k)
    <2>1. \A k \in Ids \ {s} : Holding(k, sl) = Holding(k, slot)
      BY <1>1, IdsAre DEF Holding, s
    <2>2. Holding(s, sl) = Holding(s, slot) \ {r} /\ r \in Holding(s, slot)
      BY <1>1, <1>2 DEF Holding, s
    <2> DEFINE H == Holding(s, slot)
    <2>3. IsFiniteSet(H)
      BY HoldingIs
    <2>4. Cardinality(H \ {r}) = Cardinality(H) - 1
      <3>1. r \in H
        BY <2>2
      <3> HIDE DEF H
      <3>2. QED
        BY <2>3, <3>1, FS_RemoveElement
    <2>5. slot' = sl
      BY <1>10
    <2> HIDE DEF sl
    <2>6. QED
      BY <2>1, <2>2, <2>4, <2>5, HoldersAre
  <1>12. BootInv'
    BY <1>2, <1>3 DEF BootInv
  <1>13. ReloadsAre'
    <2>1. \A t \in tasks : t.entry \in Ids
      BY <1>1, TaskFields
    <2>2. ASSUME NEW t \in tasks, t.kind = "reload"
          PROVE  /\ entries'[t.entry].email = entries[t.entry].email
                 /\ entries[t.entry].inFlight = 0 => entries'[t.entry].inFlight = 0
      <3>1. t.entry \in Ids /\ entries'[t.entry] = ents[t.entry]
        BY <1>10, <2>1, <2>2
      <3>2. QED
        BY <1>8, <3>1
    <2>3. QED
      BY <1>2, <1>10, <2>1, <2>2 DEF SharedInv, ReloadsAre
  <1>14. TwiceInv'
    <2>1. IndexOf(entries', accounts) = IndexOf(entries, accounts)
      BY <1>1, <1>8, <1>10, SameIndex
    <2>2. QED
      BY <1>1, <1>2, <1>8, <1>10, <2>1 DEF SharedInv, TwiceInv
  <1>15. CountsHeld'
    <2>1. ASSUME NEW x \in Emails, NEW z, z = ByEmail(x), z # 0
          PROVE  entries'[z].inFlight <= Cardinality(Holding(z, slot'))
      <3>1. z \in Range(accounts) /\ z \in Ids /\ entries[z].inFlight <= Holders(z)
        BY <1>1, <2>1, IndexedAre
      <3>2. z = s => z = y
        BY <1>5, <2>1 DEF y
      <3>3. /\ Holders(z) \in Nat /\ Holders(z)' \in Nat
            /\ Holders(z)' = Cardinality(Holding(z, slot'))
        BY HoldersAre
      <3>4. entries'[z] = ents[z]
        BY <1>10, <3>1
      <3>5. entries[z].inFlight \in Nat /\ Holders(z)' = IF z = s THEN Holders(z) - 1 ELSE Holders(z)
        BY <1>8, <1>11, <3>1
      <3>6. ents[z].inFlight = IF z = y /\ entries[z].inFlight > 0 THEN entries[z].inFlight - 1
                               ELSE entries[z].inFlight
        BY <1>8, <3>1
      <3>7. entries'[z].inFlight <= Holders(z)'
        BY <3>1, <3>2, <3>3, <3>4, <3>5, <3>6
      <3>8. QED
        BY <3>3, <3>7
    <2>2. \A x \in Emails : emailIndex'[x] = ByEmail(x)
      BY <1>2 DEF ByEmail
    <2>3. QED
      BY <2>1, <2>2, CountsNext
  <1>16. DuplicatedByReload
    <2>1. \A x \in Emails : ~(Cardinality(Copies(x)') > Cardinality(Copies(x)))
      BY <1>1, <1>8, <1>10, CopiesStep DEF SharedInv, TwiceInv
    <2>2. QED
      BY <2>1 DEF DuplicatedByReload
  <1>17. FewerElsewhere
    <2> SUFFICES ASSUME NEW id \in Range(accounts),
                        Holders(id)' + entries[id].inFlight > Holders(id) + entries'[id].inFlight
                 PROVE  EndsElsewhere(r) /\ entries[slot[r]].email = entries[id].email
      BY DEF FewerElsewhere
    <2>1. id \in Ids /\ Holders(id) \in Nat /\ Holders(id)' \in Nat
      BY <1>1, HoldersAre
    <2>2. id = y /\ id # s
      BY <1>8, <1>10, <1>11, <2>1
    <2>3. y # 0
      BY <2>1, <2>2, IdsAre
    <2>4. slot'[r] = 0
      BY <1>1, <1>10
    <2>5. QED
      BY <1>2, <1>5, <2>2, <2>3, <2>4 DEF EndsElsewhere, y, e, s
  <1>18. DroppedIdle
    BY <1>10 DEF DroppedIdle
  <1>19. QED
    BY <1>12, <1>13, <1>14, <1>15, <1>16, <1>17, <1>18 DEF SharedStep, SharedInv

\* Steps that change no email, no counter, no list and no operation.
LEMMA RestShared ==
  ASSUME SharedInv, TypeOK', UNCHANGED <<accounts, emailIndex, slot>>,
         \A id \in Ids : /\ entries'[id].email = entries[id].email
                         /\ entries'[id].inFlight = entries[id].inFlight,
         \A t \in tasks' : t.kind = "reload" => t \in tasks,
         \/ boot # "down" /\ boot' # "down"
         \/ UNCHANGED <<boot, tasks, watcher, debounce>>
  PROVE  SharedStep
  <1>1. Range(accounts) \subseteq Ids /\ tasks \subseteq TaskSet
    BY IndexedAre
  <1>2. \A t \in tasks : t.entry \in Ids
    BY <1>1, TaskFields
  <1>3. ReloadsAre'
    BY <1>2 DEF SharedInv, ReloadsAre
  <1>4. QED
    BY <1>1, <1>3, FieldsKept

LEMMA ListedIsUp ==
  ASSUME SharedInv, NEW e \in Emails, ByEmail(e) # 0
  PROVE  boot # "down"
  <1>1. ByEmail(e) \in Range(accounts)
    BY IndexedAre
  <1>2. accounts # <<>>
    BY <1>1 DEF Range
  <1>3. QED
    BY <1>2 DEF SharedInv, BootInv

\* Steps of the start, of the operator, of time and of a refused request that only change
\* fields, profiles and operations other than reloads.
LEMMA QuietShared ==
  ASSUME SharedInv, TypeOK',
         \/ BootLogins \/ BootDone \/ WatcherReady \/ WatcherFails \/ WatcherRetries \/ Tick
         \/ \E e \in Emails : LoginAccount(e) \/ DeleteProfile(e) \/ TokenExpires(e)
         \/ UNCHANGED vars
  PROVE  SharedStep
  <1>1. CASE BootLogins
    <2>1. /\ boot = "profiles" /\ boot' = "logins" /\ UNCHANGED <<entries, accounts, emailIndex, slot>>
          /\ tasks' = tasks \cup {Task("boot", entries[id].email, id, 0, "signin") :
                                    id \in {i \in Range(accounts) : ~entries[i].token}}
      BY <1>1 DEF BootLogins
    <2>2. \A t \in tasks' : t.kind = "reload" => t \in tasks
      BY <2>1 DEF Task
    <2>3. QED
      BY <2>1, <2>2, RestShared
  <1>2. CASE BootDone
    <2>1. boot = "logins" /\ boot' = "done" /\ UNCHANGED <<entries, accounts, emailIndex, tasks, slot>>
      BY <1>2 DEF BootDone
    <2>2. QED
      BY <2>1, RestShared
  <1>3. CASE WatcherReady \/ WatcherFails \/ WatcherRetries
    <2>1. watcher # "off" /\ UNCHANGED <<boot, entries, accounts, emailIndex, tasks, slot>>
      BY <1>3 DEF WatcherReady, WatcherFails, WatcherRetries
    <2>2. boot # "down" /\ boot' # "down"
      BY <2>1 DEF SharedInv, BootInv
    <2>3. QED
      BY <2>1, <2>2, RestShared
  <1>4. CASE Tick
    <2>1. UNCHANGED <<boot, accounts, emailIndex, tasks, watcher, debounce, slot>>
      BY <1>4 DEF Tick
    <2>2. \A id \in Ids : /\ entries'[id].email = entries[id].email
                          /\ entries'[id].inFlight = entries[id].inFlight
      BY <1>4, TickIs DEF SharedInv
    <2>3. QED
      BY <2>1, <2>2, RestShared
  <1>5. ASSUME NEW e \in Emails, LoginAccount(e) PROVE SharedStep
    <2>1. ByEmail(e) # 0 /\ UNCHANGED <<boot, entries, accounts, emailIndex, slot>>
          /\ tasks' = tasks \cup {Task("login", e, ByEmail(e), 0, "open")}
      BY <1>5 DEF LoginAccount
    <2>2. boot # "down" /\ boot' # "down"
      BY <2>1, ListedIsUp
    <2>3. \A t \in tasks' : t.kind = "reload" => t \in tasks
      BY <2>1 DEF Task
    <2>4. QED
      BY <2>1, <2>2, <2>3, RestShared
  <1>6. ASSUME NEW e \in Emails, DeleteProfile(e) \/ TokenExpires(e) PROVE SharedStep
    <2>1. UNCHANGED <<boot, entries, accounts, emailIndex, tasks, watcher, debounce, slot>>
      BY <1>6 DEF DeleteProfile, TokenExpires
    <2>2. QED
      BY <2>1, RestShared
  <1>7. CASE UNCHANGED vars
    <2>1. UNCHANGED <<boot, entries, accounts, emailIndex, tasks, watcher, debounce, slot>>
      BY <1>7 DEF vars
    <2>2. QED
      BY <2>1, RestShared
  <1>8. QED
    BY <1>1, <1>2, <1>3, <1>4, <1>5, <1>6, <1>7

\* Steps that change the flag or the cooldown of one entry the index leads to.
LEMMA FieldShared ==
  ASSUME SharedInv, TypeOK',
         \/ \E e \in Emails, value \in BOOLEAN : SetAccountDisabled(e, value)
         \/ \E r \in Requests : ThrottleAccount(r)
  PROVE  SharedStep
  <1>1. entries \in [Ids -> Entry]
    BY IndexedAre
  <1>2. ASSUME NEW e \in Emails, NEW value \in BOOLEAN, SetAccountDisabled(e, value) PROVE SharedStep
    <2>1. /\ ByEmail(e) # 0 /\ UNCHANGED <<boot, accounts, emailIndex, tasks, slot>>
          /\ entries' = [entries EXCEPT ![ByEmail(e)].disabled = value]
      BY <1>2 DEF SetAccountDisabled
    <2>2. boot # "down" /\ boot' # "down"
      BY <2>1, ListedIsUp
    <2>3. \A id \in Ids : /\ entries'[id].email = entries[id].email
                          /\ entries'[id].inFlight = entries[id].inFlight
      BY <1>1, <2>1 DEF Entry
    <2>4. QED
      BY <2>1, <2>2, <2>3, RestShared
  <1>3. ASSUME NEW r \in Requests, ThrottleAccount(r) PROVE SharedStep
    <2>1. /\ slot[r] # 0 /\ UNCHANGED <<boot, accounts, emailIndex, tasks, slot>>
          /\ \E id, n : entries' = [entries EXCEPT ![id].throttled = n]
      BY <1>3 DEF ThrottleAccount
    <2>2. boot # "down" /\ boot' # "down"
      BY <2>1 DEF SharedInv, BootInv
    <2>3. \A id \in Ids : /\ entries'[id].email = entries[id].email
                          /\ entries'[id].inFlight = entries[id].inFlight
      BY <1>1, <2>1 DEF Entry
    <2>4. QED
      BY <2>1, <2>2, <2>3, RestShared
  <1>4. QED
    BY <1>2, <1>3

LEMMA StepShared ==
  ASSUME SharedInv, [Next]_vars
  PROVE  SharedStep
  <1>1. TypeOK'
    BY StepTypes DEF SharedInv
  <1>2. QED
    BY <1>1, StartShared, CrashShared, TaskShared, ReloadShared, AddShared, RemoveShared,
       PickShared, EndShared, QuietShared, FieldShared DEF Next, Operator

LEMMA InitShared == Init => SharedInv
  <1> SUFFICES ASSUME Init PROVE SharedInv
    OBVIOUS
  <1>1. TypeOK
    BY InitTypes
  <1>2. BootInv /\ ReloadsAre
    BY DEF Init, BootInv, ReloadsAre
  <1>3. TwiceInv
    BY DEF Init, TwiceInv, Distinct, IndexOf, Range
  <1>4. CountsHeld
    BY DEF Init, CountsHeld, ByEmail
  <1>5. QED
    BY <1>1, <1>2, <1>3, <1>4 DEF SharedInv

LEMMA SharedIndexed == SharedInv => Indexed
  <1> SUFFICES ASSUME SharedInv, NEW e \in Emails
               PROVE  IF Copies(e) = {} THEN emailIndex[e] = 0
                      ELSE \E i \in Copies(e) : emailIndex[e] = accounts[i]
    BY DEF Indexed
  <1>1. accounts \in Seq(Ids) /\ (ByEmail(e) = 0 <=> e \notin Known(entries, accounts))
    BY IndexedAre
  <1>2. CASE Copies(e) = {}
    <2>1. e \notin Known(entries, accounts)
      BY <1>1, <1>2 DEF Copies, Known, Range
    <2>2. QED
      BY <1>1, <1>2, <2>1 DEF ByEmail
  <1>3. CASE Copies(e) # {}
    <2>1. ByEmail(e) # 0
      BY <1>1, <1>3 DEF Copies, Known, Range
    <2>2. ByEmail(e) \in Range(accounts) /\ entries[ByEmail(e)].email = e
      BY <2>1, IndexedAre
    <2>3. QED
      BY <1>3, <2>2 DEF ByEmail, Copies, Range
  <1>4. QED
    BY <1>2, <1>3

\* An account comes to be listed a second time only by a reload that awaited its browser
\* profile, whatever happened to profiles and accounts meanwhile: every other operation
\* looks and registers in one step.  The index always leads to an entry of its email.
THEOREM OnlyAwaitingReloads == Spec => OnlyReloadsDuplicate
  <1>1. SharedInv /\ [Next]_vars => SharedInv' /\ DuplicatedByReload
    BY StepShared DEF SharedStep
  <1>2. SharedInv /\ [Next]_vars => SharedInv' /\ [DuplicatedByReload]_vars
    BY <1>1
  <1>3. QED
    BY <1>2, InitShared, SharedIndexed, PTL DEF Spec, OnlyReloadsDuplicate

\* Removals under running requests included: an entry the index leads to never counts
\* more requests than hold it, it loses a count to nobody but a request of the same email
\* whose own entry the index has left, and only the operator's removal drops an entry that
\* counts the requests it serves.
THEOREM SlotsAreAccounted == Spec => SlotsAccounted
  <1>1. SharedInv /\ [Next]_vars => SharedInv' /\ FewerElsewhere /\ DroppedIdle
    BY StepShared DEF SharedStep
  <1>2. SharedInv /\ [Next]_vars => SharedInv' /\ [FewerElsewhere]_vars /\ [DroppedIdle]_vars
    BY <1>1
  <1>3. SharedInv => CountsHeld
    BY DEF SharedInv
  <1>4. QED
    BY <1>2, <1>3, InitShared, PTL DEF Spec, SlotsAccounted

-----------------------------------------------------------------------------
(* accounts.json                                                           *)

\* A file has a record of an email; an entry is the only one of its email in a list.
HasRecord(recs, e) == \E i \in 1..Len(recs) : recs[i].email = e
Sole(ents, list, id) == \A k \in Range(list) : ents[k].email = ents[id].email => k = id

\* An account listed once and saved once has its flag and its cooldown saved.
Agrees(ents, list, recs) ==
    \A id \in Range(list), i \in 1..Len(recs) :
        ents[id].email = recs[i].email /\ Sole(ents, list, id) /\ SoleRecord(recs, i) =>
            ents[id].disabled = recs[i].disabled /\ ents[id].throttled = recs[i].throttled

\* No operation is left that writes the profile of an email.
Idle(ts, e) == \A t \in ts : t.email = e => t.at = "signin"

\* No record is cut off at a "//".
Unslashed == (\A i \in 1..Len(file.recs) : ~file.recs[i].slashed) /\ NoneSlashed(entries)

\* An account that is saved and not listed is none of the environment, and has lost its
\* profile for good, or else the file could not be decrypted.
Unlisted ==
    boot # "down" =>
        \A e \in Emails \ Known(entries, accounts) : HasRecord(file.recs, e) =>
            e \notin EnvEmails /\ ((profile[e] = "gone" /\ Idle(tasks, e)) \/ file.key # KeyInUse)

\* An account is listed without a profile only while nobody is about to write it.
Opened == \A e \in Known(entries, accounts) \ EnvEmails : profile[e] = "gone" => Idle(tasks, e)

\* The file agrees with the list and has lost nobody without a reason.
FileInv == Unslashed /\ Agrees(entries, accounts, file.recs) /\ Unlisted /\ Opened

\* What a step may take out of the file.
LosesOnly ==
    \A e \in Emails : HasRecord(file.recs, e) /\ ~HasRecord(file'.recs, e) =>
        Crash \/ RemoveAccount(e) \/ profile[e] = "gone" \/ file.key # KeyInUse

\* What it may do to a flag.
FlagStays ==
    \A e \in Emails : Once(e) /\ Off(e) /\ ~Off(e)' => SetAccountDisabled(e, FALSE) \/ ~Listed(e)'

LEMMA AtMostOne ==
  ASSUME NEW n \in Nat, NEW S \in SUBSET (1..n), Cardinality(S) <= 1, NEW x \in S, NEW y \in S
  PROVE  x = y
  <1> SUFFICES ASSUME x # y PROVE FALSE
    OBVIOUS
  <1>1. IsFiniteSet(1..n)
    BY FS_Interval
  <1>2. IsFiniteSet(S) /\ Cardinality(S) \in Nat
    BY <1>1, FS_Subset, FS_CardinalityType
  <1>3. IsFiniteSet({x}) /\ Cardinality({x}) = 1
    BY FS_Singleton
  <1>4. Cardinality({x} \cup {y}) = 2
    BY <1>3, FS_AddElement
  <1>5. Cardinality({x} \cup {y}) <= Cardinality(S)
    <2>1. {x} \cup {y} \in SUBSET S
      OBVIOUS
    <2>2. QED
      BY <1>2, <2>1, FS_Subset
  <1>6. QED
    BY <1>2, <1>4, <1>5

\* An account that is listed and saved once has one entry and one record.
LEMMA OnceIs ==
  ASSUME TypeOK, NEW e, Once(e)
  PROVE  /\ \A id \in Range(accounts) : entries[id].email = e => Sole(entries, accounts, id)
         /\ \A i \in 1..Len(file.recs) : file.recs[i].email = e => SoleRecord(file.recs, i)
  <1>1. accounts \in Seq(Ids) /\ file.recs \in Seq(Record)
    BY TypesAre DEF Typed, FileSet
  <1>2. /\ Len(accounts) \in Nat /\ DOMAIN accounts = 1..Len(accounts)
        /\ Range(accounts) = {accounts[i] : i \in 1..Len(accounts)}
        /\ Len(file.recs) \in Nat /\ DOMAIN file.recs = 1..Len(file.recs)
    BY <1>1, RangeIs
  <1>3. ASSUME NEW i \in 1..Len(accounts), NEW j \in 1..Len(accounts),
               entries[accounts[i]].email = e, entries[accounts[j]].email = e
        PROVE  i = j
    <2>1. Copies(e) \in SUBSET (1..Len(accounts)) /\ i \in Copies(e) /\ j \in Copies(e)
      BY <1>2, <1>3 DEF Copies
    <2>2. Cardinality(Copies(e)) <= 1
      BY DEF Once
    <2>3. QED
      BY <1>2, <2>1, <2>2, AtMostOne
  <1>4. ASSUME NEW i \in 1..Len(file.recs), NEW j \in 1..Len(file.recs),
               file.recs[i].email = e, file.recs[j].email = e
        PROVE  i = j
    <2>1. Records(e) \in SUBSET (1..Len(file.recs)) /\ i \in Records(e) /\ j \in Records(e)
      BY <1>2, <1>4 DEF Records
    <2>2. Cardinality(Records(e)) <= 1
      BY DEF Once
    <2>3. QED
      BY <1>2, <2>1, <2>2, AtMostOne
  <1>5. QED
    BY <1>2, <1>3, <1>4 DEF Sole, SoleRecord

\* The properties the runs check, by the numbers of the records.
LEMMA RecordsAre ==
  ASSUME TypeOK
  PROVE  /\ file.recs \in Seq(Record) /\ Len(file.recs) \in Nat
         /\ Range(file.recs) = {file.recs[i] : i \in 1..Len(file.recs)}
         /\ \A i \in 1..Len(file.recs) : file.recs[i].email \in Emails
         /\ Agrees(entries, accounts, file.recs) => FileKnows
         /\ \A e : Saved(e) <=> HasRecord(file.recs, e)
  <1>1. file.recs \in Seq(Record)
    BY TypesAre DEF Typed, FileSet
  <1>2. /\ Len(file.recs) \in Nat /\ DOMAIN file.recs = 1..Len(file.recs)
        /\ Range(file.recs) = {file.recs[i] : i \in 1..Len(file.recs)}
        /\ \A i \in 1..Len(file.recs) : file.recs[i] \in Record
    BY <1>1, RangeIs
  <1>3. \A i \in 1..Len(file.recs) : file.recs[i].email \in Emails
    BY <1>2 DEF Record
  <1>4. Agrees(entries, accounts, file.recs) => FileKnows
    BY <1>2, OnceIs DEF FileKnows, Agrees
  <1>5. QED
    BY <1>1, <1>2, <1>3, <1>4 DEF Saved, HasRecord

LEMMA RecordsNext ==
  ASSUME TypeOK'
  PROVE  \A e : Saved(e)' <=> HasRecord(file'.recs, e)
  <1> DEFINE recs == file'.recs
  <1>1. recs \in Seq(Record)
    BY TypesNext DEF Typed, FileSet
  <1>2. \A e : Saved(e)' <=> \E p \in Range(recs) : p.email = e
    BY DEF Saved
  <1> HIDE DEF recs
  <1>3. Range(recs) = {recs[i] : i \in 1..Len(recs)}
    BY <1>1, RangeIs
  <1>4. QED
    BY <1>2, <1>3 DEF HasRecord, recs

\* A save writes just what is listed; an account with one record has one entry.
LEMMA SaveIs ==
  ASSUME TypeOK, NEW now \in [Ids -> Entry], NEW list \in Seq(Ids), Saves(now, list)
  PROVE  /\ \A e : HasRecord(file'.recs, e) <=> e \in Known(now, list)
         /\ NoneSlashed(now) => \A i \in 1..Len(file'.recs) : ~file'.recs[i].slashed
         /\ \A id \in Range(list), i \in 1..Len(file'.recs) :
              now[id].email = file'.recs[i].email /\ SoleRecord(file'.recs, i) =>
                /\ now[id].disabled = file'.recs[i].disabled
                /\ now[id].throttled = file'.recs[i].throttled
  <1> DEFINE recs == file'.recs
             n == Len(list)
  <1>1. /\ Len(recs) = n
        /\ \A i \in 1..n : /\ recs[i].email = now[list[i]].email
                           /\ recs[i].throttled = now[list[i]].throttled
                           /\ recs[i].disabled = now[list[i]].disabled
                           /\ recs[i].slashed = now[list[i]].slashed
    BY ImageIs DEF Saves
  <1>2. Range(list) = {list[i] : i \in 1..n} /\ \A i \in 1..n : list[i] \in Ids
    BY RangeIs
  <1> HIDE DEF recs
  <1>3. NoneSlashed(now) => \A i \in 1..Len(recs) : ~recs[i].slashed
    BY <1>1, <1>2 DEF NoneSlashed
  <1>4. ASSUME NEW k \in 1..n, NEW i \in 1..n, now[list[k]].email = recs[i].email, SoleRecord(recs, i)
        PROVE  now[list[k]].disabled = recs[i].disabled /\ now[list[k]].throttled = recs[i].throttled
    <2>1. k = i
      BY <1>1, <1>4 DEF SoleRecord
    <2>2. QED
      BY <1>1, <2>1
  <1>5. \A e : HasRecord(recs, e) <=> e \in Known(now, list)
    BY <1>1, <1>2 DEF HasRecord, Known
  <1>6. QED
    BY <1>1, <1>2, <1>3, <1>4, <1>5 DEF recs

\* An entry that a step keeps, as far as the file knows it.
Same(two, one, id) ==
    /\ two[id].email = one[id].email
    /\ two[id].disabled = one[id].disabled
    /\ two[id].throttled = one[id].throttled

\* A step that saves a list: what it lists beyond that is of the environment, what it
\* lists no more has lost its profile for good.
LEMMA FileSaved ==
  ASSUME TypeOK, NEW now \in [Ids -> Entry], NEW list \in Seq(Ids), Saves(now, list),
         NoneSlashed(now), NoneSlashed(entries'),
         \A id \in Range(list) \cap Range(accounts') : Same(entries', now, id),
         \A id \in Range(accounts') \ Range(list) : entries'[id].email \in EnvEmails,
         \A id \in Range(list) \ Range(accounts') :
            /\ now[id].email \notin EnvEmails
            /\ profile'[now[id].email] = "gone" /\ Idle(tasks', now[id].email)
  PROVE  /\ Unslashed' /\ Agrees(entries', accounts', file'.recs) /\ Unlisted'
         /\ \A e : HasRecord(file'.recs, e) <=> e \in Known(now, list)
  <1> DEFINE ents == entries'
             new == accounts'
             recs == file'.recs
  <1>1. /\ \A e : HasRecord(recs, e) <=> e \in Known(now, list)
        /\ \A i \in 1..Len(recs) : ~recs[i].slashed
        /\ \A id \in Range(list), i \in 1..Len(recs) :
             now[id].email = recs[i].email /\ SoleRecord(recs, i) =>
               now[id].disabled = recs[i].disabled /\ now[id].throttled = recs[i].throttled
    BY SaveIs
  <1>2. /\ \A id \in Range(list) \cap Range(new) : Same(ents, now, id)
        /\ \A id \in Range(new) \ Range(list) : ents[id].email \in EnvEmails
        /\ \A id \in Range(list) \ Range(new) : now[id].email \notin EnvEmails
    OBVIOUS
  <1>3. Unslashed'
    BY <1>1 DEF Unslashed
  <1>4. ASSUME NEW e \in Known(now, list) \ Known(ents, new)
        PROVE  e \notin EnvEmails /\ profile'[e] = "gone" /\ Idle(tasks', e)
    <2>1. PICK id \in Range(list) : now[id].email = e
      BY DEF Known
    <2>2. id \notin Range(new)
      BY <1>2, <2>1, <1>4 DEF Known, Same
    <2>3. QED
      BY <2>1, <2>2
  <1>5. Unlisted'
    BY <1>1, <1>4 DEF Unlisted
  <1> HIDE DEF ents, new, recs
  <1>6. Agrees(ents, new, recs)
    <2> SUFFICES ASSUME NEW id \in Range(new), NEW i \in 1..Len(recs), ents[id].email = recs[i].email,
                        Sole(ents, new, id), SoleRecord(recs, i)
                 PROVE  ents[id].disabled = recs[i].disabled /\ ents[id].throttled = recs[i].throttled
      BY DEF Agrees
    <2>1. CASE id \in Range(list)
      BY <1>1, <1>2, <2>1 DEF Same
    <2>2. CASE id \notin Range(list)
      <3>1. ents[id].email \in EnvEmails
        BY <1>2, <2>2
      <3>2. PICK k \in Range(list) : now[k].email = ents[id].email
        BY <1>1 DEF HasRecord, Known
      <3>3. k \in Range(new) /\ ents[k].email = ents[id].email
        BY <1>2, <3>1, <3>2 DEF Same
      <3>4. k = id
        BY <3>3 DEF Sole
      <3>5. QED
        BY <2>2, <3>4
    <2>3. QED
      BY <2>1, <2>2
  <1>7. QED
    BY <1>1, <1>3, <1>5, <1>6 DEF ents, new, recs

\* A step that does not write the file.
LEMMA FileStays ==
  ASSUME SharedInv, FileInv, UNCHANGED <<file, masterKey, apiKey>>, NoneSlashed(entries'),
         boot' # "down" => boot # "down",
         \A id \in Range(accounts) \cap Range(accounts') : Same(entries', entries, id),
         \A id \in Range(accounts') \ Range(accounts) : entries'[id].email \in EnvEmails /\ boot # "down",
         \A id \in Range(accounts) \ Range(accounts') :
            /\ entries[id].email \notin EnvEmails
            /\ profile'[entries[id].email] = "gone" /\ Idle(tasks', entries[id].email),
         \A e \in Emails \ EnvEmails :
            profile[e] = "gone" /\ Idle(tasks, e) /\ e \notin Known(entries', accounts') =>
              profile'[e] = "gone" /\ Idle(tasks', e)
  PROVE  Unslashed' /\ Agrees(entries', accounts', file'.recs) /\ Unlisted'
  <1> DEFINE ents == entries'
             new == accounts'
             recs == file.recs
  <1>1. Unslashed'
    BY DEF FileInv, Unslashed
  <1>2. KeyInUse' = KeyInUse
    BY DEF KeyInUse
  <1>3. /\ \A id \in Range(accounts) \cap Range(new) : Same(ents, entries, id)
        /\ \A id \in Range(new) \ Range(accounts) : ents[id].email \in EnvEmails /\ boot # "down"
        /\ \A id \in Range(accounts) \ Range(new) : entries[id].email \notin EnvEmails
    OBVIOUS
  <1>4. Unlisted'
    <2> SUFFICES ASSUME boot # "down", NEW e \in Emails \ Known(ents, new), HasRecord(recs, e)
                 PROVE  e \notin EnvEmails /\ \/ profile'[e] = "gone" /\ Idle(tasks', e)
                                              \/ file.key # KeyInUse
      BY <1>2 DEF Unlisted
    <2>1. CASE e \in Known(entries, accounts)
      <3>1. PICK id \in Range(accounts) : entries[id].email = e
        BY <2>1 DEF Known
      <3>2. id \notin Range(new)
        BY <1>3, <3>1 DEF Known, Same
      <3>3. QED
        BY <3>1, <3>2
    <2>2. CASE e \notin Known(entries, accounts)
      BY <2>2 DEF FileInv, Unlisted
    <2>3. QED
      BY <2>1, <2>2
  <1> HIDE DEF ents, new
  <1>5. Agrees(ents, new, recs)
    <2> SUFFICES ASSUME NEW id \in Range(new), NEW i \in 1..Len(recs), ents[id].email = recs[i].email,
                        Sole(ents, new, id), SoleRecord(recs, i)
                 PROVE  ents[id].disabled = recs[i].disabled /\ ents[id].throttled = recs[i].throttled
      BY DEF Agrees
    <2>1. CASE id \in Range(accounts)
      <3>1. Same(ents, entries, id)
        BY <1>3, <2>1
      <3>2. ASSUME NEW k \in Range(accounts), entries[k].email = entries[id].email PROVE k = id
        <4>1. CASE k \in Range(new)
          BY <1>3, <3>1, <3>2, <4>1 DEF Same, Sole
        <4>2. CASE k \notin Range(new)
          BY <1>3, <2>1, <3>2, <4>2 DEF SharedInv, TwiceInv
        <4>3. QED
          BY <4>1, <4>2
      <3>3. Sole(entries, accounts, id)
        BY <3>2 DEF Sole
      <3>4. entries[id].disabled = recs[i].disabled /\ entries[id].throttled = recs[i].throttled
        BY <2>1, <3>1, <3>3 DEF FileInv, Agrees, Same
      <3>5. QED
        BY <3>1, <3>4 DEF Same
    <2>2. CASE id \notin Range(accounts)
      <3>1. ents[id].email \in EnvEmails /\ boot # "down"
        BY <1>3, <2>2
      <3>2. ents[id].email \in Known(entries, accounts)
        <4>1. HasRecord(recs, ents[id].email) /\ ents[id].email \in Emails
          BY <3>1, RegistryAssumption DEF HasRecord
        <4>2. QED
          BY <3>1, <4>1 DEF FileInv, Unlisted
      <3>3. PICK k \in Range(accounts) : entries[k].email = ents[id].email
        BY <3>2 DEF Known
      <3>4. k \in Range(new) /\ ents[k].email = ents[id].email
        BY <1>3, <3>1, <3>3 DEF Same
      <3>5. QED
        BY <2>2, <3>4 DEF Sole
    <2>3. QED
      BY <2>1, <2>2
  <1>6. QED
    BY <1>1, <1>4, <1>5 DEF ents, new

\* What a step does with the list: it keeps entries as given, drops only accounts without a
\* profile and adds only accounts of the environment.
Moves(now) ==
    /\ NoneSlashed(entries')
    /\ \A id \in Range(accounts) \cap Range(accounts') : Same(entries', now, id)
    /\ \A id \in Range(accounts) \ Range(accounts') :
          entries[id].email \notin EnvEmails /\ profile[entries[id].email] = "gone"
    /\ \A id \in Range(accounts') \ Range(accounts) : entries'[id].email \in EnvEmails

\* What it does with a profile: nobody is left to write one that is gone, unless the
\* account is listed and its profile made again.
Quieted ==
    \A e \in Emails \ EnvEmails :
        /\ profile[e] # "gone" /\ profile'[e] = "gone" => Idle(tasks', e)
        /\ profile[e] = "gone" /\ Idle(tasks, e) =>
             \/ profile'[e] = "gone" /\ Idle(tasks', e)
             \/ profile'[e] # "gone" /\ e \in Known(entries', accounts')

\* A step that saves the list as it was, with the given fields, or nothing.
Effect(now) ==
    /\ now \in [Ids -> Entry] /\ NoneSlashed(now)
    /\ \A id \in Range(accounts) : now[id].email = entries[id].email
    /\ Moves(now) /\ Quieted
    /\ apiKey' = apiKey
    /\ boot = "down" <=> boot' = "down"
    /\ accounts' = accounts \/ boot # "down"
    /\ \/ Saves(now, accounts) /\ boot # "down"
       \/ UNCHANGED <<file, masterKey>> /\ \A id \in Range(accounts) : Same(now, entries, id)

LEMMA EffectFile ==
  ASSUME SharedInv, FileInv, NEW now, Effect(now)
  PROVE  FileInv' /\ LosesOnly
  <1>1. accounts \in Seq(Ids) /\ TypeOK
    BY IndexedAre DEF SharedInv
  <1>2. /\ now \in [Ids -> Entry] /\ NoneSlashed(now) /\ NoneSlashed(entries') /\ Quieted
        /\ \A id \in Range(accounts) : now[id].email = entries[id].email
        /\ \A id \in Range(accounts) \cap Range(accounts') : Same(entries', now, id)
        /\ \A id \in Range(accounts) \ Range(accounts') :
              entries[id].email \notin EnvEmails /\ profile[entries[id].email] = "gone"
        /\ \A id \in Range(accounts') \ Range(accounts) : entries'[id].email \in EnvEmails
    BY DEF Effect, Moves
  <1>3. \A id \in Range(accounts) : entries[id].email \in Emails
    BY IndexedAre DEF Entry
  <1>4. ASSUME NEW id \in Range(accounts) \cap Range(accounts')
        PROVE  entries'[id].email = entries[id].email
    BY <1>2 DEF Same
  <1>5. ASSUME NEW id \in Range(accounts) \ Range(accounts')
        PROVE  /\ entries[id].email \notin EnvEmails
               /\ profile'[entries[id].email] = "gone" /\ Idle(tasks', entries[id].email)
    <2> DEFINE e == entries[id].email
    <2>1. e \in Emails \ EnvEmails /\ profile[e] = "gone" /\ e \in Known(entries, accounts)
      BY <1>2, <1>3 DEF Known
    <2>2. Idle(tasks, e)
      BY <2>1 DEF FileInv, Opened
    <2>3. e \notin Known(entries', accounts')
      <3> SUFFICES ASSUME NEW k \in Range(accounts'), entries'[k].email = e PROVE FALSE
        BY DEF Known
      <3>1. k \in Range(accounts)
        BY <1>2, <2>1
      <3>2. entries[k].email = e
        BY <1>4, <3>1
      <3>3. k = id
        BY <2>1, <3>1, <3>2 DEF SharedInv, TwiceInv
      <3>4. QED
        BY <3>3
    <2>4. QED
      BY <1>2, <2>1, <2>2, <2>3 DEF Quieted
  <1>6. Opened'
    <2> SUFFICES ASSUME NEW e \in Known(entries', accounts') \ EnvEmails, profile'[e] = "gone"
                 PROVE  Idle(tasks', e)
      BY DEF Opened
    <2>1. PICK id \in Range(accounts') : entries'[id].email = e
      BY DEF Known
    <2>2. id \in Range(accounts)
      BY <1>2, <2>1
    <2>3. e \in Known(entries, accounts) /\ e \in Emails
      BY <1>3, <1>4, <2>1, <2>2 DEF Known
    <2>4. profile[e] = "gone" => Idle(tasks, e)
      BY <2>3 DEF FileInv, Opened
    <2>5. QED
      BY <1>2, <2>3, <2>4 DEF Quieted
  <1>7. CASE Saves(now, accounts) /\ boot # "down"
    <2>1. \A id \in Range(accounts) \ Range(accounts') :
            /\ now[id].email \notin EnvEmails
            /\ profile'[now[id].email] = "gone" /\ Idle(tasks', now[id].email)
      BY <1>2, <1>5
    <2>2. /\ Unslashed' /\ Agrees(entries', accounts', file'.recs) /\ Unlisted'
          /\ \A e : HasRecord(file'.recs, e) <=> e \in Known(now, accounts)
      BY <1>1, <1>2, <1>7, <2>1, FileSaved
    <2>3. Known(now, accounts) = Known(entries, accounts)
      BY <1>2 DEF Known
    <2>4. LosesOnly
      BY <1>7, <2>2, <2>3 DEF LosesOnly, FileInv, Unlisted
    <2>5. QED
      BY <1>6, <2>2, <2>4 DEF FileInv
  <1>8. CASE UNCHANGED <<file, masterKey>> /\ \A id \in Range(accounts) : Same(now, entries, id)
    <2>1. UNCHANGED <<file, masterKey, apiKey>> /\ (boot' # "down" => boot # "down")
      BY <1>8 DEF Effect
    <2>2. \A id \in Range(accounts) \cap Range(accounts') : Same(entries', entries, id)
      BY <1>2, <1>8 DEF Same
    <2>3. \A id \in Range(accounts') \ Range(accounts) : entries'[id].email \in EnvEmails /\ boot # "down"
      BY <1>2 DEF Effect
    <2>4. \A e \in Emails \ EnvEmails :
            profile[e] = "gone" /\ Idle(tasks, e) /\ e \notin Known(entries', accounts') =>
              profile'[e] = "gone" /\ Idle(tasks', e)
      BY <1>2 DEF Quieted
    <2>5. Unslashed' /\ Agrees(entries', accounts', file'.recs) /\ Unlisted'
      BY <1>2, <1>5, <2>1, <2>2, <2>3, <2>4, FileStays
    <2>6. LosesOnly
      BY <2>1 DEF LosesOnly
    <2>7. QED
      BY <1>6, <2>5, <2>6 DEF FileInv
  <1>9. QED
    BY <1>7, <1>8 DEF Effect

\* An account is listed only while a process runs.
LEMMA UpWhereListed ==
  ASSUME SharedInv', NEW e \in Emails, Listed(e)'
  PROVE  boot' # "down" /\ \E id \in Range(accounts') : entries'[id].email = e
  <1>1. accounts' \in Seq(Ids)
    BY TypesNext DEF SharedInv, Typed
  <1>2. Found(entries', accounts', e) # 0
    BY DEF Listed
  <1>3. e \in Known(entries', accounts')
    BY <1>1, <1>2, FoundFirst
  <1>4. accounts' # <<>>
    BY <1>3 DEF Known, Range
  <1>5. QED
    BY <1>3, <1>4 DEF SharedInv, BootInv, Known

\* Flags stay as they are where the listed entries keep theirs.
FlagsHeld(now) == \A id \in Range(accounts) : now[id].disabled = entries[id].disabled

LEMMA EffectFlag ==
  ASSUME SharedInv, SharedInv', NEW now, Effect(now), FlagsHeld(now)
  PROVE  FlagStays
  <1> SUFFICES ASSUME NEW e \in Emails, Off(e), ~Off(e)', Listed(e)' PROVE FALSE
    BY DEF FlagStays
  <1>1. boot' # "down" /\ boot # "down" /\ \E id \in Range(accounts') : entries'[id].email = e
    BY UpWhereListed DEF Effect
  <1>2. PICK id \in Range(accounts) : entries[id].email = e /\ entries[id].disabled
    BY <1>1 DEF Off
  <1>3. id \notin Range(accounts')
    <2>1. id \in Range(accounts') => entries'[id].email = e /\ entries'[id].disabled
      BY <1>2 DEF Effect, Moves, Same, FlagsHeld
    <2>2. QED
      BY <1>1, <2>1 DEF Off
  <1>4. e \notin EnvEmails
    BY <1>2, <1>3 DEF Effect, Moves
  <1>5. PICK k \in Range(accounts') : entries'[k].email = e
    BY <1>1
  <1>6. k \in Range(accounts) /\ entries[k].email = e
    BY <1>4, <1>5 DEF Effect, Moves, Same
  <1>7. k = id
    BY <1>2, <1>4, <1>6 DEF SharedInv, TwiceInv
  <1>8. QED
    BY <1>3, <1>7

\* The parts of which the operations are made.
LEMMA PutMoves ==
  ASSUME SharedInv, NEW ents \in [Ids -> Entry], NoneSlashed(ents),
         NEW ts, NEW sl, Put(ents, accounts, ts, sl)
  PROVE  Moves(ents)
  <1>1. accounts \in Seq(Ids)
    BY IndexedAre
  <1>2. accounts' = accounts /\ entries' = Swept(ents, accounts, ts, sl)
    BY DEF Put
  <1>3. /\ \A id \in Range(accounts) : entries'[id] = ents[id]
        /\ \A id \in Ids : entries'[id] \in {ents[id], Unused}
    BY <1>1, <1>2, SweptIs
  <1>4. NoneSlashed(entries')
    BY <1>3, UnusedIs DEF NoneSlashed
  <1>5. QED
    BY <1>2, <1>3, <1>4 DEF Moves, Same

LEMMA ReloadedMoves ==
  ASSUME SharedInv, NEW ents \in [Ids -> Entry], NoneSlashed(ents),
         \A id \in Range(accounts) : ents[id].email = entries[id].email,
         NEW new \in Seq(Ids), NEW ts,
         new = accounts \/ \E id \in Ids : new = Append(accounts, id) /\ ents[id].email \in EnvEmails,
         Reloaded(ents, new, ts)
  PROVE  Moves(ents)
  <1> DEFINE list == Only(new, {id \in Ids : Stays(ents, id)})
  <1>1. accounts \in Seq(Ids) /\ Range(accounts) \subseteq Ids
    BY IndexedAre
  <1>2. list \in Seq(Ids) /\ Range(list) = Range(new) \cap {id \in Ids : Stays(ents, id)}
    BY OnlyAre
  <1>3. Range(accounts) \subseteq Range(new) /\ \A id \in Range(new) \ Range(accounts) : ents[id].email \in EnvEmails
    <2>1. \A id \in Ids : Range(Append(accounts, id)) = Range(accounts) \cup {id}
      BY <1>1, AppendIs
    <2>2. QED
      BY <2>1
  <1>4. Put(ents, list, ts, slot)
    BY DEF Reloaded
  <1> HIDE DEF list
  <1>5. accounts' = list /\ entries' = Swept(ents, list, ts, slot)
    BY <1>4 DEF Put
  <1>6. /\ \A id \in Range(list) : entries'[id] = ents[id]
        /\ \A id \in Ids : entries'[id] \in {ents[id], Unused}
    BY <1>2, <1>5, SweptIs
  <1>7. NoneSlashed(entries')
    BY <1>6, UnusedIs DEF NoneSlashed
  <1>8. ASSUME NEW id \in Range(accounts) \ Range(accounts')
        PROVE  entries[id].email \notin EnvEmails /\ profile[entries[id].email] = "gone"
    BY <1>1, <1>2, <1>3, <1>5 DEF Stays
  <1>9. QED
    BY <1>2, <1>3, <1>5, <1>6, <1>7, <1>8 DEF Moves, Same

\* An operation leaves nobody to write a profile, unless it was about to write it itself.
Leaves == \A e : Idle(tasks, e) => Idle(tasks', e)

LEMMA ReturnsMoves ==
  ASSUME SharedInv, NEW t \in tasks, NEW ok \in BOOLEAN, NEW ents \in [Ids -> Entry],
         NoneSlashed(ents), \A id \in Ids : ents[id].email = entries[id].email,
         Returns(t, ok, ents)
  PROVE  Moves(ents) /\ Leaves
  <1> DEFINE got == IF ok THEN [ents EXCEPT ![t.entry].token = TRUE] ELSE ents
             rest == tasks \ {t}
             more == rest \cup {[t EXCEPT !.at = "signin", !.acct = 0]}
             new == Append(accounts, t.entry)
  <1>1. /\ accounts \in Seq(Ids) /\ Range(accounts) \subseteq Ids /\ tasks \subseteq TaskSet
    BY IndexedAre
  <1>2. t \in TaskSet /\ t.entry \in Ids
    BY <1>1, TaskFields
  <1>3. got \in [Ids -> Entry]
    BY <1>2, EntryFields
  <1>4. \A id \in Ids : Same(got, ents, id) /\ got[id].slashed = ents[id].slashed
    BY <1>2 DEF Same, Entry
  <1>5. [t EXCEPT !.at = "signin", !.acct = 0].at = "signin"
    BY <1>2 DEF TaskSet
  <1>6. \/ t.kind = "reload" /\ Reloaded(got, new, rest)
        \/ Put(got, accounts, more, slot)
        \/ Put(got, accounts, rest, slot)
    BY DEF Returns
  <1>7. NoneSlashed(got)
    <2> HIDE DEF got
    <2>1. QED
      BY <1>4 DEF NoneSlashed
  <1>8. Moves(got)
    <2>1. CASE t.kind = "reload" /\ Reloaded(got, new, rest)
      <3>1. t.email \in EnvEmails /\ entries[t.entry].email = t.email
        BY <2>1 DEF SharedInv, ReloadsAre
      <3>2. new \in Seq(Ids) /\ \E id \in Ids : new = Append(accounts, id) /\ got[id].email \in EnvEmails
        <4> HIDE DEF got
        <4>1. got[t.entry].email \in EnvEmails
          BY <1>2, <1>4, <3>1 DEF Same
        <4>2. QED
          BY <1>1, <1>2, <4>1, AppendIs
      <3>3. \A id \in Range(accounts) : got[id].email = entries[id].email
        <4> HIDE DEF got
        <4>1. QED
          BY <1>1, <1>4 DEF Same
      <3> HIDE DEF got, new, rest
      <3>4. QED
        BY <1>3, <1>7, <2>1, <3>2, <3>3, ReloadedMoves
    <2>2. CASE Put(got, accounts, more, slot) \/ Put(got, accounts, rest, slot)
      <3> HIDE DEF got, more, rest
      <3>1. QED
        BY <1>3, <1>7, <2>2, PutMoves
    <2>3. QED
      BY <1>6, <2>1, <2>2
  <1>9. Moves(ents)
    <2> HIDE DEF got
    <2>1. QED
      BY <1>1, <1>4, <1>8 DEF Moves, Same
  <1>10. Leaves
    <2>1. tasks' = rest \/ tasks' = more
      BY <1>6 DEF Reloaded, Put
    <2>2. QED
      BY <1>5, <2>1 DEF Leaves, Idle
  <1>11. QED
    BY <1>9, <1>10

LEMMA AfterMoves ==
  ASSUME SharedInv, NEW t \in tasks, t.at # "signin", NEW loggedIn \in BOOLEAN, NEW ents \in [Ids -> Entry],
         NoneSlashed(ents), \A id \in Ids : ents[id].email = entries[id].email,
         After(t, loggedIn, ents)
  PROVE  Moves(ents) /\ Leaves
  <1> DEFINE updated == Found(ents, accounts, t.email)
             acct == IF t.at = "create" THEN t.acct ELSE updated
             ok == loggedIn /\ acct # 0 /\ ents[acct].token
             next == [t EXCEPT !.at = "reading", !.acct = updated]
  <1>1. accounts \in Seq(Ids) /\ Range(accounts) \subseteq Ids /\ tasks \subseteq TaskSet
    BY IndexedAre
  <1>2. updated \in Ids \cup {0}
    BY <1>1, FoundIn
  <1>3. t \in TaskSet /\ t.acct \in Ids \cup {0}
    BY <1>1, TaskFields
  <1>4. next.email = t.email
    BY <1>3 DEF TaskSet
  <1>5. ok \in BOOLEAN
    <2>1. acct \in Ids \cup {0}
      BY <1>2, <1>3
    <2> HIDE DEF acct
    <2>2. acct # 0 => ents[acct].token \in BOOLEAN
      BY <2>1 DEF Entry
    <2>3. QED
      BY <2>2
  <1>6. \/ /\ tasks' = (tasks \ {t}) \cup {next}
           /\ entries' = ents /\ accounts' = accounts
        \/ Returns(t, ok, ents)
    BY DEF After
  <1> HIDE DEF next, ok
  <1>7. CASE Returns(t, ok, ents)
    BY <1>5, <1>7, ReturnsMoves
  <1>8. CASE tasks' = (tasks \ {t}) \cup {next} /\ entries' = ents /\ accounts' = accounts
    BY <1>4, <1>8 DEF Moves, Same, Leaves, Idle
  <1>9. QED
    BY <1>6, <1>7, <1>8

\* Entries of which only the token, the cooldown and the slots differ.
SameFlags(ents) ==
    /\ ents \in [Ids -> Entry] /\ NoneSlashed(ents)
    /\ \A id \in Ids : ents[id].email = entries[id].email /\ ents[id].disabled = entries[id].disabled

LEMMA CookiesFlags ==
  ASSUME SharedInv, NEW ents, SameFlags(ents), NEW e \in Emails
  PROVE  /\ SameFlags(WithCookies(ents, accounts, e))
         /\ Found(entries, accounts, e) = 0 => WithCookies(ents, accounts, e) = ents
  <1>1. accounts \in Seq(Ids) /\ Range(accounts) \subseteq Ids
    BY IndexedAre
  <1>2. SameFlags(WithCookies(ents, accounts, e))
    BY <1>1, CookiesAre DEF SameFlags, NoneSlashed
  <1>3. Known(ents, accounts) = Known(entries, accounts)
    BY <1>1 DEF SameFlags, Known
  <1>4. Found(ents, accounts, e) = 0 <=> Found(entries, accounts, e) = 0
    BY <1>1, <1>3, FoundFirst
  <1>5. QED
    BY <1>1, <1>2, <1>4, CookiesAre DEF SameFlags

\* An operation writes a profile only while it has a browser open.
Writes(t) ==
    \/ profile' = profile
    \/ t.at # "signin" /\ \E state \in Profiles \ {"gone"} : profile' = Written(t.email, state)

LEMMA TaskEffects ==
  ASSUME SharedInv, FileInv, NEW t \in tasks, Leaves, Writes(t), UNCHANGED <<boot, apiKey>>,
         NEW now, SameFlags(now), Moves(now),
         Saves(now, accounts) \/ (NoSave /\ \A id \in Ids : Same(now, entries, id))
  PROVE  Effect(now) /\ FlagsHeld(now)
  <1>1. Range(accounts) \subseteq Ids /\ profile \in [Emails -> Profiles]
    BY IndexedAre, TypesAre DEF SharedInv, Typed
  <1>2. boot # "down"
    BY DEF SharedInv, BootInv
  <1>3. ASSUME NEW e \in Emails
        PROVE  \/ profile'[e] = profile[e]
               \/ profile'[e] # "gone" /\ ~Idle(tasks, e)
    <2>1. CASE profile' = profile
      BY <2>1
    <2>2. ASSUME t.at # "signin", NEW state \in Profiles \ {"gone"}, profile' = Written(t.email, state)
          PROVE  \/ profile'[e] = profile[e]
                 \/ profile'[e] # "gone" /\ ~Idle(tasks, e)
      BY <1>1, <2>2 DEF Written, Idle
    <2>3. QED
      BY <2>1, <2>2 DEF Writes
  <1>4. Quieted
    BY <1>3 DEF Quieted, Leaves
  <1>5. QED
    BY <1>1, <1>2, <1>4 DEF Effect, SameFlags, FlagsHeld, NoSave

LEMMA TaskEffect ==
  ASSUME SharedInv, FileInv, ~SlashedCookies, TaskStep
  PROVE  \E now : Effect(now) /\ FlagsHeld(now)
  <1>1. /\ accounts \in Seq(Ids) /\ Range(accounts) \subseteq Ids /\ tasks \subseteq TaskSet
        /\ entries \in [Ids -> Entry]
    BY IndexedAre
  <1>2. PICK t \in tasks : \/ ReadFails(t) \/ ReadBlank(t) \/ ReadCookies(t)
                           \/ LogsIn(t) \/ IsLoggedIn(t) \/ LoginFails(t)
                           \/ SignsIn(t) \/ SignInFails(t)
    BY DEF TaskStep
  <1>3. UNCHANGED <<boot, apiKey>>
    BY DEF TaskStep
  <1>4. t \in TaskSet /\ t.entry \in Ids /\ t.acct \in Ids \cup {0} /\ t.email \in Emails
    BY <1>1, TaskFields
  <1>5. SameFlags(entries) /\ \A id \in Ids : Same(entries, entries, id)
    BY <1>1 DEF SameFlags, Same, FileInv, Unslashed
  <1> DEFINE rest == tasks \ {t}
             cook == WithCookies(entries, accounts, t.email)
  <1>6. SameFlags(cook) /\ (Found(entries, accounts, t.email) = 0 => cook = entries)
    BY <1>4, <1>5, CookiesFlags
  <1>7. tasks' = rest => Leaves
    BY DEF Leaves, Idle
  <1> HIDE DEF rest, cook
  <1> SUFFICES \E now : /\ SameFlags(now) /\ Moves(now) /\ Leaves /\ Writes(t)
                        /\ Saves(now, accounts) \/ (NoSave /\ \A id \in Ids : Same(now, entries, id))
    BY <1>3, TaskEffects
  <1>8. CASE ReadFails(t)
    <2>1. Returns(t, FALSE, entries) /\ NoSave /\ profile' = profile
      BY <1>8 DEF ReadFails
    <2>2. Moves(entries) /\ Leaves
      BY <1>5, <2>1, ReturnsMoves DEF SameFlags
    <2>3. QED
      BY <1>5, <2>1, <2>2 DEF Writes
  <1>9. CASE ReadBlank(t)
    <2> DEFINE next == [t EXCEPT !.at = "authorize"]
    <2>1. /\ t.at = "reading" /\ NoSave /\ profile' = profile
          /\ \/ tasks' = (tasks \ {t}) \cup {next} /\ UNCHANGED <<entries, accounts, emailIndex, slot>>
             \/ Returns(t, FALSE, entries)
      BY <1>9 DEF ReadBlank
    <2>2. next.email = t.email
      BY <1>4 DEF TaskSet
    <2> HIDE DEF next
    <2>3. Moves(entries) /\ Leaves
      <3>1. CASE Returns(t, FALSE, entries)
        BY <1>5, <3>1, ReturnsMoves DEF SameFlags
      <3>2. CASE tasks' = (tasks \ {t}) \cup {next} /\ UNCHANGED <<entries, accounts, emailIndex, slot>>
        BY <1>1, <1>5, <2>1, <2>2, <3>2 DEF Moves, Same, Leaves, Idle, SameFlags
      <3>3. QED
        BY <2>1, <3>1, <3>2
    <2>4. QED
      BY <1>5, <2>1, <2>3 DEF Writes
  <1>10. CASE ReadCookies(t)
    <2> DEFINE signed == profile[t.email] = "signed"
               kept == IF t.acct = 0 THEN entries
                       ELSE [entries EXCEPT ![t.acct].slashed = FALSE]
               now == IF signed THEN WithCookies(kept, accounts, t.email) ELSE kept
    <2>1. /\ Returns(t, signed, now) /\ profile' = profile
          /\ IF t.acct # 0 \/ (signed /\ Found(entries, accounts, t.email) # 0)
             THEN Saves(now, accounts)
             ELSE NoSave
      BY <1>10 DEF ReadCookies
    <2>2. SameFlags(kept)
      <3>1. kept \in [Ids -> Entry]
        BY <1>1, <1>4, EntryFields
      <3>2. QED
        BY <1>1, <1>4, <1>5, <3>1 DEF SameFlags, NoneSlashed, Entry
    <2>3. t.acct = 0 => kept = entries
      OBVIOUS
    <2>4. signed \in BOOLEAN
      OBVIOUS
    <2> HIDE DEF kept, signed
    <2>5. SameFlags(now) /\ (t.acct = 0 /\ (~signed \/ Found(entries, accounts, t.email) = 0) => now = entries)
      BY <1>4, <2>2, <2>3, CookiesFlags
    <2> HIDE DEF now
    <2>6. Moves(now) /\ Leaves
      BY <2>1, <2>4, <2>5, ReturnsMoves DEF SameFlags
    <2>7. Saves(now, accounts) \/ (NoSave /\ \A id \in Ids : Same(now, entries, id))
      BY <1>5, <2>1, <2>5
    <2>8. QED
      BY <2>1, <2>5, <2>6, <2>7 DEF Writes
  <1>11. CASE LogsIn(t)
    <2>1. /\ t.at # "signin" /\ After(t, TRUE, cook) /\ profile' = Written(t.email, "signed")
          /\ IF Found(entries, accounts, t.email) # 0 THEN Saves(cook, accounts) ELSE NoSave
      BY <1>11 DEF LogsIn, cook
    <2>2. Moves(cook) /\ Leaves
      BY <1>6, <2>1, AfterMoves DEF SameFlags
    <2>3. Writes(t)
      BY <2>1 DEF Writes, Profiles
    <2>4. QED
      BY <1>5, <1>6, <2>1, <2>2, <2>3
  <1>12. CASE IsLoggedIn(t) \/ LoginFails(t)
    <2>1. /\ t.at # "signin" /\ NoSave /\ \E b \in BOOLEAN : After(t, b, entries)
          /\ profile' = profile \/ profile' = Written(t.email, "blank")
      BY <1>12 DEF IsLoggedIn, LoginFails
    <2>2. Moves(entries) /\ Leaves
      BY <1>5, <2>1, AfterMoves DEF SameFlags
    <2>3. Writes(t)
      BY <2>1 DEF Writes, Profiles
    <2>4. QED
      BY <1>5, <2>1, <2>2, <2>3
  <1>13. CASE SignsIn(t)
    <2> DEFINE got == [entries EXCEPT ![t.entry].token = TRUE]
               now == IF t.kind = "boot" THEN WithCookies(got, accounts, t.email) ELSE got
    <2>1. /\ Put(now, accounts, rest, slot) /\ profile' = profile
          /\ IF t.kind = "boot" /\ Found(entries, accounts, t.email) # 0 THEN Saves(now, accounts) ELSE NoSave
      BY <1>13 DEF SignsIn, rest
    <2>2. SameFlags(got) /\ \A id \in Ids : Same(got, entries, id)
      <3>1. got \in [Ids -> Entry]
        BY <1>1, <1>4, EntryFields
      <3>2. QED
        BY <1>1, <1>4, <1>5, <3>1 DEF SameFlags, NoneSlashed, Same, Entry
    <2> HIDE DEF got
    <2>3. SameFlags(now) /\ (t.kind # "boot" \/ Found(entries, accounts, t.email) = 0 => now = got)
      BY <1>4, <2>2, CookiesFlags
    <2> HIDE DEF now
    <2>4. Moves(now)
      BY <2>1, <2>3, PutMoves DEF SameFlags
    <2>5. Leaves
      BY <1>7, <2>1 DEF Put
    <2>6. Saves(now, accounts) \/ (NoSave /\ \A id \in Ids : Same(now, entries, id))
      BY <2>1, <2>2, <2>3
    <2>7. QED
      BY <2>1, <2>3, <2>4, <2>5, <2>6 DEF Writes
  <1>14. CASE SignInFails(t)
    <2>1. Put(entries, accounts, rest, slot) /\ NoSave /\ profile' = profile
      BY <1>14 DEF SignInFails, rest
    <2>2. Moves(entries)
      BY <1>5, <2>1, PutMoves DEF SameFlags
    <2>3. Leaves
      BY <1>7, <2>1 DEF Put
    <2>4. QED
      BY <1>5, <2>1, <2>2, <2>3 DEF Writes
  <1>15. QED
    BY <1>2, <1>8, <1>9, <1>10, <1>11, <1>12, <1>13, <1>14

\* A reload saves nothing, drops accounts without a profile and may list one of the environment.
LEMMA ReloadEffect ==
  ASSUME SharedInv, FileInv, Reload
  PROVE  \E now : Effect(now) /\ FlagsHeld(now)
  <1>1. /\ accounts \in Seq(Ids) /\ Range(accounts) \subseteq Ids /\ tasks \subseteq TaskSet
        /\ entries \in [Ids -> Entry] /\ profile \in [Emails -> Profiles]
    BY IndexedAre, TypesAre DEF SharedInv, Typed
  <1>2. boot # "down" /\ UNCHANGED <<boot, apiKey>>
    BY DEF Reload, SharedInv, BootInv, keyVars
  <1>3. NoneSlashed(entries)
    BY DEF FileInv, Unslashed
  <1>4. \A e \in EnvEmails : e \in Emails
    BY RegistryAssumption
  <1>5. ASSUME NEW now \in [Ids -> Entry], NoneSlashed(now), Moves(now),
               \A id \in Range(accounts) : now[id] = entries[id],
               \A e \in Emails \ EnvEmails : profile'[e] = profile[e],
               \A t \in tasks' : t \in tasks \/ t.email \in EnvEmails
        PROVE  Effect(now) /\ FlagsHeld(now)
    <2>1. Quieted
      BY <1>5 DEF Quieted, Idle
    <2>2. UNCHANGED <<file, masterKey>>
      BY DEF Reload, keyVars
    <2>3. \A id \in Range(accounts) : Same(now, entries, id)
      BY <1>5 DEF Same
    <2>4. QED
      BY <1>2, <1>5, <2>1, <2>2, <2>3 DEF Effect, FlagsHeld
  <1>6. CASE UNCHANGED <<entries, accounts, emailIndex, profile, tasks, slot>>
    <2>1. Moves(entries)
      BY <1>3, <1>6 DEF Moves, Same
    <2>2. QED
      BY <1>1, <1>3, <1>5, <1>6, <2>1
  <1>7. CASE Reloaded(entries, accounts, tasks) /\ UNCHANGED profile
    <2>1. Moves(entries) /\ tasks' = tasks
      BY <1>1, <1>3, <1>7, ReloadedMoves DEF Reloaded, Put
    <2>2. QED
      BY <1>1, <1>3, <1>5, <1>7, <2>1
  <1>8. CASE /\ FreeIds # {}
             /\ \E e \in Missing :
                   LET id == Min(FreeIds)
                       ents == [entries EXCEPT ![id] = NewEntry(e)]
                   IN /\ profile' = [profile EXCEPT ![e] = WithDir(e)]
                      /\ IF profile[e] \in {"gone", "none"}
                         THEN Reloaded(ents, Append(accounts, id), tasks)
                         ELSE /\ tasks' = tasks \cup {LoadTask("reload", e, id, 0)}
                              /\ entries' = ents
                              /\ UNCHANGED <<accounts, emailIndex, slot>>
    <2> DEFINE id == Min(FreeIds)
               Ents(e) == [entries EXCEPT ![id] = NewEntry(e)]
    <2>1. PICK e \in Missing :
            /\ profile' = [profile EXCEPT ![e] = WithDir(e)]
            /\ \/ Reloaded(Ents(e), Append(accounts, id), tasks)
               \/ /\ tasks' = tasks \cup {LoadTask("reload", e, id, 0)}
                  /\ entries' = Ents(e)
                  /\ accounts' = accounts
      BY <1>8
    <2>2. e \in EnvEmails /\ e \in Emails
      BY <1>4 DEF Missing
    <2>3. id \in Ids \ Range(accounts)
      BY <1>8, FreeIs DEF SharedInv
    <2> HIDE DEF id
    <2> DEFINE ents == Ents(e)
    <2>4. ents \in [Ids -> Entry]
      BY <1>1, <2>2, <2>3, NewEntryIs, EntryFields
    <2>5. ents[id] = NewEntry(e) /\ \A k \in Ids \ {id} : ents[k] = entries[k]
      BY <1>1, <2>3
    <2> HIDE DEF ents
    <2>6. NoneSlashed(ents) /\ ents[id].email = e
      BY <1>3, <2>2, <2>5, NewEntryIs DEF NoneSlashed
    <2>7. \A x \in Range(accounts) : ents[x] = entries[x]
      BY <1>1, <2>3, <2>5
    <2>8. \A x \in Emails \ EnvEmails : profile'[x] = profile[x]
      BY <1>1, <2>1, <2>2
    <2>9. CASE Reloaded(ents, Append(accounts, id), tasks)
      <3> DEFINE new == Append(accounts, id)
      <3>1. new \in Seq(Ids) /\ \E k \in Ids : new = Append(accounts, k) /\ ents[k].email \in EnvEmails
        BY <1>1, <2>2, <2>3, <2>6, AppendIs
      <3>2. Reloaded(ents, new, tasks)
        BY <2>9
      <3> HIDE DEF new
      <3>3. Moves(ents) /\ tasks' = tasks
        BY <2>4, <2>6, <2>7, <3>1, <3>2, ReloadedMoves DEF Reloaded, Put
      <3>4. QED
        BY <1>5, <2>4, <2>6, <2>7, <2>8, <3>3
    <2>10. CASE /\ tasks' = tasks \cup {LoadTask("reload", e, id, 0)}
                /\ entries' = ents /\ accounts' = accounts
      <3>1. LoadTask("reload", e, id, 0).email = e
        BY DEF LoadTask, Task
      <3>2. Moves(ents)
        BY <2>6, <2>10 DEF Moves, Same
      <3>3. QED
        BY <1>5, <2>2, <2>4, <2>6, <2>7, <2>8, <2>10, <3>1, <3>2
    <2>11. QED
      BY <2>1, <2>9, <2>10 DEF ents
  <1>9. QED
    BY <1>6, <1>7, <1>8 DEF Reload

\* Steps that save nothing and keep the list, its flags and its cooldowns.
LEMMA KeepsEffect ==
  ASSUME SharedInv, FileInv, UNCHANGED <<accounts, file, masterKey, apiKey>>,
         boot = "down" <=> boot' = "down", NoneSlashed(entries'),
         \A id \in Range(accounts) : Same(entries', entries, id), Quieted
  PROVE  Effect(entries) /\ FlagsHeld(entries)
  <1>1. entries \in [Ids -> Entry] /\ NoneSlashed(entries)
    BY IndexedAre DEF FileInv, Unslashed
  <1>2. QED
    BY <1>1 DEF Effect, FlagsHeld, Moves, Same

LEMMA QuietEffect ==
  ASSUME SharedInv, FileInv,
         \/ BootLogins \/ BootDone \/ WatcherReady \/ WatcherFails \/ WatcherRetries
         \/ \E e \in Emails : LoginAccount(e) \/ DeleteProfile(e) \/ TokenExpires(e)
         \/ \E r \in Requests : PickAccount(r) \/ EndRequest(r)
         \/ UNCHANGED vars
  PROVE  Effect(entries) /\ FlagsHeld(entries)
  <1>1. /\ accounts \in Seq(Ids) /\ Range(accounts) \subseteq Ids /\ tasks \subseteq TaskSet
        /\ entries \in [Ids -> Entry] /\ profile \in [Emails -> Profiles] /\ NoneSlashed(entries)
    BY IndexedAre, TypesAre DEF SharedInv, Typed, FileInv, Unslashed
  <1>2. ASSUME UNCHANGED <<profile, tasks>> PROVE Quieted
    BY <1>2 DEF Quieted
  <1>3. ASSUME UNCHANGED entries
        PROVE  NoneSlashed(entries') /\ \A id \in Range(accounts) : Same(entries', entries, id)
    BY <1>1, <1>3 DEF Same
  <1>4. CASE BootLogins
    <2>1. /\ UNCHANGED <<entries, accounts, file, masterKey, apiKey, profile>>
          /\ boot = "profiles" /\ boot' = "logins"
          /\ tasks' = tasks \cup {Task("boot", entries[id].email, id, 0, "signin") :
                                    id \in {i \in Range(accounts) : ~entries[i].token}}
      BY <1>4 DEF BootLogins, keyVars
    <2>2. Quieted
      BY <2>1 DEF Quieted, Idle, Task
    <2>3. QED
      BY <1>3, <2>1, <2>2, KeepsEffect
  <1>5. CASE BootDone \/ WatcherReady \/ WatcherFails \/ WatcherRetries \/ UNCHANGED vars
    <2>1. /\ UNCHANGED <<entries, accounts, file, masterKey, apiKey, profile, tasks>>
          /\ boot = "down" <=> boot' = "down"
      BY <1>5 DEF BootDone, WatcherReady, WatcherFails, WatcherRetries, vars, keyVars
    <2>2. QED
      BY <1>2, <1>3, <2>1, KeepsEffect
  <1>6. ASSUME NEW e \in Emails, LoginAccount(e) PROVE Effect(entries) /\ FlagsHeld(entries)
    <2>1. /\ UNCHANGED <<boot, entries, accounts, file, masterKey, apiKey>> /\ ByEmail(e) # 0
          /\ tasks' = tasks \cup {Task("login", e, ByEmail(e), 0, "open")}
          /\ profile' = [profile EXCEPT ![e] = WithDir(e)]
      BY <1>6 DEF LoginAccount, keyVars
    <2>2. profile'[e] # "gone" /\ e \in Known(entries, accounts)
      BY <1>1, <2>1, IndexedAre DEF WithDir
    <2>3. \A x \in Emails \ {e} : profile'[x] = profile[x] /\ (Idle(tasks, x) => Idle(tasks', x))
      BY <1>1, <2>1 DEF Idle, Task
    <2>4. Quieted
      BY <2>1, <2>2, <2>3 DEF Quieted
    <2>5. QED
      BY <1>3, <2>1, <2>4, KeepsEffect
  <1>7. ASSUME NEW e \in Emails, DeleteProfile(e) PROVE Effect(entries) /\ FlagsHeld(entries)
    <2>1. /\ UNCHANGED <<boot, entries, accounts, file, masterKey, apiKey, tasks>>
          /\ \A t \in tasks : t.email # e
          /\ profile' = [profile EXCEPT ![e] = "gone"]
      BY <1>7 DEF DeleteProfile, keyVars
    <2>2. Quieted
      BY <1>1, <2>1 DEF Quieted, Idle
    <2>3. QED
      BY <1>3, <2>1, <2>2, KeepsEffect
  <1>8. ASSUME NEW e \in Emails, TokenExpires(e) PROVE Effect(entries) /\ FlagsHeld(entries)
    <2>1. /\ UNCHANGED <<boot, entries, accounts, file, masterKey, apiKey, tasks>>
          /\ profile[e] = "signed" /\ profile' = [profile EXCEPT ![e] = "expired"]
      BY <1>8 DEF TokenExpires, keyVars
    <2>2. Quieted
      BY <1>1, <2>1 DEF Quieted
    <2>3. QED
      BY <1>3, <2>1, <2>2, KeepsEffect
  <1>9. ASSUME NEW r \in Requests, PickAccount(r) PROVE Effect(entries) /\ FlagsHeld(entries)
    <2>1. PICK id \in Range(accounts) : entries' = [entries EXCEPT ![id].inFlight = @ + 1]
      BY <1>9 DEF PickAccount
    <2>2. UNCHANGED <<boot, accounts, file, masterKey, apiKey, profile, tasks>>
      BY <1>9 DEF PickAccount, keyVars
    <2>3. \A k \in Ids : Same(entries', entries, k) /\ entries'[k].slashed = entries[k].slashed
      BY <1>1, <2>1 DEF Same, Entry
    <2>4. QED
      BY <1>1, <1>2, <2>2, <2>3, KeepsEffect DEF NoneSlashed
  <1>10. ASSUME NEW r \in Requests, EndRequest(r) PROVE Effect(entries) /\ FlagsHeld(entries)
    <2> DEFINE e == entries[slot[r]].email
               id == ByEmail(e)
               ents == DecrementInFlight(e)
               sl == [slot EXCEPT ![r] = 0]
    <2>1. /\ slot[r] # 0 /\ Put(ents, accounts, tasks, sl)
          /\ UNCHANGED <<boot, file, masterKey, apiKey, profile>>
      BY <1>10 DEF EndRequest, keyVars
    <2>2. id \in Ids \cup {0}
      BY <1>1, <2>1, SlotEmail, IndexedAre DEF SharedInv
    <2>3. ents = entries \/ /\ id # 0 /\ entries[id].inFlight > 0
                            /\ ents = [entries EXCEPT ![id].inFlight = @ - 1]
      BY DEF DecrementInFlight
    <2> HIDE DEF id, e, ents
    <2>4. /\ ents \in [Ids -> Entry]
          /\ \A k \in Ids : Same(ents, entries, k) /\ ents[k].slashed = entries[k].slashed
      <3>1. CASE ents = entries
        BY <1>1, <3>1 DEF Same
      <3>2. CASE /\ id # 0 /\ entries[id].inFlight > 0
                 /\ ents = [entries EXCEPT ![id].inFlight = @ - 1]
        <4>1. id \in Ids /\ entries[id].inFlight - 1 \in Nat
          BY <1>1, <2>2, <3>2 DEF Entry
        <4>2. ents \in [Ids -> Entry]
          BY <1>1, <3>2, <4>1, EntryFields
        <4>3. \A k \in Ids : Same(ents, entries, k) /\ ents[k].slashed = entries[k].slashed
          BY <1>1, <3>2, <4>1 DEF Same, Entry
        <4>4. QED
          BY <4>2, <4>3
      <3>3. QED
        BY <2>3, <3>1, <3>2
    <2>5. NoneSlashed(ents)
      BY <1>1, <2>4 DEF NoneSlashed
    <2>6. Moves(ents) /\ UNCHANGED <<accounts, tasks>>
      BY <2>1, <2>4, <2>5, PutMoves DEF Put
    <2>7. NoneSlashed(entries') /\ \A k \in Range(accounts) : Same(entries', entries, k)
      BY <1>1, <2>4, <2>6 DEF Moves, Same
    <2>8. QED
      BY <1>2, <2>1, <2>6, <2>7, KeepsEffect
  <1>11. QED
    BY <1>4, <1>5, <1>6, <1>7, <1>8, <1>9, <1>10

\* Steps that save a changed field of the entry an index leads to.
LEMMA FieldEffect ==
  ASSUME SharedInv, FileInv, UNCHANGED <<boot, accounts, apiKey, profile, tasks>>, boot # "down",
         NEW ents \in [Ids -> Entry], entries' = ents, Saves(ents, accounts),
         \A k \in Ids : ents[k].email = entries[k].email /\ ents[k].slashed = entries[k].slashed
  PROVE  Effect(ents)
  <1>1. Range(accounts) \subseteq Ids
    BY IndexedAre
  <1>2. NoneSlashed(ents)
    BY DEF FileInv, Unslashed, NoneSlashed
  <1>3. Quieted
    BY DEF Quieted
  <1>4. QED
    BY <1>1, <1>2, <1>3 DEF Effect, Moves, Same

LEMMA DisableFile ==
  ASSUME SharedInv, SharedInv', FileInv, NEW x \in Emails, NEW value \in BOOLEAN, SetAccountDisabled(x, value)
  PROVE  FileInv' /\ LosesOnly /\ FlagStays
  <1> DEFINE id == ByEmail(x)
             ents == [entries EXCEPT ![id].disabled = value]
  <1>1. /\ id # 0 /\ entries' = ents /\ Saves(ents, accounts)
        /\ UNCHANGED <<boot, accounts, apiKey, profile, tasks>>
    BY DEF SetAccountDisabled
  <1>2. /\ entries \in [Ids -> Entry] /\ Range(accounts) \subseteq Ids
        /\ id \in Range(accounts) /\ id \in Ids /\ entries[id].email = x /\ boot # "down"
    BY <1>1, IndexedAre, ListedIsUp
  <1> HIDE DEF id
  <1>3. ents \in [Ids -> Entry]
    BY <1>2, EntryFields
  <1>4. /\ \A k \in Ids : ents[k].email = entries[k].email /\ ents[k].slashed = entries[k].slashed
        /\ \A k \in Ids \ {id} : ents[k] = entries[k]
        /\ ents[id].disabled = value
    BY <1>2 DEF Entry
  <1> HIDE DEF ents
  <1>5. Effect(ents)
    BY <1>1, <1>2, <1>3, <1>4, FieldEffect
  <1>6. ASSUME NEW e \in Emails, Off(e), ~Off(e)', Listed(e)'
        PROVE  SetAccountDisabled(e, FALSE)
    <2>1. PICK k \in Range(accounts) : entries[k].email = e /\ entries[k].disabled
      BY <1>2, <1>6 DEF Off
    <2>2. k = id /\ value = FALSE
      BY <1>1, <1>2, <1>4, <1>6, <2>1 DEF Off
    <2>3. QED
      BY <1>2, <2>1, <2>2
  <1>7. QED
    BY <1>5, <1>6, EffectFile DEF FlagStays

LEMMA ThrottleEffect ==
  ASSUME SharedInv, FileInv, NEW r \in Requests, ThrottleAccount(r)
  PROVE  \E now : Effect(now) /\ FlagsHeld(now)
  <1> DEFINE e == entries[slot[r]].email
             id == ByEmail(e)
             ents == [entries EXCEPT ![id].throttled = MaxCooldown]
  <1>1. /\ slot[r] # 0 /\ id # 0 /\ entries' = ents /\ Saves(ents, accounts)
        /\ UNCHANGED <<boot, accounts, apiKey, profile, tasks>>
    BY DEF ThrottleAccount, Throttled
  <1>2. e \in Emails
    BY <1>1, SlotEmail DEF SharedInv
  <1>3. entries \in [Ids -> Entry] /\ Range(accounts) \subseteq Ids /\ id \in Ids /\ boot # "down"
    BY <1>1, <1>2, IndexedAre, ListedIsUp
  <1> HIDE DEF id, e
  <1>4. MaxCooldown \in 0..MaxCooldown
    BY RegistryAssumption
  <1>5. ents \in [Ids -> Entry]
    BY <1>3, <1>4, EntryFields
  <1>6. \A k \in Ids : /\ ents[k].email = entries[k].email /\ ents[k].slashed = entries[k].slashed
                       /\ ents[k].disabled = entries[k].disabled
    BY <1>3 DEF Entry
  <1> HIDE DEF ents
  <1>7. Effect(ents) /\ FlagsHeld(ents)
    BY <1>1, <1>3, <1>5, <1>6, FieldEffect DEF FlagsHeld
  <1>8. QED
    BY <1>7

LEMMA AddFile ==
  ASSUME SharedInv, SharedInv', FileInv, NEW e \in Emails, AddAccount(e)
  PROVE  FileInv' /\ LosesOnly /\ FlagStays
  <1> DEFINE id == Min(FreeIds)
             ents == [entries EXCEPT ![id] = NewEntry(e)]
             list == Append(accounts, id)
             ts == tasks \cup {Task("add", e, id, 0, "open")}
  <1>1. /\ id \in Ids /\ id \notin Range(accounts)
        /\ ents \in [Ids -> Entry] /\ list \in Seq(Ids)
        /\ Put(ents, list, ts, slot) /\ Saves(ents, list)
        /\ profile' = [profile EXCEPT ![e] = WithDir(e)] /\ boot # "down" /\ boot' = boot
    BY AddIs DEF SharedInv
  <1>2. /\ accounts \in Seq(Ids) /\ Range(accounts) \subseteq Ids /\ entries \in [Ids -> Entry]
        /\ profile \in [Emails -> Profiles] /\ NoneSlashed(entries)
    BY IndexedAre, TypesAre DEF SharedInv, Typed, FileInv, Unslashed
  <1> HIDE DEF id
  <1>3. ents[id] = NewEntry(e) /\ \A k \in Ids \ {id} : ents[k] = entries[k]
    BY <1>1, <1>2
  <1>4. Range(list) = Range(accounts) \cup {id}
    BY <1>1, <1>2, AppendIs
  <1>5. \A x \in Emails \ {e} : Idle(tasks, x) => Idle(ts, x)
    BY DEF Idle, Task
  <1> HIDE DEF ents, list, ts
  <1>6. NoneSlashed(ents) /\ ents[id].email = e
    BY <1>2, <1>3, NewEntryIs DEF NoneSlashed
  <1>7. accounts' = list /\ tasks' = ts /\ entries' = Swept(ents, list, ts, slot)
    BY <1>1 DEF Put
  <1>8. /\ \A k \in Range(list) : entries'[k] = ents[k]
        /\ \A k \in Ids : entries'[k] \in {ents[k], Unused}
    BY <1>1, <1>7, SweptIs
  <1>9. NoneSlashed(entries')
    BY <1>6, <1>8, UnusedIs DEF NoneSlashed
  <1>10. \A k \in Range(accounts) : ents[k] = entries[k] /\ entries'[k] = entries[k]
    BY <1>1, <1>2, <1>3, <1>4, <1>8
  <1>11. /\ Unslashed' /\ Agrees(entries', accounts', file'.recs) /\ Unlisted'
         /\ \A x : HasRecord(file'.recs, x) <=> x \in Known(ents, list)
    BY <1>1, <1>6, <1>7, <1>8, <1>9, FileSaved DEF Same, SharedInv
  <1>12. Opened'
    <2> SUFFICES ASSUME NEW k \in Range(list), entries'[k].email \notin EnvEmails,
                        profile'[entries'[k].email] = "gone"
                 PROVE  Idle(ts, entries'[k].email)
      BY <1>7 DEF Opened, Known
    <2>1. profile'[e] # "gone"
      BY <1>1, <1>2 DEF WithDir
    <2>2. k \in Range(accounts) /\ entries'[k].email = entries[k].email /\ entries[k].email # e
      BY <1>4, <1>6, <1>8, <1>10, <2>1
    <2>3. entries[k].email \in Emails
      BY <1>2, <2>2 DEF Entry
    <2>4. profile[entries[k].email] = "gone"
      BY <1>1, <1>2, <2>2, <2>3
    <2>5. Idle(tasks, entries[k].email)
      BY <2>2, <2>4 DEF FileInv, Opened, Known
    <2>6. QED
      BY <1>5, <2>2, <2>3, <2>5
  <1>13. LosesOnly
    <2>1. Known(entries, accounts) \subseteq Known(ents, list)
      BY <1>4, <1>10 DEF Known
    <2>2. QED
      BY <1>1, <1>11, <2>1 DEF LosesOnly, FileInv, Unlisted
  <1>14. FlagStays
    BY <1>1, <1>4, <1>7, <1>10 DEF FlagStays, Off
  <1>15. QED
    BY <1>11, <1>12, <1>13, <1>14 DEF FileInv

LEMMA RemoveFile ==
  ASSUME SharedInv, SharedInv', FileInv, NEW e \in Emails, RemoveAccount(e)
  PROVE  FileInv' /\ LosesOnly /\ FlagStays
  <1> DEFINE id == Found(entries, accounts, e)
             list == Only(accounts, Ids \ {id})
  <1>1. /\ id # 0 /\ list \in Seq(Ids) /\ Put(entries, list, tasks, slot) /\ Saves(entries, list)
        /\ profile' = profile \/ profile' = [profile EXCEPT ![e] = "gone"]
        /\ boot # "down" /\ boot' = boot
    BY RemoveIs DEF SharedInv
  <1>2. /\ accounts \in Seq(Ids) /\ Range(accounts) \subseteq Ids /\ entries \in [Ids -> Entry]
        /\ profile \in [Emails -> Profiles] /\ NoneSlashed(entries)
    BY IndexedAre, TypesAre DEF SharedInv, Typed, FileInv, Unslashed
  <1>3. id \in Range(accounts) /\ entries[id].email = e
    <2>1. FirstOf(entries, accounts, e, id)
      BY <1>1, <1>2, FoundFirst
    <2>2. Range(accounts) = {accounts[i] : i \in 1..Len(accounts)}
      BY <1>2, RangeIs
    <2>3. QED
      BY <2>1, <2>2 DEF FirstOf
  <1>4. Range(list) = Range(accounts) \ {id}
    <2>1. Range(list) = Range(accounts) \cap (Ids \ {id})
      BY <1>2, OnlyAre
    <2>2. QED
      BY <1>2, <2>1
  <1> HIDE DEF id, list
  <1>5. accounts' = list /\ tasks' = tasks /\ entries' = Swept(entries, list, tasks, slot)
    BY <1>1 DEF Put
  <1>6. /\ \A k \in Range(list) : entries'[k] = entries[k]
        /\ \A k \in Ids : entries'[k] \in {entries[k], Unused}
    BY <1>1, <1>2, <1>5, SweptIs
  <1>7. NoneSlashed(entries')
    BY <1>2, <1>6, UnusedIs DEF NoneSlashed
  <1>8. /\ Unslashed' /\ Agrees(entries', accounts', file'.recs) /\ Unlisted'
        /\ \A x : HasRecord(file'.recs, x) <=> x \in Known(entries, list)
    BY <1>1, <1>2, <1>5, <1>6, <1>7, FileSaved DEF Same, SharedInv
  <1>9. Opened'
    <2> SUFFICES ASSUME NEW k \in Range(list), entries[k].email \notin EnvEmails,
                        profile'[entries[k].email] = "gone"
                 PROVE  Idle(tasks, entries[k].email)
      BY <1>5, <1>6 DEF Opened, Known
    <2>1. entries[k].email # e
      BY <1>3, <1>4 DEF SharedInv, TwiceInv
    <2>2. entries[k].email \in Known(entries, accounts) /\ entries[k].email \in Emails
      BY <1>2, <1>4 DEF Known, Entry
    <2>3. profile[entries[k].email] = "gone"
      BY <1>1, <1>2, <2>1, <2>2
    <2>4. QED
      BY <2>2, <2>3 DEF FileInv, Opened
  <1>10. LosesOnly
    <2>1. \A x \in Known(entries, accounts) \ Known(entries, list) : x = e
      BY <1>3, <1>4 DEF Known
    <2>2. QED
      BY <1>1, <1>8, <2>1 DEF LosesOnly, FileInv, Unlisted
  <1>11. FlagStays
    <2> SUFFICES ASSUME NEW x \in Emails, Once(x), Off(x), Listed(x)' PROVE Off(x)'
      BY DEF FlagStays
    <2>1. PICK k \in Range(accounts) : entries[k].email = x /\ entries[k].disabled
      BY <1>1 DEF Off
    <2>2. PICK j \in Range(list) : entries'[j].email = x
      BY <1>5, UpWhereListed
    <2>3. j \in Range(accounts) /\ entries'[j] = entries[j]
      BY <1>4, <1>6, <2>2
    <2>4. k = j
      BY <2>1, <2>2, <2>3, OnceIs DEF SharedInv, Sole
    <2>5. QED
      BY <1>1, <1>5, <2>1, <2>2, <2>3, <2>4 DEF Off
  <1>12. QED
    BY <1>8, <1>9, <1>10, <1>11 DEF FileInv

LEMMA StartFile ==
  ASSUME SharedInv, SharedInv', FileInv, Start
  PROVE  FileInv' /\ LosesOnly /\ FlagStays
  <1>1. TypeOK /\ \A i \in 1..Len(file.recs) : ~file.recs[i].slashed
    BY DEF SharedInv, FileInv, Unslashed
  <1>2. /\ NoneSlashed(entries')
        /\ \A i \in 1..Len(file.recs) :
             file.recs[i].email \in Known(entries', accounts') \/ file.key # KeyInUse'
        /\ file' = file /\ EnvEmails \subseteq Known(entries', accounts')
        /\ \A e \in Known(entries', accounts') : profile'[e] # "gone"
        /\ \A id \in Range(accounts'), i \in 1..Len(file.recs) :
             entries'[id].email = file.recs[i].email /\ SoleRecord(file.recs, i) =>
               /\ entries'[id].disabled = file.recs[i].disabled
               /\ entries'[id].throttled = file.recs[i].throttled
    BY <1>1, StartIs
  <1>3. Unslashed' /\ Agrees(entries', accounts', file'.recs)
    BY <1>1, <1>2 DEF Unslashed, Agrees
  <1>4. Unlisted' /\ Opened'
    BY <1>2 DEF Unlisted, Opened, HasRecord
  <1>5. LosesOnly
    BY <1>2 DEF LosesOnly
  <1>6. FlagStays
    <2> SUFFICES ASSUME NEW e \in Emails, Once(e), Off(e), Listed(e)' PROVE Off(e)'
      BY DEF FlagStays
    <2>1. /\ boot = "down" /\ boot' # "down"
          /\ Range(file.recs) = {file.recs[i] : i \in 1..Len(file.recs)}
      BY <1>1, UpWhereListed, RecordsAre DEF Start
    <2>2. PICK i \in 1..Len(file.recs) : file.recs[i].email = e /\ file.recs[i].disabled
      BY <2>1 DEF Off
    <2>3. SoleRecord(file.recs, i)
      BY <1>1, <2>2, OnceIs
    <2>4. PICK id \in Range(accounts') : entries'[id].email = e
      BY UpWhereListed
    <2>5. QED
      BY <1>2, <2>1, <2>2, <2>3, <2>4 DEF Off
  <1>7. QED
    BY <1>3, <1>4, <1>5, <1>6 DEF FileInv

LEMMA CrashFile ==
  ASSUME SharedInv, SharedInv', FileInv, Crash
  PROVE  FileInv' /\ LosesOnly /\ FlagStays
  <1>1. /\ boot' = "down" /\ accounts' = <<>> /\ entries' = [id \in Ids |-> Unused]
        /\ file' = file \/ file' = [file EXCEPT !.recs = <<>>]
    BY CrashIs DEF SharedInv
  <1>2. file'.recs = file.recs \/ file'.recs = <<>>
    BY <1>1, TypesAre DEF SharedInv, Typed, FileSet
  <1>3. NoneSlashed(entries')
    BY <1>1, UnusedIs DEF NoneSlashed
  <1>4. Unslashed'
    <2>1. Len(<<>>) = 0
      OBVIOUS
    <2>2. QED
      BY <1>2, <1>3, <2>1 DEF FileInv, Unslashed
  <1>5. Agrees(entries', accounts', file'.recs) /\ Unlisted' /\ Opened'
    BY <1>1 DEF Agrees, Range, Unlisted, Opened, Known
  <1>6. FlagStays
    BY <1>1, UpWhereListed DEF FlagStays
  <1>7. QED
    BY <1>4, <1>5, <1>6 DEF FileInv, LosesOnly

LEMMA TickFile ==
  ASSUME SharedInv, SharedInv', FileInv, Tick
  PROVE  FileInv' /\ LosesOnly /\ FlagStays
  <1>1. /\ file'.key = file.key /\ Len(file'.recs) = Len(file.recs)
        /\ \A id \in Ids : /\ entries'[id].email = entries[id].email
                           /\ entries'[id].disabled = entries[id].disabled
                           /\ entries'[id].slashed = entries[id].slashed
                           /\ entries'[id].throttled = Less(entries[id].throttled)
        /\ \A i \in 1..Len(file.recs) :
             /\ file'.recs[i].email = file.recs[i].email
             /\ file'.recs[i].disabled = file.recs[i].disabled
             /\ file'.recs[i].slashed = file.recs[i].slashed
             /\ file'.recs[i].throttled = Less(file.recs[i].throttled)
    BY TickIs DEF SharedInv
  <1>2. UNCHANGED <<boot, accounts, masterKey, apiKey, profile, tasks>>
    BY DEF Tick, keyVars
  <1>3. Range(accounts) \subseteq Ids
    BY IndexedAre
  <1>4. \A e : HasRecord(file'.recs, e) <=> HasRecord(file.recs, e)
    BY <1>1 DEF HasRecord
  <1>5. Unslashed'
    BY <1>1 DEF FileInv, Unslashed, NoneSlashed
  <1>6. Agrees(entries', accounts', file'.recs)
    <2> SUFFICES ASSUME NEW id \in Range(accounts), NEW i \in 1..Len(file.recs),
                        entries'[id].email = file'.recs[i].email,
                        Sole(entries', accounts, id), SoleRecord(file'.recs, i)
                 PROVE  /\ entries'[id].disabled = file'.recs[i].disabled
                        /\ entries'[id].throttled = file'.recs[i].throttled
      BY <1>1, <1>2 DEF Agrees
    <2>1. id \in Ids /\ entries[id].email = file.recs[i].email
      BY <1>1, <1>3
    <2>2. Sole(entries, accounts, id) /\ SoleRecord(file.recs, i)
      BY <1>1, <1>3 DEF Sole, SoleRecord
    <2>3. entries[id].disabled = file.recs[i].disabled /\ entries[id].throttled = file.recs[i].throttled
      BY <2>1, <2>2 DEF FileInv, Agrees
    <2>4. QED
      BY <1>1, <2>1, <2>3
  <1>7. Known(entries', accounts') = Known(entries, accounts)
    BY <1>1, <1>2, <1>3 DEF Known
  <1>8. KeyInUse' = KeyInUse
    BY <1>2 DEF KeyInUse
  <1>9. Unlisted' /\ Opened'
    BY <1>1, <1>2, <1>4, <1>7, <1>8 DEF FileInv, Unlisted, Opened
  <1>10. LosesOnly
    BY <1>4 DEF LosesOnly
  <1>11. FlagStays
    BY <1>1, <1>2, <1>3, UpWhereListed DEF FlagStays, Off
  <1>12. QED
    BY <1>5, <1>6, <1>9, <1>10, <1>11 DEF FileInv

LEMMA StepFile ==
  ASSUME SharedInv, FileInv, ~SlashedCookies, [Next]_vars
  PROVE  SharedInv' /\ FileInv' /\ LosesOnly /\ FlagStays
  <1>1. SharedInv'
    BY StepShared DEF SharedStep
  <1>2. ASSUME \E now : Effect(now) /\ FlagsHeld(now)
        PROVE  FileInv' /\ LosesOnly /\ FlagStays
    BY <1>1, <1>2, EffectFile, EffectFlag
  <1>3. QED
    BY <1>1, <1>2, StartFile, CrashFile, TickFile, AddFile, RemoveFile, DisableFile, ThrottleEffect,
       TaskEffect, ReloadEffect, QuietEffect DEF Next, Operator

LEMMA InitFile == Init => FileInv
  <1> SUFFICES ASSUME Init PROVE FileInv
    OBVIOUS
  <1>1. file.recs = <<>> /\ entries = [id \in Ids |-> Unused] /\ boot = "down" /\ accounts = <<>>
    BY DEF Init
  <1>2. QED
    BY <1>1, UnusedIs DEF FileInv, Unslashed, NoneSlashed, Agrees, Unlisted, Opened, Known, Range

\* What a restart must not forget is in the file at every moment, across reloads, logins,
\* restarts, removals and saves that were cut off, whatever becomes of the profiles: an
\* account registered once and saved once has its flag and its cooldown saved, as long as
\* no cookie has "//".
THEOREM TheFileKnows ==
  ASSUME ~SlashedCookies
  PROVE  Spec => []FileKnows
  <1>1. SharedInv /\ FileInv /\ [Next]_vars => SharedInv' /\ FileInv'
    BY StepFile
  <1>2. SharedInv /\ FileInv => FileKnows
    BY RecordsAre DEF SharedInv, FileInv
  <1>3. QED
    BY <1>1, <1>2, InitShared, InitFile, PTL DEF Spec

\* accounts.json loses an account only when the operator removes it, when its profile is
\* gone, by a crash in the middle of a write, or when a process that could not decrypt the
\* file has overwritten it: no interleaving of saves, reloads and logins loses another.
THEOREM NoAccountForgotten ==
  ASSUME ~SlashedCookies
  PROVE  Spec => AccountsKept
  <1> DEFINE Kept == \A e \in Emails : Saved(e) /\ ~Saved(e)' =>
                        \/ Crash
                        \/ RemoveAccount(e)
                        \/ profile[e] = "gone"
                        \/ file.key # KeyInUse
  <1>1. ASSUME SharedInv, FileInv, [Next]_vars PROVE SharedInv' /\ FileInv' /\ Kept
    <2>1. SharedInv' /\ FileInv' /\ LosesOnly
      BY <1>1, StepFile
    <2>2. /\ \A e : Saved(e) <=> HasRecord(file.recs, e)
          /\ \A e : Saved(e)' <=> HasRecord(file'.recs, e)
      BY <1>1, <2>1, RecordsAre, RecordsNext DEF SharedInv
    <2>3. QED
      BY <2>1, <2>2 DEF LosesOnly
  <1>2. SharedInv /\ FileInv /\ [Next]_vars => SharedInv' /\ FileInv' /\ [Kept]_vars
    BY <1>1
  <1> HIDE DEF Kept
  <1>3. Init /\ [][Next]_vars => [][Kept]_vars
    BY <1>2, InitShared, InitFile, PTL
  <1>4. QED
    BY <1>3 DEF Spec, AccountsKept, Kept

\* An account the operator switched off stays off, through logins, reloads, crashes and
\* restarts, until the operator switches it on or it leaves the registry, unless a reload
\* has listed it twice: no merge of the file and no save of an old entry clears the flag.
THEOREM SwitchedOffStays ==
  ASSUME ~SlashedCookies
  PROVE  Spec => StaysOff
  <1>1. SharedInv /\ FileInv /\ [Next]_vars => SharedInv' /\ FileInv' /\ FlagStays
    BY StepFile
  <1>2. SharedInv /\ FileInv /\ [Next]_vars => SharedInv' /\ FileInv' /\ [FlagStays]_vars
    BY <1>1
  <1>3. Init /\ [][Next]_vars => [][FlagStays]_vars
    BY <1>2, InitShared, InitFile, PTL
  <1>4. QED
    BY <1>3 DEF Spec, StaysOff, FlagStays
=============================================================================
