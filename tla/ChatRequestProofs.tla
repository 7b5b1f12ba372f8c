-------------------------- MODULE ChatRequestProofs --------------------------
(***************************************************************************)
(* Proofs about ChatRequest, for every set of accounts, requests and chats *)
(* and every value of the other constants: the types, the ledger of slots  *)
(* and sessions, and from it the exclusive use of accounts.                *)
(*                                                                         *)
(* On top of the ledger: the counters equal what they count, two requests  *)
(* are never on one account and no cooldown is cut short while nothing is  *)
(* swept, and no chat is lost while creates and deletes succeed.  And the  *)
(* gateway implements AccountLease: under the mapping Holder, every step   *)
(* grants one lease, ends some, or changes none, since a pick finds the    *)
(* account free and a session registered for one request makes no other a  *)
(* holder.                                                                 *)
(***************************************************************************)
EXTENDS ChatRequest, FiniteSetTheorems, TLAPS

-----------------------------------------------------------------------------
(* Types of the pieces the actions are built from *)

LEMMA DecrementedNat == ASSUME NEW n \in Nat PROVE Decremented(n) \in Nat
  BY DEF Decremented

LEMMA RestartType ==
  ASSUME RequestTypeOK, NEW r \in Requests,
         NEW label \in {"idle", "pick"}, NEW n \in 0..(MaxAttempts - 1),
         NEW failed \in Accounts \cup {None}, Restart(r, label, n, failed)
  PROVE  RequestTypeOK'
  BY DEF RequestTypeOK, Restart, Pcs, ReplyKinds

\* Giving up or retrying after a failure keeps the request's variables typed.
LEMMA NextAttemptType ==
  ASSUME RequestTypeOK, NEW r \in Requests, NEW failed \in Accounts \cup {None},
         NextAttempt(r, failed)
  PROVE  RequestTypeOK'
  <1>1. 0 \in 0..(MaxAttempts - 1)
    BY RequestAssumption
  <1>2. CASE AttemptsLeft(r)
    <2>1. attempt[r] + 1 \in 0..(MaxAttempts - 1)
      BY <1>2, RequestAssumption DEF AttemptsLeft, RequestTypeOK
    <2>2. QED
      BY <1>2, <2>1, RestartType DEF NextAttempt, Retry
  <1>3. CASE ~AttemptsLeft(r)
    BY <1>1, <1>3, RestartType DEF NextAttempt, End
  <1>4. QED
    BY <1>2, <1>3

LEMMA EndType ==
  ASSUME RequestTypeOK, NEW r \in Requests, End(r)
  PROVE  RequestTypeOK'
  BY RestartType, RequestAssumption DEF End

LEMMA GoToType ==
  ASSUME RequestTypeOK, NEW r \in Requests, NEW label \in Pcs, GoTo(r, label)
  PROVE  RequestTypeOK'
  BY DEF RequestTypeOK, GoTo

\* release(), taken or skipped, keeps the counters natural numbers.
LEMMA ReleaseType ==
  ASSUME AccountTypeOK, PoolTypeOK, NEW c, NEW a, Release(c, a),
         UNCHANGED <<slots, toppingUp, upstream>>
  PROVE  PoolTypeOK' /\ inFlight' \in [Accounts -> Nat]
  BY DecrementedNat
  DEF AccountTypeOK, PoolTypeOK, Release, IsActive, DecrementInFlight, Untracked, Delete

-----------------------------------------------------------------------------
(* Types: one lemma per group of actions *)

\* The actions that choose an account and take a chat out of the pool.
LEMMA ChooseType ==
  ASSUME TypeOK, ChatsInHand, NEW r \in Requests,
         \/ Arrive(r) \/ Pick(r) \/ PickNone(r) \/ Upload(r) \/ UploadFails(r)
         \/ AcquirePick(r) \/ AcquireNone(r) \/ PopReady(r) \/ PopEmpty(r)
  PROVE  TypeOK'
  <1> USE DEF TypeOK, accountVars, poolVars
  <1>1. CASE Arrive(r)
    BY <1>1, GoToType DEF Arrive, AccountTypeOK, PoolTypeOK, Pcs
  <1>2. CASE Pick(r)
    <2>1. AccountTypeOK' /\ PoolTypeOK'
      BY <1>2 DEF Pick, PickAccount, AccountTypeOK, PoolTypeOK
    <2>2. RequestTypeOK'
      BY <1>2 DEF Pick, RequestTypeOK, Pcs, PickedPcs
    <2>3. QED
      BY <2>1, <2>2
  <1>3. CASE PickNone(r)
    <2>1. RequestTypeOK'
      BY <1>3, GoToType, EndType DEF PickNone, Pcs
    <2>2. QED
      BY <1>3, <2>1 DEF PickNone, AccountTypeOK, PoolTypeOK
  <1>4. CASE Upload(r)
    BY <1>4, GoToType DEF Upload, AccountTypeOK, PoolTypeOK, Pcs, PickedPcs
  <1>5. CASE UploadFails(r)
    BY <1>5, EndType DEF UploadFails, AccountTypeOK, PoolTypeOK
  <1>6. CASE AcquirePick(r)
    <2>1. AccountTypeOK' /\ PoolTypeOK'
      BY <1>6 DEF AcquirePick, PickAccount, AccountTypeOK, PoolTypeOK
    <2>2. RequestTypeOK'
      BY <1>6 DEF AcquirePick, RequestTypeOK, Pcs, PickedPcs
    <2>3. QED
      BY <2>1, <2>2
  <1>7. CASE AcquireNone(r)
    BY <1>7, NextAttemptType DEF AcquireNone, AccountTypeOK, PoolTypeOK
  <1>8. CASE PopReady(r)
    <2>0. acct[r] \in Accounts
      BY <1>8 DEF PopReady, ChatsInHand, PickedPcs
    <2>1. PoolTypeOK'
      BY <1>8, <2>0 DEF PopReady, PopPooledChat, StartTopUp, Delete, Untracked, Stale, Fresh, PoolTypeOK
    <2>2. RequestTypeOK'
      BY <1>8 DEF PopReady, RequestTypeOK, Pcs, PickedPcs
    <2>3. QED
      BY <1>8, <2>1, <2>2 DEF PopReady, AccountTypeOK
  <1>9. CASE PopEmpty(r)
    <2>0. acct[r] \in Accounts
      BY <1>9 DEF PopEmpty, ChatsInHand, PickedPcs
    <2>1. PoolTypeOK'
      BY <1>9, <2>0 DEF PopEmpty, NoPooledChat, Delete, Untracked, Stale, PoolTypeOK
    <2>2. QED
      BY <1>9, <2>1, GoToType DEF PopEmpty, AccountTypeOK, Pcs, PickedPcs
  <1>10. QED
    BY <1>1, <1>2, <1>3, <1>4, <1>5, <1>6, <1>7, <1>8, <1>9

\* The actions that open a session or fail to.
LEMMA OpenType ==
  ASSUME TypeOK, ChatsInHand, NEW r \in Requests,
         Headers(r) \/ CreateChat(r) \/ CreateFails(r) \/ CreateTimesOut(r) \/ SkipAccount(r)
  PROVE  TypeOK'
  <1> USE DEF TypeOK, accountVars, poolVars
  <1>0. pc[r] \in PickedPcs => acct[r] \in Accounts
    BY DEF ChatsInHand
  <1>1. CASE Headers(r)
    <2>1. chat[r] \in Chats /\ acct[r] \in Accounts
      BY <1>1 DEF Headers, ChatsInHand, PickedPcs
    <2>2. PoolTypeOK'
      BY <1>1, <2>1 DEF Headers, Register, PoolTypeOK
    <2>3. QED
      BY <1>1, <2>2, GoToType DEF Headers, AccountTypeOK, Pcs, SessionPcs
  <1>2. CASE CreateChat(r)
    <2>1. acct[r] \in Accounts
      BY <1>0, <1>2 DEF CreateChat, PickedPcs
    <2>2. PoolTypeOK'
      BY <1>2, <2>1 DEF CreateChat, Register, StartTopUp, UnusedChats, PoolTypeOK
    <2>3. RequestTypeOK'
      BY <1>2 DEF CreateChat, UnusedChats, RequestTypeOK, Pcs, SessionPcs
    <2>4. QED
      BY <1>2, <2>2, <2>3 DEF CreateChat, AccountTypeOK
  <1>3. ASSUME pc[r] = "create"
        PROVE  (IF given[r] THEN acct[r] ELSE None) \in Accounts \cup {None}
    BY <1>0, <1>3 DEF PickedPcs
  <1>4. CASE CreateFails(r)
    <2>1. inFlight' \in [Accounts -> Nat]
      BY <1>4, DecrementedNat DEF CreateFails, DecrementInFlight, AccountTypeOK
    <2>2. RequestTypeOK'
      BY <1>3, <1>4, NextAttemptType DEF CreateFails
    <2>3. QED
      BY <1>4, <2>1, <2>2 DEF CreateFails, AccountTypeOK, PoolTypeOK
  <1>5. CASE CreateTimesOut(r)
    <2>1. inFlight' \in [Accounts -> Nat]
      BY <1>5, DecrementedNat DEF CreateTimesOut, DecrementInFlight, AccountTypeOK
    <2>2. RequestTypeOK'
      BY <1>3, <1>5, NextAttemptType DEF CreateTimesOut
    <2>3. QED
      BY <1>5, <2>1, <2>2 DEF CreateTimesOut, UnusedChats, AccountTypeOK, PoolTypeOK
  <1>6. CASE SkipAccount(r)
    <2>1. inFlight' \in [Accounts -> Nat]
      BY <1>6, DecrementedNat DEF SkipAccount, DecrementInFlight, AccountTypeOK
    <2>2. cooldown' \in [Accounts -> Nat]
      BY <1>6, AccountAssumption DEF SkipAccount, ThrottleAccount, AccountTypeOK, Reasons
    <2>3. CASE tries[r] + 1 < Cardinality(Accounts)
      <3>1. RequestTypeOK'
        BY <1>6, <2>3 DEF SkipAccount, RequestTypeOK, Pcs
      <3>2. QED
        BY <1>6, <2>1, <2>2, <3>1 DEF SkipAccount, AccountTypeOK, PoolTypeOK
    <2>4. CASE ~(tries[r] + 1 < Cardinality(Accounts))
      <3>1. RequestTypeOK'
        BY <1>6, <2>4, NextAttemptType DEF SkipAccount
      <3>2. QED
        BY <1>6, <2>1, <2>2, <3>1 DEF SkipAccount, AccountTypeOK, PoolTypeOK
    <2>5. QED
      BY <2>3, <2>4
  <1>7. QED
    BY <1>1, <1>2, <1>4, <1>5, <1>6

\* A throttled account stays typed, whatever the reason.
LEMMA ThrottleType ==
  ASSUME AccountTypeOK, NEW a, NEW reason \in Reasons, ThrottleAccount(a, reason)
  PROVE  cooldown' \in [Accounts -> Nat]
  BY AccountAssumption DEF ThrottleAccount, AccountTypeOK

\* The upstream call and what setupSession's catch makes of its errors.
LEMMA CallType ==
  ASSUME TypeOK, ChatsInHand, NEW r \in Requests,
         FetchSucceeds(r) \/ RateLimited(r) \/ Refused(r) \/ CallFails(r)
         \/ CatchRetryable(r) \/ CatchFatal(r)
  PROVE  TypeOK'
  <1> USE DEF TypeOK, accountVars, poolVars
  <1>0. ASSUME NEW kind \in ReplyKinds, Throw(r, kind)
        PROVE  RequestTypeOK'
    BY <1>0 DEF Throw, RequestTypeOK, Pcs, SessionPcs
  <1>1. CASE FetchSucceeds(r)
    BY <1>1, GoToType DEF FetchSucceeds, AccountTypeOK, PoolTypeOK, Pcs, SessionPcs
  <1>2. CASE RateLimited(r)
    <2>1. inFlight' \in [Accounts -> Nat]
      BY <1>2 DEF RateLimited, PickAccount, AccountTypeOK
    <2>2. cooldown' \in [Accounts -> Nat]
      BY <1>2, ThrottleType DEF RateLimited, Reasons
    <2>3. disabled' \in [Accounts -> BOOLEAN]
      BY <1>2 DEF RateLimited, SetAccountDisabled, AccountTypeOK
    <2>4. RequestTypeOK'
      BY <1>0, <1>2 DEF RateLimited, ReplyKinds
    <2>5. PoolTypeOK'
      BY <1>2 DEF RateLimited, PoolTypeOK
    <2>6. QED
      BY <2>1, <2>2, <2>3, <2>4, <2>5 DEF AccountTypeOK
  <1>3. CASE Refused(r)
    <2>1. cooldown' \in [Accounts -> Nat]
      BY <1>3, ThrottleType DEF Refused, Reasons
    <2>2. RequestTypeOK'
      BY <1>0, <1>3 DEF Refused, ReplyKinds
    <2>3. QED
      BY <1>3, <2>1, <2>2 DEF Refused, AccountTypeOK, PoolTypeOK
  <1>4. CASE CallFails(r)
    <2>1. RequestTypeOK'
      BY <1>0, <1>4 DEF CallFails, ReplyKinds
    <2>2. QED
      BY <1>4, <2>1 DEF CallFails, AccountTypeOK, PoolTypeOK
  <1>5. CASE CatchRetryable(r)
    <2>1. PoolTypeOK' /\ inFlight' \in [Accounts -> Nat]
      BY <1>5, ReleaseType DEF CatchRetryable
    <2>2. cooldown' \in [Accounts -> Nat]
      BY <1>5, ThrottleType DEF CatchRetryable, Reasons, AccountTypeOK
    <2>3. RequestTypeOK'
      BY <1>5, NextAttemptType DEF CatchRetryable, ChatsInHand, SessionPcs
    <2>4. QED
      BY <1>5, <2>1, <2>2, <2>3 DEF CatchRetryable, AccountTypeOK
  <1>6. CASE CatchFatal(r)
    <2>1. PoolTypeOK' /\ inFlight' \in [Accounts -> Nat]
      BY <1>6, ReleaseType DEF CatchFatal
    <2>2. QED
      BY <1>6, <2>1, EndType DEF CatchFatal, AccountTypeOK
  <1>7. QED
    BY <1>1, <1>2, <1>3, <1>4, <1>5, <1>6

\* The first chunk, the stream and its end.
LEMMA StreamType ==
  ASSUME TypeOK, ChatsInHand, NEW r \in Requests,
         FirstChunk(r) \/ FirstChunkTimeout(r) \/ FirstChunkRejected(r) \/ StreamStep(r)
  PROVE  TypeOK'
  <1> USE DEF TypeOK, accountVars, poolVars
  <1>1. CASE FirstChunk(r)
    BY <1>1, GoToType DEF FirstChunk, AccountTypeOK, PoolTypeOK, Pcs, SessionPcs
  <1>2. CASE FirstChunkTimeout(r)
    <2>1. PoolTypeOK' /\ inFlight' \in [Accounts -> Nat]
      BY <1>2, ReleaseType DEF FirstChunkTimeout
    <2>2. RequestTypeOK'
      BY <1>2, NextAttemptType DEF FirstChunkTimeout, ChatsInHand, SessionPcs
    <2>3. QED
      BY <1>2, <2>1, <2>2 DEF FirstChunkTimeout, AccountTypeOK
  <1>3. CASE FirstChunkRejected(r)
    <2>1. PoolTypeOK' /\ inFlight' \in [Accounts -> Nat]
      BY <1>3, ReleaseType DEF FirstChunkRejected
    <2>2. RequestTypeOK'
      BY <1>3, NextAttemptType DEF FirstChunkRejected, ChatsInHand, SessionPcs
    <2>3. cooldown' \in [Accounts -> Nat]
      BY <1>3, ThrottleType DEF FirstChunkRejected, Reasons
    <2>4. QED
      BY <1>3, <2>1, <2>2, <2>3 DEF FirstChunkRejected, AccountTypeOK
  <1>4. CASE StreamEnds(r)
    BY <1>4, GoToType DEF StreamEnds, AccountTypeOK, PoolTypeOK, Pcs, SessionPcs
  <1>5. CASE ReleaseSession(r)
    <2>1. PoolTypeOK' /\ inFlight' \in [Accounts -> Nat]
      BY <1>5, ReleaseType DEF ReleaseSession
    <2>2. QED
      BY <1>5, <2>1, EndType DEF ReleaseSession, AccountTypeOK
  <1>6. QED
    BY <1>1, <1>2, <1>3, <1>4, <1>5 DEF StreamStep

\* The sweeper, the refills, the deletions, time and the operator.
LEMMA BackgroundType ==
  ASSUME TypeOK,
         (PoolStep /\ UNCHANGED requestVars) \/ (Tick /\ UNCHANGED requestVars) \/ AccountStep
  PROVE  TypeOK'
  <1> USE DEF TypeOK, accountVars, poolVars, requestVars
  <1>1. CASE SweepStuckSessions /\ UNCHANGED requestVars
    <2>1. Cardinality(StuckSessions) \in Nat
      <3>1. StuckSessions \subseteq Chats
        BY DEF StuckSessions, PoolTypeOK
      <3>2. QED
        BY <3>1, FS_Subset, FS_CardinalityType, PoolAssumption
    <2>2. SlotsSwept \in [Accounts -> Nat] /\ CountLeft \in Nat
      BY <2>1, DecrementedNat DEF SlotsSwept, CountLeft, AccountTypeOK, PoolTypeOK
    <2>3. PoolTypeOK'
      BY <1>1, <2>2
      DEF SweepStuckSessions, SessionsLeft, StuckSessions, Untracked, Delete, PoolTypeOK
    <2>4. QED
      BY <1>1, <2>2, <2>3 DEF SweepStuckSessions, AccountTypeOK, RequestTypeOK
  <1>2. CASE \E a \in Accounts : TopUpStops(a) /\ UNCHANGED requestVars
    BY <1>2 DEF TopUpStops, AccountTypeOK, PoolTypeOK, RequestTypeOK
  <1>3. CASE \E a \in Accounts, c \in UnusedChats : TopUpCreates(a, c) /\ UNCHANGED requestVars
    BY <1>3 DEF TopUpCreates, UnusedChats, AccountTypeOK, PoolTypeOK, RequestTypeOK
  <1>4. CASE \E c \in Chats : DeleteSession(c) /\ UNCHANGED requestVars
    BY <1>4 DEF DeleteSession, AccountTypeOK, PoolTypeOK, RequestTypeOK
  <1>5. CASE Tick /\ UNCHANGED requestVars
    <2>1. cooldown' \in [Accounts -> Nat] /\ age' \in [Chats -> Nat]
      BY <1>5, DecrementedNat DEF Tick, AccountTypeOK, PoolTypeOK
    <2>2. QED
      BY <1>5, <2>1 DEF Tick, AccountTypeOK, PoolTypeOK, RequestTypeOK
  <1>6. CASE AccountStep
    <2>1. ASSUME NEW a \in Accounts, SaveCookies(a), UNCHANGED <<poolVars, requestVars>>
          PROVE  TypeOK'
      BY <2>1 DEF SaveCookies, AccountTypeOK, PoolTypeOK, RequestTypeOK
    <2>2. ASSUME NEW a \in Accounts, ToggleDisabled(a), UNCHANGED <<poolVars, requestVars>>
          PROVE  TypeOK'
      <3>1. disabled' \in [Accounts -> BOOLEAN]
        BY <2>2 DEF ToggleDisabled, SetAccountDisabled, AccountTypeOK
      <3>2. QED
        BY <2>2, <3>1 DEF ToggleDisabled, AccountTypeOK, PoolTypeOK, RequestTypeOK
    <2>3. QED
      BY <1>6, <2>1, <2>2 DEF AccountStep
  <1>7. QED
    BY <1>1, <1>2, <1>3, <1>4, <1>5, <1>6 DEF PoolStep

-----------------------------------------------------------------------------
(* The ledger of slots, sessions and chats *)

\* What SlotInvariant speaks about besides the requests themselves.
ledger == <<inFlight, activeSessions, owner, slots, deleting, upstream>>

\* A request that changes place without taking or giving back anything.
LEMMA MoveKeepsLedger ==
  ASSUME TypeOK, SlotInvariant, NEW r \in Requests, NEW label \in Pcs,
         pc' = [pc EXCEPT ![r] = label],
         pc[r] \in PickedPcs <=> label \in PickedPcs,
         pc[r] \in SessionPcs <=> label \in SessionPcs,
         pc[r] # "headers" /\ label # "headers",
         UNCHANGED <<ledger, acct, chat>>
  PROVE  SlotInvariant'
  <1> USE DEF SlotInvariant, ledger
  <1>1. \A q \in Requests :
          /\ pc'[q] \in PickedPcs <=> pc[q] \in PickedPcs
          /\ pc'[q] \in SessionPcs <=> pc[q] \in SessionPcs
          /\ pc'[q] = "headers" <=> pc[q] = "headers"
    BY DEF TypeOK, RequestTypeOK
  <1>2. \A q \in Requests : HoldsSlot(q)' <=> HoldsSlot(q)
    BY <1>1 DEF HoldsSlot
  <1>3. SlotsHeld' /\ OneHolderPerAccount' /\ SlotsCounted'
    BY <1>2 DEF SlotsHeld, OneHolderPerAccount, SlotsCounted
  <1>4. SessionsOwned'
    BY <1>1 DEF SessionsOwned
  <1>5. PooledChatsUnused' /\ NoDeleteWhileActive' /\ DeletesExist'
    BY DEF PooledChatsUnused, Pooled, NoDeleteWhileActive, DeletesExist
  <1>6. ChatsInHand'
    BY <1>1 DEF ChatsInHand
  <1>7. QED
    BY <1>3, <1>4, <1>5, <1>6

\* The request starts over or ends.
Leaves(r) ==
    /\ \E label \in {"idle", "pick", "acquire"} : pc' = [pc EXCEPT ![r] = label]
    /\ acct' = [acct EXCEPT ![r] = None]
    /\ chat' = [chat EXCEPT ![r] = None]

LEMMA NextAttemptLeaves ==
  ASSUME NEW r \in Requests, NEW failed, End(r) \/ NextAttempt(r, failed)
  PROVE  Leaves(r)
  BY DEF End, NextAttempt, Retry, Restart, Leaves

\* A request that leaves is no longer one of the holders; the others are.
LEMMA LeavesHolders ==
  ASSUME TypeOK, NEW r \in Requests, Leaves(r)
  PROVE  /\ pc'[r] \in {"idle", "pick", "acquire"} /\ chat'[r] = None
         /\ \A q \in Requests \ {r} :
              pc'[q] = pc[q] /\ acct'[q] = acct[q] /\ chat'[q] = chat[q]
  BY DEF Leaves, TypeOK, RequestTypeOK

\* A request leaves before it has a session: its slot is given back or stays
\* taken, and a chat it asked for may come to exist all the same.
LEMMA LeaveBeforeSession ==
  ASSUME TypeOK, SlotInvariant, NEW r \in Requests, Leaves(r),
         pc[r] \notin SessionPcs,
         \/ inFlight' = inFlight
         \/ pc[r] \in PickedPcs /\ DecrementInFlight(acct[r]),
         \/ upstream' = upstream
         \/ \E c \in UnusedChats : upstream' = upstream \cup {c},
         UNCHANGED <<activeSessions, owner, slots, deleting>>
  PROVE  SlotInvariant'
  <1> USE DEF SlotInvariant
  <1>1. /\ pc'[r] \in {"idle", "pick", "acquire"} /\ chat'[r] = None
        /\ \A q \in Requests \ {r} :
             pc'[q] = pc[q] /\ acct'[q] = acct[q] /\ chat'[q] = chat[q]
    BY LeavesHolders
  <1>2. /\ ~HoldsSlot(r)'
        /\ \A q \in Requests \ {r} : HoldsSlot(q)' <=> HoldsSlot(q)
    BY <1>1 DEF HoldsSlot, PickedPcs, SessionPcs
  <1>3. SlotsCounted'
    BY DEF SlotsCounted, DecrementInFlight, Decremented, TypeOK, AccountTypeOK
  <1>4. SlotsHeld'
    <2>1. ASSUME NEW q \in Requests \ {r}, HoldsSlot(q)
          PROVE  inFlight'[acct[q]] = inFlight[acct[q]]
      <3>1. pc[r] \in PickedPcs => acct[r] # acct[q]
        BY <2>1 DEF OneHolderPerAccount, HoldsSlot
      <3>2. acct[q] \in Accounts
        BY <2>1 DEF ChatsInHand, HoldsSlot
      <3>3. QED
        BY <3>1, <3>2 DEF DecrementInFlight, TypeOK, AccountTypeOK
    <2>2. QED
      BY <1>1, <1>2, <2>1 DEF SlotsHeld
  <1>5. OneHolderPerAccount'
    BY <1>1, <1>2 DEF OneHolderPerAccount
  <1>6. SessionsOwned'
    BY <1>1 DEF SessionsOwned
  <1>7. upstream \subseteq upstream'
    OBVIOUS
  <1>8. PooledChatsUnused'
    <2>1. None \notin Pooled
      BY PoolAssumption DEF Pooled, TypeOK, PoolTypeOK
    <2>2. QED
      BY <1>1, <1>7, <2>1 DEF PooledChatsUnused, Pooled
  <1>9. NoDeleteWhileActive' /\ DeletesExist'
    BY <1>7 DEF NoDeleteWhileActive, DeletesExist
  <1>10. ChatsInHand'
    <2>1. \A q \in Requests \ {r} :
            /\ pc'[q] = "headers" => chat'[q] \in upstream' \ (activeSessions' \cup deleting')
            /\ pc'[q] \in PickedPcs \cup SessionPcs => acct'[q] \in Accounts
            /\ IF pc'[q] \in SessionPcs \cup {"headers"} THEN chat'[q] \in Chats ELSE chat'[q] = None
      BY <1>1, <1>7 DEF ChatsInHand
    <2>2. QED
      BY <1>1, <2>1 DEF ChatsInHand, PickedPcs, SessionPcs
  <1>11. QED
    BY <1>3, <1>4, <1>5, <1>6, <1>8, <1>9, <1>10

\* A request releases its session and leaves.
LEMMA ReleaseKeepsLedger ==
  ASSUME TypeOK, SlotInvariant, NEW r \in Requests, pc[r] \in SessionPcs,
         Release(chat[r], acct[r]), Leaves(r), UNCHANGED <<slots, upstream>>
  PROVE  SlotInvariant'
  <1> USE DEF SlotInvariant
  <1>1. /\ pc'[r] \in {"idle", "pick", "acquire"} /\ chat'[r] = None
        /\ \A q \in Requests \ {r} :
             pc'[q] = pc[q] /\ acct'[q] = acct[q] /\ chat'[q] = chat[q]
    BY LeavesHolders
  <1>2. /\ activeSessions' = activeSessions \ {chat[r]}
        /\ \A c \in Chats \ {chat[r]} : owner'[c] = owner[c]
        /\ chat[r] \in activeSessions => DecrementInFlight(acct[r])
        /\ chat[r] \notin activeSessions => inFlight' = inFlight
        /\ deleting' = deleting \cup ({chat[r]} \cap activeSessions)
    BY DEF Release, IsActive, Delete, TypeOK, PoolTypeOK
  <1>3. chat[r] \in Chats /\ \A q \in Requests \ {r} : chat[q] # chat[r]
    BY PoolAssumption DEF ChatsInHand, SessionsOwned
  <1>4. /\ ~HoldsSlot(r)'
        /\ \A q \in Requests \ {r} : HoldsSlot(q)' <=> HoldsSlot(q)
    BY <1>1, <1>2, <1>3 DEF HoldsSlot, PickedPcs, SessionPcs
  <1>5. SlotsCounted'
    BY <1>2 DEF SlotsCounted, DecrementInFlight, Decremented, TypeOK, AccountTypeOK
  <1>6. SlotsHeld'
    <2>1. ASSUME NEW q \in Requests \ {r}, HoldsSlot(q)
          PROVE  inFlight'[acct[q]] = inFlight[acct[q]]
      <3>1. chat[r] \in activeSessions => acct[r] # acct[q]
        BY <2>1 DEF OneHolderPerAccount, HoldsSlot
      <3>2. acct[q] \in Accounts
        BY <2>1 DEF ChatsInHand, HoldsSlot
      <3>3. QED
        BY <1>2, <3>1, <3>2 DEF DecrementInFlight, TypeOK, AccountTypeOK
    <2>2. QED
      BY <1>1, <1>4, <2>1 DEF SlotsHeld
  <1>7. OneHolderPerAccount'
    BY <1>1, <1>4 DEF OneHolderPerAccount
  <1>8. SessionsOwned'
    <2>1. ASSUME NEW c \in activeSessions'
          PROVE  \E q \in Requests : pc'[q] \in SessionPcs /\ chat'[q] = c /\ owner'[c] = acct'[q]
      <3>1. c \in activeSessions /\ c # chat[r] /\ c \in Chats
        BY <1>2, <2>1 DEF TypeOK, PoolTypeOK
      <3>2. PICK q \in Requests : pc[q] \in SessionPcs /\ chat[q] = c /\ owner[c] = acct[q]
        BY <3>1 DEF SessionsOwned
      <3>3. q # r
        BY <3>1, <3>2
      <3>4. QED
        BY <1>1, <1>2, <3>1, <3>2, <3>3
    <2>2. QED
      BY <1>1, <2>1 DEF SessionsOwned
  <1>9. PooledChatsUnused'
    <2>1. None \notin Pooled
      BY PoolAssumption DEF Pooled, TypeOK, PoolTypeOK
    <2>2. QED
      BY <1>1, <1>2, <2>1 DEF PooledChatsUnused, Pooled
  <1>10. NoDeleteWhileActive' /\ DeletesExist'
    BY <1>2 DEF NoDeleteWhileActive, DeletesExist
  <1>11. ChatsInHand'
    BY <1>1, <1>2, <1>3 DEF ChatsInHand, PickedPcs, SessionPcs
  <1>12. QED
    BY <1>5, <1>6, <1>7, <1>8, <1>9, <1>10, <1>11

-----------------------------------------------------------------------------
(* Taking an account, taking or opening a chat *)

\* A request that holds nothing takes the slot of an account nobody holds.
LEMMA PickTakesSlot ==
  ASSUME TypeOK, SlotInvariant, NEW r \in Requests, NEW a \in Accounts, NEW exclude,
         pc[r] \notin PickedPcs \cup SessionPcs, PickAccount(exclude, a),
         \E label \in PickedPcs \ {"headers"} : pc' = [pc EXCEPT ![r] = label],
         acct' = [acct EXCEPT ![r] = a],
         UNCHANGED <<chat, activeSessions, owner, slots, deleting, upstream>>
  PROVE  SlotInvariant'
  <1> USE DEF SlotInvariant
  <1>1. /\ pc'[r] \in PickedPcs \ {"headers"} /\ acct'[r] = a
        /\ \A q \in Requests \ {r} : pc'[q] = pc[q] /\ acct'[q] = acct[q]
    BY DEF TypeOK, RequestTypeOK
  <1>2. inFlight[a] = 0 /\ inFlight'[a] = 1 /\ \A b \in Accounts \ {a} : inFlight'[b] = inFlight[b]
    BY DEF PickAccount, Candidates, IsAvailable, TypeOK, AccountTypeOK
  <1>3. \A q \in Requests \ {r} : HoldsSlot(q)' <=> HoldsSlot(q)
    BY <1>1 DEF HoldsSlot
  <1>4. \A q \in Requests : HoldsSlot(q) => acct[q] \in Accounts \ {a}
    BY <1>2 DEF SlotsHeld, ChatsInHand, HoldsSlot
  <1>5. SlotsCounted'
    BY <1>2 DEF SlotsCounted
  <1>6. SlotsHeld'
    BY <1>1, <1>2, <1>3, <1>4 DEF SlotsHeld
  <1>7. OneHolderPerAccount'
    BY <1>1, <1>3, <1>4 DEF OneHolderPerAccount
  <1>8. SessionsOwned'
    BY <1>1 DEF SessionsOwned
  <1>9. PooledChatsUnused' /\ NoDeleteWhileActive' /\ DeletesExist'
    BY DEF PooledChatsUnused, Pooled, NoDeleteWhileActive, DeletesExist
  <1>10. ChatsInHand'
    BY <1>1 DEF ChatsInHand, PickedPcs, SessionPcs
  <1>11. QED
    BY <1>5, <1>6, <1>7, <1>8, <1>9, <1>10

\* A ready chat passes from the pool to the request, and to no other.
LEMMA PopReadyKeepsLedger ==
  ASSUME TypeOK, SlotInvariant, NEW r \in Requests, PopReady(r)
  PROVE  SlotInvariant'
  <1> USE DEF SlotInvariant
  <1>1. acct[r] \in Accounts
    BY DEF PopReady, ChatsInHand, PickedPcs
  <1>2. PICK c \in Chats : PopPooledChat(acct[r], c) /\ chat' = [chat EXCEPT ![r] = c]
    BY DEF PopReady
  <1>3. /\ c \in slots[acct[r]]
        /\ slots' = [slots EXCEPT ![acct[r]] = Fresh(acct[r]) \ {c}]
        /\ deleting' = deleting \cup Stale(acct[r])
        /\ c \notin Stale(acct[r])
        /\ Stale(acct[r]) \subseteq slots[acct[r]]
        /\ Fresh(acct[r]) = slots[acct[r]] \ Stale(acct[r])
    BY <1>2 DEF PopPooledChat, OldestFresh, Fresh, Stale, Delete
  <1>4. c \in Pooled /\ Stale(acct[r]) \subseteq Pooled
    BY <1>1, <1>3 DEF Pooled
  <1>5. c \notin Pooled'
    <2>1. ASSUME NEW a \in Accounts PROVE c \notin slots'[a]
      BY <1>1, <1>3 DEF PooledChatsUnused, TypeOK, PoolTypeOK
    <2>2. QED
      BY <2>1 DEF Pooled
  <1>6. Pooled' \subseteq Pooled \ Stale(acct[r])
    <2>1. ASSUME NEW a \in Accounts PROVE slots'[a] \subseteq slots[a] \ Stale(acct[r])
      BY <1>1, <1>3 DEF PooledChatsUnused, TypeOK, PoolTypeOK
    <2>2. QED
      BY <2>1 DEF Pooled
  <1>7. /\ pc[r] = "pop" /\ pc'[r] = "headers" /\ chat'[r] = c /\ acct' = acct
        /\ \A q \in Requests \ {r} : pc'[q] = pc[q] /\ chat'[q] = chat[q]
        /\ UNCHANGED <<inFlight, activeSessions, owner, upstream>>
    BY <1>2 DEF PopReady, accountVars, TypeOK, RequestTypeOK
  <1>8. \A q \in Requests : HoldsSlot(q)' <=> HoldsSlot(q)
    BY <1>7 DEF HoldsSlot, PickedPcs, SessionPcs
  <1>9. SlotsCounted' /\ SlotsHeld' /\ OneHolderPerAccount'
    BY <1>7, <1>8 DEF SlotsCounted, SlotsHeld, OneHolderPerAccount
  <1>10. SessionsOwned'
    <2>1. \A q \in Requests : chat[q] # c
      BY <1>4 DEF PooledChatsUnused
    <2>2. QED
      BY <1>7, <2>1 DEF SessionsOwned, SessionPcs
  <1>11. PooledChatsUnused'
    <2>1. Pooled' \subseteq upstream' \ (activeSessions' \cup deleting')
      BY <1>3, <1>6, <1>7 DEF PooledChatsUnused
    <2>2. \A q \in Requests : chat'[q] \notin Pooled'
      BY <1>5, <1>6, <1>7 DEF PooledChatsUnused
    <2>3. \A a, b \in Accounts : a # b => slots'[a] \cap slots'[b] = {}
      BY <1>1, <1>3 DEF PooledChatsUnused, TypeOK, PoolTypeOK
    <2>4. QED
      BY <2>1, <2>2, <2>3 DEF PooledChatsUnused
  <1>12. NoDeleteWhileActive' /\ DeletesExist'
    BY <1>3, <1>4, <1>7 DEF NoDeleteWhileActive, DeletesExist, PooledChatsUnused
  <1>13. ChatsInHand'
    <2>1. c \in upstream' \ (activeSessions' \cup deleting')
      BY <1>3, <1>4, <1>7 DEF PooledChatsUnused
    <2>2. ASSUME NEW q \in Requests \ {r}, pc[q] = "headers"
          PROVE  chat[q] \in upstream' \ (activeSessions' \cup deleting')
      BY <1>3, <1>4, <1>7, <2>2 DEF ChatsInHand, PooledChatsUnused
    <2>3. QED
      BY <1>1, <1>7, <2>1, <2>2 DEF ChatsInHand
  <1>14. QED
    BY <1>9, <1>10, <1>11, <1>12, <1>13

\* The stale chats of an account go from its pool to the deletions.
LEMMA PopEmptyKeepsLedger ==
  ASSUME TypeOK, SlotInvariant, NEW r \in Requests, PopEmpty(r)
  PROVE  SlotInvariant'
  <1> USE DEF SlotInvariant
  <1>1. acct[r] \in Accounts
    BY DEF PopEmpty, ChatsInHand, PickedPcs
  <1>2. /\ slots' = [slots EXCEPT ![acct[r]] = {}]
        /\ deleting' = deleting \cup Stale(acct[r])
        /\ Stale(acct[r]) \subseteq slots[acct[r]]
        /\ UNCHANGED <<inFlight, activeSessions, owner, upstream, acct, chat>>
    BY DEF PopEmpty, NoPooledChat, Stale, Delete, GoTo, accountVars
  <1>3. Stale(acct[r]) \subseteq Pooled
    BY <1>1, <1>2 DEF Pooled
  <1>4. Pooled' \subseteq Pooled \ Stale(acct[r])
    <2>1. ASSUME NEW a \in Accounts PROVE slots'[a] \subseteq slots[a] \ Stale(acct[r])
      BY <1>1, <1>2 DEF PooledChatsUnused, TypeOK, PoolTypeOK
    <2>2. QED
      BY <2>1 DEF Pooled
  <1>5. /\ pc[r] = "pop" /\ pc'[r] = "create"
        /\ \A q \in Requests \ {r} : pc'[q] = pc[q]
    BY DEF PopEmpty, GoTo, TypeOK, RequestTypeOK
  <1>6. \A q \in Requests : HoldsSlot(q)' <=> HoldsSlot(q)
    BY <1>2, <1>5 DEF HoldsSlot, PickedPcs, SessionPcs
  <1>7. SlotsCounted' /\ SlotsHeld' /\ OneHolderPerAccount'
    BY <1>2, <1>6 DEF SlotsCounted, SlotsHeld, OneHolderPerAccount
  <1>8. SessionsOwned'
    BY <1>2, <1>5 DEF SessionsOwned, SessionPcs
  <1>9. PooledChatsUnused'
    <2>1. \A a, b \in Accounts : a # b => slots'[a] \cap slots'[b] = {}
      BY <1>1, <1>2 DEF PooledChatsUnused, TypeOK, PoolTypeOK
    <2>2. QED
      BY <1>2, <1>4, <2>1 DEF PooledChatsUnused
  <1>10. NoDeleteWhileActive' /\ DeletesExist'
    BY <1>2, <1>3 DEF NoDeleteWhileActive, DeletesExist, PooledChatsUnused
  <1>11. ChatsInHand'
    BY <1>1, <1>2, <1>3, <1>5 DEF ChatsInHand, PooledChatsUnused, PickedPcs, SessionPcs
  <1>12. QED
    BY <1>7, <1>8, <1>9, <1>10, <1>11

\* A session is registered for a chat that exists and is nobody else's.
LEMMA RegisterKeepsLedger ==
  ASSUME TypeOK, SlotInvariant, NEW r \in Requests, NEW c \in Chats,
         pc[r] \in PickedPcs, Register(c, acct[r]),
         pc' = [pc EXCEPT ![r] = "fetch"], chat' = [chat EXCEPT ![r] = c], acct' = acct,
         \A q \in Requests \ {r} : chat[q] # c,
         c \notin Pooled \cup deleting, upstream' = upstream \cup {c},
         UNCHANGED <<inFlight, slots, deleting>>
  PROVE  SlotInvariant'
  <1> USE DEF SlotInvariant
  <1>1. /\ pc'[r] = "fetch" /\ chat'[r] = c /\ acct[r] \in Accounts
        /\ \A q \in Requests \ {r} : pc'[q] = pc[q] /\ chat'[q] = chat[q]
    BY DEF ChatsInHand, TypeOK, RequestTypeOK
  <1>2. /\ activeSessions' = activeSessions \cup {c} /\ owner'[c] = acct[r]
        /\ \A d \in Chats \ {c} : owner'[d] = owner[d]
    BY DEF Register, TypeOK, PoolTypeOK
  <1>3. \A q \in Requests : HoldsSlot(q)' <=> HoldsSlot(q)
    BY <1>1, <1>2 DEF HoldsSlot, PickedPcs, SessionPcs
  <1>4. SlotsCounted' /\ SlotsHeld' /\ OneHolderPerAccount'
    BY <1>3 DEF SlotsCounted, SlotsHeld, OneHolderPerAccount
  <1>5. SessionsOwned'
    <2>1. ASSUME NEW d \in activeSessions'
          PROVE  \E q \in Requests : pc'[q] \in SessionPcs /\ chat'[q] = d /\ owner'[d] = acct'[q]
      <3>1. CASE d = c
        BY <1>1, <1>2, <3>1 DEF SessionPcs
      <3>2. CASE d # c
        <4>1. PICK q \in Requests : pc[q] \in SessionPcs /\ chat[q] = d /\ owner[d] = acct[q]
          BY <1>2, <2>1, <3>2 DEF SessionsOwned
        <4>2. q # r
          BY <4>1 DEF PickedPcs, SessionPcs
        <4>3. d \in Chats
          BY <1>2, <2>1, <3>2 DEF TypeOK, PoolTypeOK
        <4>4. QED
          BY <1>1, <1>2, <3>2, <4>1, <4>2, <4>3
      <3>3. QED
        BY <3>1, <3>2
    <2>2. \A p, q \in Requests : p # q /\ chat'[p] # None => chat'[p] # chat'[q]
      BY <1>1 DEF SessionsOwned
    <2>3. QED
      BY <2>1, <2>2 DEF SessionsOwned
  <1>6. PooledChatsUnused'
    <2>1. Pooled' = Pooled
      BY DEF Pooled
    <2>2. QED
      BY <1>1, <1>2, <2>1 DEF PooledChatsUnused
  <1>7. NoDeleteWhileActive' /\ DeletesExist'
    BY <1>2 DEF NoDeleteWhileActive, DeletesExist
  <1>8. ChatsInHand'
    BY <1>1, <1>2 DEF ChatsInHand, PickedPcs, SessionPcs
  <1>9. QED
    BY <1>4, <1>5, <1>6, <1>7, <1>8

\* A rate-limited reply takes one more slot, or none.
LEMMA RateLimitedKeepsLedger ==
  ASSUME TypeOK, SlotInvariant, NEW r \in Requests, RateLimited(r)
  PROVE  SlotInvariant'
  <1> USE DEF SlotInvariant
  <1>1. /\ pc[r] = "fetch" /\ pc'[r] = "rejected"
        /\ \A q \in Requests \ {r} : pc'[q] = pc[q]
        /\ UNCHANGED <<acct, chat, activeSessions, owner, slots, deleting, upstream>>
    BY DEF RateLimited, Throw, TypeOK, RequestTypeOK, poolVars
  <1>2. \A a \in Accounts : inFlight'[a] = inFlight[a] \/ (inFlight[a] = 0 /\ inFlight'[a] = 1)
    <2>1. ASSUME NEW next \in Accounts, PickAccount(acct[r], next)
          PROVE  inFlight[next] = 0 /\ inFlight' = [inFlight EXCEPT ![next] = 1]
      BY <2>1 DEF PickAccount, Candidates, IsAvailable, TypeOK, AccountTypeOK
    <2>2. inFlight' = inFlight
          \/ \E next \in Accounts : PickAccount(acct[r], next)
      BY DEF RateLimited
    <2>3. QED
      BY <2>1, <2>2 DEF TypeOK, AccountTypeOK
  <1>3. \A q \in Requests : HoldsSlot(q)' <=> HoldsSlot(q)
    BY <1>1 DEF HoldsSlot, PickedPcs, SessionPcs
  <1>4. \A q \in Requests : HoldsSlot(q) => acct[q] \in Accounts
    BY DEF ChatsInHand, HoldsSlot
  <1>5. SlotsCounted' /\ SlotsHeld' /\ OneHolderPerAccount'
    BY <1>1, <1>2, <1>3, <1>4 DEF SlotsCounted, SlotsHeld, OneHolderPerAccount
  <1>6. SessionsOwned'
    BY <1>1 DEF SessionsOwned, SessionPcs
  <1>7. PooledChatsUnused' /\ NoDeleteWhileActive' /\ DeletesExist'
    BY <1>1 DEF PooledChatsUnused, Pooled, NoDeleteWhileActive, DeletesExist
  <1>8. ChatsInHand'
    BY <1>1 DEF ChatsInHand, PickedPcs, SessionPcs
  <1>9. QED
    BY <1>5, <1>6, <1>7, <1>8

-----------------------------------------------------------------------------
(* What runs beside the requests *)

\* The sweeper gives back the slots of the sessions it takes, and no others.
LEMMA SweepKeepsLedger ==
  ASSUME TypeOK, SlotInvariant, SweepStuckSessions, UNCHANGED requestVars
  PROVE  SlotInvariant'
  <1> USE DEF SlotInvariant
  <1>1. UNCHANGED <<pc, acct, chat, slots, upstream>>
    BY DEF SweepStuckSessions, requestVars
  <1>2. /\ activeSessions' = activeSessions \ StuckSessions
        /\ StuckSessions \subseteq activeSessions
        /\ \A c \in Chats \ StuckSessions : owner'[c] = owner[c]
        /\ deleting' = deleting \cup StuckSessions
        /\ inFlight' = SlotsSwept
    BY DEF SweepStuckSessions, SessionsLeft, StuckSessions, Delete
  <1>3. \A q \in Requests : HoldsSlot(q)' =>
           HoldsSlot(q) /\ (pc[q] \in SessionPcs => chat[q] \in activeSessions \ StuckSessions)
    BY <1>1, <1>2 DEF HoldsSlot, PickedPcs, SessionPcs
  <1>4. SlotsCounted'
    BY <1>2 DEF SlotsCounted, SlotsSwept, Decremented, TypeOK, AccountTypeOK
  <1>5. SlotsHeld'
    <2>1. ASSUME NEW q \in Requests, HoldsSlot(q)'
          PROVE  inFlight'[acct[q]] > 0
      <3>1. /\ HoldsSlot(q) /\ acct[q] \in Accounts
            /\ pc[q] \in SessionPcs => chat[q] \notin StuckSessions
        BY <1>3, <2>1 DEF ChatsInHand, HoldsSlot
      <3>2. ASSUME NEW c \in StuckSessions PROVE owner[c] # acct[q]
        <4>1. PICK r \in Requests : pc[r] \in SessionPcs /\ chat[r] = c /\ owner[c] = acct[r]
          BY <1>2 DEF SessionsOwned
        <4>2. HoldsSlot(r)
          BY <1>2, <4>1 DEF HoldsSlot
        <4>3. r # q
          BY <3>1, <4>1
        <4>4. QED
          BY <3>1, <4>1, <4>2, <4>3 DEF OneHolderPerAccount
      <3>3. inFlight'[acct[q]] = inFlight[acct[q]]
        BY <1>2, <3>1, <3>2 DEF SlotsSwept
      <3>4. QED
        BY <3>1, <3>3 DEF SlotsHeld
    <2>2. QED
      BY <1>1, <2>1 DEF SlotsHeld
  <1>6. OneHolderPerAccount'
    BY <1>1, <1>3 DEF OneHolderPerAccount
  <1>7. SessionsOwned'
    <2>1. ASSUME NEW c \in activeSessions'
          PROVE  \E q \in Requests : pc[q] \in SessionPcs /\ chat[q] = c /\ owner'[c] = acct[q]
      <3>1. c \in activeSessions /\ c \in Chats \ StuckSessions
        BY <1>2, <2>1 DEF TypeOK, PoolTypeOK
      <3>2. PICK q \in Requests : pc[q] \in SessionPcs /\ chat[q] = c /\ owner[c] = acct[q]
        BY <3>1 DEF SessionsOwned
      <3>3. QED
        BY <1>2, <3>1, <3>2
    <2>2. QED
      BY <1>1, <2>1 DEF SessionsOwned
  <1>8. PooledChatsUnused'
    <2>1. Pooled' = Pooled
      BY <1>1 DEF Pooled
    <2>2. QED
      BY <1>1, <1>2, <2>1 DEF PooledChatsUnused
  <1>9. NoDeleteWhileActive' /\ DeletesExist'
    BY <1>1, <1>2 DEF NoDeleteWhileActive, DeletesExist
  <1>10. ChatsInHand'
    BY <1>1, <1>2 DEF ChatsInHand
  <1>11. QED
    BY <1>4, <1>5, <1>6, <1>7, <1>8, <1>9, <1>10

\* A refill adds a chat nothing refers to.
LEMMA TopUpKeepsLedger ==
  ASSUME TypeOK, SlotInvariant, NEW a \in Accounts, NEW c \in UnusedChats,
         TopUpCreates(a, c), UNCHANGED requestVars
  PROVE  SlotInvariant'
  <1> USE DEF SlotInvariant
  <1>1. UNCHANGED <<pc, acct, chat, inFlight, activeSessions, owner, deleting>>
    BY DEF TopUpCreates, requestVars, accountVars
  <1>2. /\ upstream' = upstream \cup {c}
        /\ slots'[a] = slots[a] \cup {c}
        /\ \A b \in Accounts \ {a} : slots'[b] = slots[b]
    BY DEF TopUpCreates, TypeOK, PoolTypeOK
  <1>3. c \notin upstream /\ \A q \in Requests : chat[q] # c
    BY DEF UnusedChats
  <1>4. Pooled' \subseteq Pooled \cup {c}
    BY <1>2 DEF Pooled
  <1>5. \A b \in Accounts : c \notin slots[b]
    BY <1>3 DEF PooledChatsUnused, Pooled
  <1>6. c \notin activeSessions \cup deleting
    BY <1>3 DEF NoDeleteWhileActive, DeletesExist
  <1>7. PooledChatsUnused'
    BY <1>1, <1>2, <1>3, <1>4, <1>5, <1>6 DEF PooledChatsUnused
  <1>8. SlotsCounted' /\ SlotsHeld' /\ OneHolderPerAccount' /\ SessionsOwned'
    BY <1>1 DEF SlotsCounted, SlotsHeld, OneHolderPerAccount, SessionsOwned, HoldsSlot
  <1>9. NoDeleteWhileActive' /\ DeletesExist' /\ ChatsInHand'
    BY <1>1, <1>2 DEF NoDeleteWhileActive, DeletesExist, ChatsInHand
  <1>10. QED
    BY <1>7, <1>8, <1>9

\* A deletion removes a chat nobody uses any more.
LEMMA DeleteKeepsLedger ==
  ASSUME TypeOK, SlotInvariant, NEW c \in Chats, DeleteSession(c), UNCHANGED requestVars
  PROVE  SlotInvariant'
  <1> USE DEF SlotInvariant
  <1>1. /\ UNCHANGED <<pc, acct, chat, inFlight, activeSessions, owner, slots>>
        /\ c \in deleting /\ deleting' = deleting \ {c}
        /\ upstream \ {c} \subseteq upstream'
    BY DEF DeleteSession, requestVars, accountVars
  <1>2. PooledChatsUnused'
    <2>1. Pooled' = Pooled
      BY <1>1 DEF Pooled
    <2>2. QED
      BY <1>1, <2>1 DEF PooledChatsUnused
  <1>3. SlotsCounted' /\ SlotsHeld' /\ OneHolderPerAccount' /\ SessionsOwned'
    BY <1>1 DEF SlotsCounted, SlotsHeld, OneHolderPerAccount, SessionsOwned, HoldsSlot
  <1>4. NoDeleteWhileActive' /\ DeletesExist' /\ ChatsInHand'
    BY <1>1 DEF NoDeleteWhileActive, DeletesExist, ChatsInHand
  <1>5. QED
    BY <1>2, <1>3, <1>4

\* The rest does not touch the ledger.
LEMMA StutterKeepsLedger ==
  ASSUME SlotInvariant, UNCHANGED <<ledger, pc, acct, chat>>
  PROVE  SlotInvariant'
  BY DEF SlotInvariant, ledger, SlotsCounted, SlotsHeld, OneHolderPerAccount, HoldsSlot,
         SessionsOwned, PooledChatsUnused, Pooled, NoDeleteWhileActive, ChatsInHand, DeletesExist

-----------------------------------------------------------------------------
(* The theorems *)

\* One step of one request keeps the ledger.
LEMMA RequestKeepsLedger ==
  ASSUME TypeOK, SlotInvariant, NEW r \in Requests,
         Arrive(r) \/ SetupStep(r) \/ StreamStep(r)
  PROVE  SlotInvariant'
  <1> USE DEF ledger, accountVars, poolVars, Pcs, PickedPcs, SessionPcs
  <1>1. CASE Arrive(r)
    BY <1>1, MoveKeepsLedger DEF Arrive, GoTo
  <1>2. CASE Pick(r)
    <2>1. PICK a \in Accounts : PickAccount(lastFailed[r], a) /\ acct' = [acct EXCEPT ![r] = a]
      BY <1>2 DEF Pick
    <2>2. \E label \in PickedPcs \ {"headers"} : pc' = [pc EXCEPT ![r] = label]
      <3>1. CASE r \in ImageRequests
        BY <1>2, <3>1 DEF Pick
      <3>2. CASE r \notin ImageRequests
        BY <1>2, <3>2 DEF Pick
      <3>3. QED
        BY <3>1, <3>2
    <2>3. QED
      BY <1>2, <2>1, <2>2, PickTakesSlot DEF Pick
  <1>3. CASE PickNone(r)
    <2>1. CASE attempt[r] = 0
      BY <1>3, <2>1, MoveKeepsLedger DEF PickNone, GoTo
    <2>2. CASE attempt[r] # 0
      BY <1>3, <2>2, NextAttemptLeaves, LeaveBeforeSession DEF PickNone
    <2>3. QED
      BY <2>1, <2>2
  <1>4. CASE Upload(r)
    BY <1>4, MoveKeepsLedger DEF Upload, GoTo
  <1>5. CASE UploadFails(r)
    BY <1>5, NextAttemptLeaves, LeaveBeforeSession DEF UploadFails
  <1>6. CASE AcquirePick(r)
    <2>1. PICK a \in Accounts : PickAccount(None, a) /\ acct' = [acct EXCEPT ![r] = a]
      BY <1>6 DEF AcquirePick
    <2>2. QED
      BY <1>6, <2>1, PickTakesSlot DEF AcquirePick
  <1>7. CASE AcquireNone(r)
    BY <1>7, NextAttemptLeaves, LeaveBeforeSession DEF AcquireNone
  <1>8. CASE PopReady(r)
    BY <1>8, PopReadyKeepsLedger
  <1>9. CASE PopEmpty(r)
    BY <1>9, PopEmptyKeepsLedger
  <1>10. CASE Headers(r)
    <2>1. /\ chat[r] \in Chats /\ chat[r] \in upstream \ deleting
          /\ chat[r] \notin Pooled
      BY <1>10 DEF Headers, SlotInvariant, ChatsInHand, PooledChatsUnused
    <2>2. \A q \in Requests \ {r} : chat[q] # chat[r]
      BY <2>1, PoolAssumption DEF SlotInvariant, SessionsOwned
    <2>3. chat = [chat EXCEPT ![r] = chat[r]]
      BY DEF TypeOK, RequestTypeOK
    <2>4. QED
      BY <1>10, <2>1, <2>2, <2>3, RegisterKeepsLedger DEF Headers, GoTo
  <1>11. CASE CreateChat(r)
    <2>1. PICK c \in UnusedChats : /\ upstream' = upstream \cup {c}
                                   /\ Register(c, acct[r])
                                   /\ chat' = [chat EXCEPT ![r] = c]
      BY <1>11 DEF CreateChat
    <2>2. /\ c \in Chats /\ c \notin Pooled \cup deleting
          /\ \A q \in Requests \ {r} : chat[q] # c
      BY DEF UnusedChats, SlotInvariant, PooledChatsUnused, DeletesExist
    <2>3. QED
      BY <1>11, <2>1, <2>2, RegisterKeepsLedger DEF CreateChat
  <1>12. CASE CreateFails(r)
    BY <1>12, NextAttemptLeaves, LeaveBeforeSession DEF CreateFails
  <1>13. CASE CreateTimesOut(r)
    BY <1>13, NextAttemptLeaves, LeaveBeforeSession DEF CreateTimesOut
  <1>14. CASE SkipAccount(r)
    <2>1. chat = [chat EXCEPT ![r] = None]
      BY <1>14 DEF SkipAccount, SlotInvariant, ChatsInHand, TypeOK, RequestTypeOK
    <2>2. Leaves(r)
      <3>1. CASE tries[r] + 1 < Cardinality(Accounts)
        BY <1>14, <2>1, <3>1 DEF SkipAccount, Leaves
      <3>2. CASE ~(tries[r] + 1 < Cardinality(Accounts))
        BY <1>14, <3>2, NextAttemptLeaves DEF SkipAccount
      <3>3. QED
        BY <3>1, <3>2
    <2>3. QED
      BY <1>14, <2>2, LeaveBeforeSession DEF SkipAccount
  <1>15. CASE FetchSucceeds(r)
    BY <1>15, MoveKeepsLedger DEF FetchSucceeds, GoTo
  <1>16. CASE RateLimited(r)
    BY <1>16, RateLimitedKeepsLedger
  <1>17. CASE Refused(r)
    BY <1>17, MoveKeepsLedger DEF Refused, Throw
  <1>18. CASE CallFails(r)
    BY <1>18, MoveKeepsLedger DEF CallFails, Throw
  <1>19. CASE CatchRetryable(r)
    BY <1>19, NextAttemptLeaves, ReleaseKeepsLedger DEF CatchRetryable
  <1>20. CASE CatchFatal(r)
    BY <1>20, NextAttemptLeaves, ReleaseKeepsLedger DEF CatchFatal
  <1>21. CASE FirstChunk(r)
    BY <1>21, MoveKeepsLedger DEF FirstChunk, GoTo
  <1>22. CASE FirstChunkTimeout(r)
    BY <1>22, NextAttemptLeaves, ReleaseKeepsLedger DEF FirstChunkTimeout
  <1>23. CASE FirstChunkRejected(r)
    BY <1>23, NextAttemptLeaves, ReleaseKeepsLedger DEF FirstChunkRejected
  <1>24. CASE StreamEnds(r)
    BY <1>24, MoveKeepsLedger DEF StreamEnds, GoTo
  <1>25. CASE ReleaseSession(r)
    BY <1>25, NextAttemptLeaves, ReleaseKeepsLedger DEF ReleaseSession
  <1>26. QED
    BY <1>1, <1>2, <1>3, <1>4, <1>5, <1>6, <1>7, <1>8, <1>9, <1>10, <1>11, <1>12, <1>13,
       <1>14, <1>15, <1>16, <1>17, <1>18, <1>19, <1>20, <1>21, <1>22, <1>23, <1>24, <1>25
    DEF SetupStep, StreamStep

\* The types and the ledger hold at the start.
LEMMA InitInvariant ==
  ASSUME Init
  PROVE  TypeOK /\ SlotInvariant
  <1> USE DEF Init, AccountInit, PoolInit
  <1>1. AccountTypeOK
    BY DEF AccountTypeOK
  <1>2. PoolTypeOK
    <2>1. toppingUp \in [Accounts -> BOOLEAN]
      <3>1. (PoolTarget > 0) \in BOOLEAN
        BY PoolAssumption
      <3>2. QED
        BY <3>1
    <2>2. QED
      BY <2>1 DEF PoolTypeOK
  <1>3. RequestTypeOK
    BY RequestAssumption DEF RequestTypeOK, Pcs, ReplyKinds
  <1>4. Pooled = {}
    BY DEF Pooled
  <1>5. \A r \in Requests : ~HoldsSlot(r)
    BY DEF HoldsSlot, PickedPcs, SessionPcs
  <1>6. SlotsCounted /\ SlotsHeld /\ OneHolderPerAccount
    BY <1>5 DEF SlotsCounted, SlotsHeld, OneHolderPerAccount
  <1>7. SessionsOwned /\ PooledChatsUnused /\ NoDeleteWhileActive /\ ChatsInHand /\ DeletesExist
    BY <1>4 DEF SessionsOwned, PooledChatsUnused, NoDeleteWhileActive, ChatsInHand, DeletesExist,
                PickedPcs, SessionPcs
  <1>8. QED
    BY <1>1, <1>2, <1>3, <1>6, <1>7 DEF TypeOK, SlotInvariant

\* Every step of the system keeps them.
LEMMA StepInvariant ==
  ASSUME TypeOK, SlotInvariant, [Next]_vars
  PROVE  TypeOK' /\ SlotInvariant'
  <1>1. ASSUME NEW r \in Requests, Arrive(r) \/ SetupStep(r) \/ StreamStep(r)
        PROVE  TypeOK' /\ SlotInvariant'
    <2>1. TypeOK'
      BY <1>1, ChooseType, OpenType, CallType, StreamType DEF SlotInvariant, SetupStep
    <2>2. QED
      BY <1>1, <2>1, RequestKeepsLedger
  <1>2. CASE PoolStep /\ UNCHANGED requestVars
    <2>1. SlotInvariant'
      <3>1. ASSUME NEW a \in Accounts, TopUpStops(a) PROVE SlotInvariant'
        BY <1>2, <3>1, StutterKeepsLedger DEF TopUpStops, requestVars, accountVars, ledger
      <3>2. QED
        BY <1>2, <3>1, SweepKeepsLedger, TopUpKeepsLedger, DeleteKeepsLedger DEF PoolStep
    <2>2. QED
      BY <1>2, <2>1, BackgroundType
  <1>3. CASE Tick /\ UNCHANGED requestVars
    BY <1>3, BackgroundType, StutterKeepsLedger DEF Tick, requestVars, ledger
  <1>4. CASE AccountStep
    <2>1. UNCHANGED <<ledger, pc, acct, chat>>
      BY <1>4 DEF AccountStep, SaveCookies, ToggleDisabled, poolVars, requestVars, ledger
    <2>2. QED
      BY <1>4, <2>1, BackgroundType, StutterKeepsLedger
  <1>5. CASE UNCHANGED vars
    <2>1. TypeOK'
      BY <1>5 DEF vars, accountVars, poolVars, requestVars,
                  TypeOK, AccountTypeOK, PoolTypeOK, RequestTypeOK
    <2>2. UNCHANGED <<ledger, pc, acct, chat>>
      BY <1>5 DEF vars, accountVars, poolVars, requestVars, ledger
    <2>3. QED
      BY <2>1, <2>2, StutterKeepsLedger
  <1>6. QED
    BY <1>1, <1>2, <1>3, <1>4, <1>5 DEF Next

\* Every variable keeps its type, and the ledger of slots, sessions and chats
\* is kept, in every behaviour of the gateway.
THEOREM LedgerIsKept == Spec => [](TypeOK /\ SlotInvariant)
  <1>1. Init => TypeOK /\ SlotInvariant
    BY InitInvariant
  <1>2. TypeOK /\ SlotInvariant /\ [Next]_vars => (TypeOK /\ SlotInvariant)'
    BY StepInvariant
  <1>3. QED
    BY <1>1, <1>2, PTL DEF Spec

\* Every variable keeps its type, however many requests, retries and sweeps.
THEOREM TypesHold == Spec => []TypeOK
  BY LedgerIsKept, PTL

\* No path gives a slot back while the request that took it needs it.
THEOREM SlotsStayHeld == Spec => []SlotsHeld
  <1>1. SlotInvariant => SlotsHeld
    BY DEF SlotInvariant
  <1>2. QED
    BY <1>1, LedgerIsKept, PTL

\* An account serves one request at a time, as long as the sweeper leaves the
\* request its slot.
THEOREM AccountsAreExclusive == Spec => []OneHolderPerAccount
  <1>1. SlotInvariant => OneHolderPerAccount
    BY DEF SlotInvariant
  <1>2. QED
    BY <1>1, LedgerIsKept, PTL

\* An active session belongs to one running request, on the session's account.
THEOREM SessionsAreOwned == Spec => []SessionsOwned
  <1>1. SlotInvariant => SessionsOwned
    BY DEF SlotInvariant
  <1>2. QED
    BY <1>1, LedgerIsKept, PTL

\* A chat waiting in a pool was never used and is not being deleted.
THEOREM PooledChatsAreUnused == Spec => []PooledChatsUnused
  <1>1. SlotInvariant => PooledChatsUnused
    BY DEF SlotInvariant
  <1>2. QED
    BY <1>1, LedgerIsKept, PTL

\* The upstream is never asked to delete the chat of an active session.
THEOREM DeletesWait == Spec => []NoDeleteWhileActive
  <1>1. SlotInvariant => NoDeleteWhileActive
    BY DEF SlotInvariant
  <1>2. QED
    BY <1>1, LedgerIsKept, PTL


-----------------------------------------------------------------------------
(* The counters *)

\* The sets of chats the pool counts are finite.
LEMMA ChatsFinite ==
  ASSUME NEW S \in SUBSET Chats
  PROVE  IsFiniteSet(S) /\ Cardinality(S) \in Nat
  BY PoolAssumption, FS_Subset, FS_CardinalityType

\* A session is counted when it is registered ...
LEMMA RegisterCounts ==
  ASSUME TypeOK, ActiveCountExact, NEW c \in Chats \ activeSessions, NEW a, Register(c, a)
  PROVE  ActiveCountExact'
  <1>1. IsFiniteSet(activeSessions)
    BY ChatsFinite DEF TypeOK, PoolTypeOK
  <1>2. Cardinality(activeSessions \cup {c}) = Cardinality(activeSessions) + 1
    BY <1>1, FS_AddElement
  <1>3. QED
    BY <1>2 DEF Register, ActiveCountExact

\* ... and counted down when it is released, but once only.
LEMMA ReleaseCounts ==
  ASSUME TypeOK, ActiveCountExact, NEW c, NEW a, Release(c, a)
  PROVE  ActiveCountExact'
  <1>1. IsFiniteSet(activeSessions) /\ Cardinality(activeSessions) \in Nat
    BY ChatsFinite DEF TypeOK, PoolTypeOK
  <1>2. CASE c \in activeSessions
    <2>1. Cardinality(activeSessions \ {c}) = Cardinality(activeSessions) - 1
      BY <1>1, <1>2, FS_RemoveElement
    <2>2. Cardinality(activeSessions) # 0
      BY <1>1, <1>2, FS_EmptySet
    <2>3. activeCount' = activeCount - 1 /\ activeSessions' = activeSessions \ {c}
      BY <1>1, <1>2, <2>2 DEF Release, IsActive, Decremented, ActiveCountExact
    <2>4. QED
      BY <2>1, <2>3 DEF ActiveCountExact
  <1>3. CASE c \notin activeSessions
    BY <1>3 DEF Release, IsActive, ActiveCountExact
  <1>4. QED
    BY <1>2, <1>3

\* A sweep takes as many from the counter as it takes sessions.
LEMMA SweepCounts ==
  ASSUME TypeOK, ActiveCountExact, SweepStuckSessions
  PROVE  ActiveCountExact'
  <1>1. StuckSessions \subseteq activeSessions /\ activeSessions \subseteq Chats
    BY DEF StuckSessions, TypeOK, PoolTypeOK
  <1>2. /\ Cardinality(activeSessions) \in Nat
        /\ Cardinality(StuckSessions) \in Nat
        /\ IsFiniteSet(activeSessions \ StuckSessions) /\ IsFiniteSet(StuckSessions)
        /\ Cardinality(activeSessions \ StuckSessions) \in Nat
    BY <1>1, ChatsFinite
  <1>3. Cardinality(activeSessions \ StuckSessions) =
          Cardinality(activeSessions) - Cardinality(StuckSessions)
    <2>1. activeSessions \cap StuckSessions = StuckSessions
      BY <1>1
    <2>2. IsFiniteSet(activeSessions)
      BY <1>1, ChatsFinite
    <2>3. QED
      BY <2>1, <2>2, FS_Difference
  <1>4. QED
    BY <1>2, <1>3 DEF SweepStuckSessions, SessionsLeft, CountLeft, ActiveCountExact

\* The pools keep to the target if one of them shrinks and its refill, if one
\* runs or begins, has room for another chat.
LEMMA PoolStaysBounded ==
  ASSUME TypeOK, PoolBounded, NEW a \in Accounts, NEW held \in SUBSET Chats,
         slots' = [slots EXCEPT ![a] = held],
         \A b \in Accounts \ {a} : toppingUp'[b] = toppingUp[b],
         Cardinality(held) <= PoolTarget,
         toppingUp'[a] => Cardinality(held) < PoolTarget
  PROVE  PoolBounded'
  <1>1. slots'[a] = held /\ \A b \in Accounts \ {a} : slots'[b] = slots[b]
    BY DEF TypeOK, PoolTypeOK
  <1>2. QED
    BY <1>1 DEF PoolBounded

\* A pool that shrinks has room for what its refill, if one runs, will add.
LEMMA PoolShrinks ==
  ASSUME TypeOK, PoolBounded, NEW a \in Accounts, NEW held \in SUBSET slots[a]
  PROVE  /\ held \in SUBSET Chats
         /\ Cardinality(held) <= PoolTarget
         /\ toppingUp[a] => Cardinality(held) < PoolTarget
  <1>1. slots[a] \subseteq Chats
    BY DEF TypeOK, PoolTypeOK
  <1>2. /\ Cardinality(held) <= Cardinality(slots[a])
        /\ Cardinality(held) \in Nat /\ Cardinality(slots[a]) \in Nat
    BY <1>1, ChatsFinite, FS_Subset
  <1>3. QED
    BY <1>1, <1>2, PoolAssumption DEF PoolBounded

\* Taking a ready chat out, dropping stale ones and starting a refill.
LEMMA PopReadyBounded ==
  ASSUME TypeOK, SlotInvariant, PoolBounded, NEW r \in Requests, PopReady(r)
  PROVE  PoolBounded'
  <1>1. acct[r] \in Accounts
    BY DEF PopReady, SlotInvariant, ChatsInHand, PickedPcs
  <1>2. PICK c \in Chats : PopPooledChat(acct[r], c)
    BY DEF PopReady
  <1> DEFINE held == Fresh(acct[r]) \ {c}
  <1>3. held \in SUBSET slots[acct[r]]
    BY DEF Fresh
  <1>4. /\ slots' = [slots EXCEPT ![acct[r]] = held]
        /\ StartTopUp(acct[r], held)
    BY <1>2 DEF PopPooledChat
  <1> HIDE DEF held
  <1>5. /\ toppingUp'[acct[r]] => toppingUp[acct[r]] \/ Cardinality(held) < PoolTarget
        /\ \A b \in Accounts \ {acct[r]} : toppingUp'[b] = toppingUp[b]
    BY <1>1, <1>4 DEF StartTopUp, TypeOK, PoolTypeOK
  <1>6. QED
    BY <1>1, <1>3, <1>4, <1>5, PoolShrinks, PoolStaysBounded

LEMMA PopEmptyBounded ==
  ASSUME TypeOK, SlotInvariant, PoolBounded, NEW r \in Requests, PopEmpty(r)
  PROVE  PoolBounded'
  <1>1. acct[r] \in Accounts
    BY DEF PopEmpty, SlotInvariant, ChatsInHand, PickedPcs
  <1>2. slots' = [slots EXCEPT ![acct[r]] = {}] /\ toppingUp' = toppingUp
    BY DEF PopEmpty, NoPooledChat
  <1>3. QED
    BY <1>1, <1>2, PoolShrinks, PoolStaysBounded

\* A request that had to open a chat itself starts a refill of what is there.
LEMMA CreateBounded ==
  ASSUME TypeOK, SlotInvariant, PoolBounded, NEW r \in Requests, CreateChat(r)
  PROVE  PoolBounded'
  <1>1. acct[r] \in Accounts
    BY DEF CreateChat, SlotInvariant, ChatsInHand, PickedPcs
  <1>2. slots' = slots /\ StartTopUp(acct[r], slots[acct[r]])
    BY DEF CreateChat
  <1>3. /\ toppingUp'[acct[r]] => toppingUp[acct[r]] \/ Cardinality(slots[acct[r]]) < PoolTarget
        /\ \A b \in Accounts \ {acct[r]} : toppingUp'[b] = toppingUp[b]
    BY <1>1, <1>2 DEF StartTopUp, TypeOK, PoolTypeOK
  <1>4. QED
    BY <1>1, <1>2, <1>3 DEF PoolBounded

\* One turn of a refill adds the chat there was room for, and ends when full.
LEMMA TopUpBounded ==
  ASSUME TypeOK, PoolBounded, NEW a \in Accounts, NEW c \in Chats, TopUpCreates(a, c)
  PROVE  PoolBounded'
  <1>1. /\ slots' = [slots EXCEPT ![a] = slots[a] \cup {c}]
        /\ slots'[a] = slots[a] \cup {c}
        /\ toppingUp'[a] => Cardinality(slots[a] \cup {c}) < PoolTarget
        /\ \A b \in Accounts \ {a} : toppingUp'[b] = toppingUp[b]
    BY DEF TopUpCreates, TypeOK, PoolTypeOK
  <1>2. slots[a] \in SUBSET Chats /\ Cardinality(slots[a]) < PoolTarget
    BY DEF TopUpCreates, PoolBounded, TypeOK, PoolTypeOK
  <1>3. Cardinality(slots[a] \cup {c}) <= PoolTarget
    BY <1>2, ChatsFinite, FS_AddElement, PoolAssumption
  <1>4. QED
    BY <1>1, <1>2, <1>3, PoolStaysBounded

\* The counts change only where a session or a ready chat comes or goes.
LEMMA CountsRest ==
  ASSUME CountsExact, UNCHANGED <<activeSessions, activeCount, slots, toppingUp>>
  PROVE  CountsExact'
  BY DEF CountsExact, ActiveCountExact, PoolBounded

LEMMA ReleaseKeepsCounts ==
  ASSUME TypeOK, CountsExact, NEW c, NEW a, Release(c, a), UNCHANGED <<slots, toppingUp>>
  PROVE  CountsExact'
  <1>1. PoolBounded'
    BY DEF CountsExact, PoolBounded
  <1>2. QED
    BY <1>1, ReleaseCounts DEF CountsExact

\* One case for every action that touches a session or a pool.
LEMMA RequestKeepsCounts ==
  ASSUME TypeOK, SlotInvariant, CountsExact, NEW r \in Requests,
         Arrive(r) \/ SetupStep(r) \/ StreamStep(r)
  PROVE  CountsExact'
  <1> USE DEF accountVars, poolVars
  <1>1. CASE PopReady(r)
    BY <1>1, PopReadyBounded DEF PopReady, CountsExact, ActiveCountExact
  <1>2. CASE PopEmpty(r)
    BY <1>2, PopEmptyBounded DEF PopEmpty, CountsExact, ActiveCountExact
  <1>3. CASE Headers(r)
    <2>1. chat[r] \in Chats \ activeSessions
      BY <1>3 DEF Headers, SlotInvariant, ChatsInHand
    <2>2. ActiveCountExact'
      BY <1>3, <2>1, RegisterCounts DEF Headers, CountsExact
    <2>3. PoolBounded'
      BY <1>3 DEF Headers, CountsExact, PoolBounded
    <2>4. QED
      BY <2>2, <2>3 DEF CountsExact
  <1>4. CASE CreateChat(r)
    <2>1. PICK c \in UnusedChats : Register(c, acct[r])
      BY <1>4 DEF CreateChat
    <2>2. c \in Chats \ activeSessions
      BY DEF UnusedChats, SlotInvariant, NoDeleteWhileActive
    <2>3. QED
      BY <1>4, <2>1, <2>2, RegisterCounts, CreateBounded DEF CountsExact
  <1>5. CASE CatchRetryable(r)
    BY <1>5, ReleaseKeepsCounts DEF CatchRetryable
  <1>6. CASE CatchFatal(r)
    BY <1>6, ReleaseKeepsCounts DEF CatchFatal
  <1>7. CASE FirstChunkTimeout(r)
    BY <1>7, ReleaseKeepsCounts DEF FirstChunkTimeout
  <1>8. CASE FirstChunkRejected(r)
    BY <1>8, ReleaseKeepsCounts DEF FirstChunkRejected
  <1>9. CASE ReleaseSession(r)
    BY <1>9, ReleaseKeepsCounts DEF ReleaseSession
  <1>10. CASE Arrive(r) \/ Pick(r) \/ PickNone(r) \/ Upload(r) \/ UploadFails(r)
              \/ AcquirePick(r) \/ AcquireNone(r)
    BY <1>10, CountsRest DEF Arrive, Pick, PickNone, Upload, UploadFails, AcquirePick, AcquireNone
  <1>11. CASE CreateFails(r) \/ CreateTimesOut(r) \/ SkipAccount(r)
    BY <1>11, CountsRest DEF CreateFails, CreateTimesOut, SkipAccount
  <1>12. CASE FetchSucceeds(r) \/ RateLimited(r) \/ Refused(r) \/ CallFails(r)
              \/ FirstChunk(r) \/ StreamEnds(r)
    BY <1>12, CountsRest DEF FetchSucceeds, RateLimited, Refused, CallFails, FirstChunk, StreamEnds
  <1>13. QED
    BY <1>1, <1>2, <1>3, <1>4, <1>5, <1>6, <1>7, <1>8, <1>9, <1>10, <1>11, <1>12
    DEF SetupStep, StreamStep

LEMMA StepKeepsCounts ==
  ASSUME TypeOK, SlotInvariant, CountsExact, [Next]_vars
  PROVE  CountsExact'
  <1> USE DEF accountVars, poolVars
  <1>1. CASE PoolStep /\ UNCHANGED requestVars
    <2>1. CASE SweepStuckSessions
      BY <2>1, SweepCounts DEF SweepStuckSessions, CountsExact, PoolBounded
    <2>2. ASSUME NEW a \in Accounts, TopUpStops(a) PROVE CountsExact'
      BY <2>2 DEF TopUpStops, CountsExact, ActiveCountExact, PoolBounded, TypeOK, PoolTypeOK
    <2>3. ASSUME NEW a \in Accounts, NEW c \in UnusedChats, TopUpCreates(a, c) PROVE CountsExact'
      BY <2>3, TopUpBounded DEF TopUpCreates, UnusedChats, CountsExact, ActiveCountExact
    <2>4. ASSUME NEW c \in Chats, DeleteSession(c) PROVE CountsExact'
      BY <2>4, CountsRest DEF DeleteSession
    <2>5. QED
      BY <1>1, <2>1, <2>2, <2>3, <2>4 DEF PoolStep
  <1>2. CASE Tick
    BY <1>2, CountsRest DEF Tick
  <1>3. CASE AccountStep
    BY <1>3, CountsRest DEF AccountStep
  <1>4. CASE UNCHANGED vars
    BY <1>4, CountsRest DEF vars
  <1>5. QED
    BY <1>1, <1>2, <1>3, <1>4, RequestKeepsCounts DEF Next

\* The pool's counters never drift: activeCount is the number of tracked sessions
\* (decremented once per session however release, timeout and sweep race), and a
\* refill neither overfills a pool nor runs when it is full (qwen.ts).
THEOREM PoolIsCounted == Spec => []CountsExact
  <1>1. Init => CountsExact
    <2>1. Cardinality({}) = 0
      BY FS_EmptySet
    <2>2. SUFFICES ASSUME Init PROVE ActiveCountExact /\ PoolBounded
      BY DEF CountsExact
    <2>3. \A a \in Accounts : slots[a] = {} /\ (toppingUp[a] => PoolTarget > 0)
      BY <2>2 DEF Init, PoolInit
    <2>4. QED
      BY <2>1, <2>2, <2>3, PoolAssumption DEF Init, PoolInit, ActiveCountExact, PoolBounded
  <1>2. TypeOK /\ SlotInvariant /\ CountsExact /\ [Next]_vars => CountsExact'
    BY StepKeepsCounts
  <1>3. QED
    BY <1>1, <1>2, LedgerIsKept, PTL DEF Spec
-----------------------------------------------------------------------------
(* While nothing is swept *)

\* No session is older than the sweeper allows.
NothingStuck == StuckSessions = {}

\* The session of a request is its own until it releases it.
SessionsKept == \A r \in Requests : pc[r] \in SessionPcs => chat[r] \in activeSessions

\* An account whose request may still be refused is not cooling down: what a
\* refusal overwrites is no cooldown.
MayBeThrottled(r) ==
    \/ pc[r] \in PickedPcs \cup {"fetch", "firstChunk"}
    \/ pc[r] = "rejected" /\ err[r] = "missing"
CoolWhileHeld == \A r \in Requests : MayBeThrottled(r) => cooldown[acct[r]] = 0

\* A request that has no session afterwards cannot lose one.
LEMMA LeavingKeepsSessions ==
  ASSUME TypeOK, SessionsKept, NEW r \in Requests,
         \A q \in Requests \ {r} : pc'[q] = pc[q] /\ chat'[q] = chat[q],
         pc'[r] \notin SessionPcs, activeSessions \subseteq activeSessions'
  PROVE  SessionsKept'
  BY DEF SessionsKept

\* A release takes the session of the request that releases it, no other's.
LEMMA ReleaseKeepsSessions ==
  ASSUME TypeOK, SlotInvariant, SessionsKept, NEW r \in Requests, pc[r] \in SessionPcs,
         Release(chat[r], acct[r]), Leaves(r)
  PROVE  SessionsKept'
  <1>1. /\ pc'[r] \in {"idle", "pick", "acquire"}
        /\ \A q \in Requests \ {r} : pc'[q] = pc[q] /\ chat'[q] = chat[q]
    BY LeavesHolders
  <1>2. activeSessions \ {chat[r]} \subseteq activeSessions'
    BY DEF Release, IsActive
  <1>3. \A q \in Requests \ {r} : chat[q] # chat[r]
    BY PoolAssumption DEF SlotInvariant, SessionsOwned, ChatsInHand
  <1>4. QED
    BY <1>1, <1>2, <1>3 DEF SessionsKept, SessionPcs

LEMMA RegisterKeepsSessions ==
  ASSUME TypeOK, SessionsKept, NEW r \in Requests, NEW c \in Chats, NEW a, Register(c, a),
         \A q \in Requests \ {r} : pc'[q] = pc[q] /\ chat'[q] = chat[q], chat'[r] = c
  PROVE  SessionsKept'
  BY DEF SessionsKept, Register

LEMMA RequestKeepsSessions ==
  ASSUME TypeOK, SlotInvariant, SessionsKept, NEW r \in Requests,
         Arrive(r) \/ SetupStep(r) \/ StreamStep(r)
  PROVE  SessionsKept'
  <1> USE DEF accountVars, poolVars
  <1>1. CASE CatchRetryable(r) \/ CatchFatal(r) \/ FirstChunkTimeout(r)
             \/ FirstChunkRejected(r) \/ ReleaseSession(r)
    BY <1>1, NextAttemptLeaves, ReleaseKeepsSessions
    DEF CatchRetryable, CatchFatal, FirstChunkTimeout, FirstChunkRejected, ReleaseSession, SessionPcs
  <1>2. CASE Headers(r)
    BY <1>2, RegisterKeepsSessions
    DEF Headers, GoTo, SlotInvariant, ChatsInHand, TypeOK, RequestTypeOK
  <1>3. CASE CreateChat(r)
    BY <1>3, RegisterKeepsSessions DEF CreateChat, UnusedChats, TypeOK, RequestTypeOK
  <1>4. CASE \/ PickNone(r) \/ UploadFails(r) \/ AcquireNone(r)
             \/ CreateFails(r) \/ CreateTimesOut(r)
    <2>1. Leaves(r) \/ GoTo(r, "acquire")
      BY <1>4, NextAttemptLeaves
      DEF PickNone, UploadFails, AcquireNone, CreateFails, CreateTimesOut
    <2>2. /\ pc'[r] \notin SessionPcs
          /\ \A q \in Requests \ {r} : pc'[q] = pc[q] /\ chat'[q] = chat[q]
      BY <2>1, LeavesHolders DEF GoTo, SessionPcs, TypeOK, RequestTypeOK
    <2>3. activeSessions' = activeSessions
      BY <1>4 DEF PickNone, UploadFails, AcquireNone, CreateFails, CreateTimesOut
    <2>4. QED
      BY <2>2, <2>3, LeavingKeepsSessions
  <1>5. CASE SkipAccount(r)
    <2>1. /\ pc'[r] \notin SessionPcs
          /\ \A q \in Requests \ {r} : pc'[q] = pc[q] /\ chat'[q] = chat[q]
      <3>1. CASE tries[r] + 1 < Cardinality(Accounts)
        BY <1>5, <3>1 DEF SkipAccount, SessionPcs, TypeOK, RequestTypeOK
      <3>2. CASE ~(tries[r] + 1 < Cardinality(Accounts))
        <4>1. Leaves(r)
          BY <1>5, <3>2, NextAttemptLeaves DEF SkipAccount
        <4>2. QED
          BY <4>1, LeavesHolders DEF SessionPcs
      <3>3. QED
        BY <3>1, <3>2
    <2>2. QED
      BY <1>5, <2>1, LeavingKeepsSessions DEF SkipAccount
  <1>6. CASE Arrive(r) \/ Pick(r) \/ Upload(r) \/ AcquirePick(r) \/ PopReady(r) \/ PopEmpty(r)
    <2>1. /\ pc'[r] \notin SessionPcs
          /\ \A q \in Requests \ {r} : pc'[q] = pc[q] /\ chat'[q] = chat[q]
      BY <1>6 DEF Arrive, Pick, Upload, AcquirePick, PopReady, PopEmpty, GoTo, SessionPcs,
                  TypeOK, RequestTypeOK
    <2>2. activeSessions' = activeSessions
      BY <1>6 DEF Arrive, Pick, Upload, AcquirePick, PopReady, PopEmpty
    <2>3. QED
      BY <2>1, <2>2, LeavingKeepsSessions
  <1>7. CASE FetchSucceeds(r) \/ RateLimited(r) \/ Refused(r) \/ CallFails(r)
             \/ FirstChunk(r) \/ StreamEnds(r)
    <2>1. /\ pc[r] \in SessionPcs /\ chat' = chat /\ activeSessions' = activeSessions
          /\ \A q \in Requests \ {r} : pc'[q] = pc[q]
      BY <1>7 DEF FetchSucceeds, RateLimited, Refused, CallFails, FirstChunk, StreamEnds,
                  GoTo, Throw, SessionPcs, TypeOK, RequestTypeOK
    <2>2. QED
      BY <2>1 DEF SessionsKept
  <1>8. QED
    BY <1>1, <1>2, <1>3, <1>4, <1>5, <1>6, <1>7 DEF SetupStep, StreamStep

LEMMA StepKeepsSessions ==
  ASSUME TypeOK, SlotInvariant, SessionsKept, NothingStuck, [Next]_vars
  PROVE  SessionsKept'
  <1>1. CASE (PoolStep \/ Tick) /\ UNCHANGED requestVars
    <2>1. ~SweepStuckSessions
      BY DEF NothingStuck, SweepStuckSessions
    <2>2. activeSessions' = activeSessions
      BY <1>1, <2>1 DEF PoolStep, TopUpStops, TopUpCreates, DeleteSession, Tick
    <2>3. QED
      BY <1>1, <2>2 DEF SessionsKept, requestVars
  <1>2. CASE AccountStep \/ UNCHANGED vars
    BY <1>2 DEF AccountStep, SessionsKept, vars, poolVars, requestVars
  <1>3. QED
    BY <1>1, <1>2, RequestKeepsSessions DEF Next

LEMMA InitSessions == Init => SessionsKept /\ CoolWhileHeld
  BY DEF Init, SessionsKept, CoolWhileHeld, MayBeThrottled, SessionPcs, PickedPcs

\* Sessions that are theirs tell requests apart by account.
LEMMA KeptSessionsExclude ==
  ASSUME SlotInvariant, SessionsKept
  PROVE  \A r, q \in Requests :
            /\ r # q
            /\ pc[r] \in PickedPcs \cup SessionPcs
            /\ pc[q] \in PickedPcs \cup SessionPcs
            => acct[r] # acct[q]
  BY DEF SlotInvariant, OneHolderPerAccount, HoldsSlot, SessionsKept

\* Two requests never talk to the upstream on one account, as long as the sweeper
\* finds no session older than its timeout: a sweep of a live session gives the
\* account to another request.
THEOREM OneConversation == Spec /\ []NothingStuck => []OneConversationPerAccount
  <1>1. SlotInvariant /\ SessionsKept => OneConversationPerAccount
    BY KeptSessionsExclude DEF OneConversationPerAccount, SessionPcs
  <1>2. Init => SessionsKept
    BY InitSessions
  <1>3. TypeOK /\ SlotInvariant /\ SessionsKept /\ NothingStuck /\ [Next]_vars => SessionsKept'
    BY StepKeepsSessions
  <1>4. QED
    BY <1>1, <1>2, <1>3, LedgerIsKept, PTL DEF Spec
\* A step of a request leaves the other requests where they are.
LEMMA OthersStay ==
  ASSUME TypeOK, NEW r \in Requests, Arrive(r) \/ SetupStep(r) \/ StreamStep(r)
  PROVE  \A q \in Requests \ {r} :
            pc'[q] = pc[q] /\ acct'[q] = acct[q] /\ chat'[q] = chat[q] /\ err'[q] = err[q]
  <1> USE DEF TypeOK, RequestTypeOK
  <1>1. ASSUME NEW label, NEW n, NEW failed, Restart(r, label, n, failed)
        PROVE  \A q \in Requests \ {r} :
                 pc'[q] = pc[q] /\ acct'[q] = acct[q] /\ chat'[q] = chat[q] /\ err'[q] = err[q]
    BY <1>1 DEF Restart
  <1>2. ASSUME NEW failed, End(r) \/ NextAttempt(r, failed)
        PROVE  \A q \in Requests \ {r} :
                 pc'[q] = pc[q] /\ acct'[q] = acct[q] /\ chat'[q] = chat[q] /\ err'[q] = err[q]
    BY <1>1, <1>2 DEF End, NextAttempt, Retry
  <1>3. ASSUME NEW label, GoTo(r, label)
        PROVE  \A q \in Requests \ {r} :
                 pc'[q] = pc[q] /\ acct'[q] = acct[q] /\ chat'[q] = chat[q] /\ err'[q] = err[q]
    BY <1>3 DEF GoTo
  <1>4. CASE Arrive(r) \/ Upload(r) \/ PopEmpty(r) \/ Headers(r) \/ FetchSucceeds(r)
             \/ FirstChunk(r) \/ StreamEnds(r)
    BY <1>3, <1>4 DEF Arrive, Upload, PopEmpty, Headers, FetchSucceeds, FirstChunk, StreamEnds
  <1>5. CASE PickNone(r) \/ UploadFails(r) \/ AcquireNone(r) \/ CreateFails(r) \/ CreateTimesOut(r)
    BY <1>2, <1>3, <1>5 DEF PickNone, UploadFails, AcquireNone, CreateFails, CreateTimesOut
  <1>6. CASE CatchRetryable(r) \/ CatchFatal(r) \/ FirstChunkTimeout(r)
             \/ FirstChunkRejected(r) \/ ReleaseSession(r)
    BY <1>2, <1>6
    DEF CatchRetryable, CatchFatal, FirstChunkTimeout, FirstChunkRejected, ReleaseSession
  <1>7. CASE Pick(r) \/ AcquirePick(r) \/ PopReady(r) \/ CreateChat(r)
    BY <1>7 DEF Pick, AcquirePick, PopReady, CreateChat
  <1>8. CASE SkipAccount(r)
    <2>1. CASE tries[r] + 1 < Cardinality(Accounts)
      BY <1>8, <2>1 DEF SkipAccount
    <2>2. CASE ~(tries[r] + 1 < Cardinality(Accounts))
      BY <1>2, <1>8, <2>2 DEF SkipAccount
    <2>3. QED
      BY <2>1, <2>2
  <1>9. CASE RateLimited(r) \/ Refused(r) \/ CallFails(r)
    BY <1>9 DEF RateLimited, Refused, CallFails, Throw
  <1>10. QED
    BY <1>4, <1>5, <1>6, <1>7, <1>8, <1>9 DEF SetupStep, StreamStep

\* A request refuses its account once, and can be refused no more.
LEMMA WhoThrottles ==
  ASSUME TypeOK, NEW r \in Requests, Arrive(r) \/ SetupStep(r) \/ StreamStep(r)
  PROVE  \/ cooldown' = cooldown
         \/ /\ MayBeThrottled(r) /\ ~MayBeThrottled(r)'
            /\ \E reason \in Reasons : ThrottleAccount(acct[r], reason)
  <1> USE DEF accountVars
  <1>1. CASE SkipAccount(r)
    <2>1. pc'[r] \in {"idle", "pick", "acquire"}
      <3>1. CASE tries[r] + 1 < Cardinality(Accounts)
        BY <1>1, <3>1 DEF SkipAccount, TypeOK, RequestTypeOK
      <3>2. CASE ~(tries[r] + 1 < Cardinality(Accounts))
        BY <1>1, <3>2, NextAttemptLeaves, LeavesHolders DEF SkipAccount
      <3>3. QED
        BY <3>1, <3>2
    <2>2. QED
      BY <1>1, <2>1 DEF SkipAccount, MayBeThrottled, PickedPcs, Reasons
  <1>2. CASE RateLimited(r) \/ Refused(r)
    BY <1>2 DEF RateLimited, Refused, Throw, MayBeThrottled, PickedPcs, Reasons, TypeOK, RequestTypeOK
  <1>3. CASE CatchRetryable(r) \/ FirstChunkRejected(r)
    <2>1. pc'[r] \in {"idle", "pick", "acquire"}
      BY <1>3, NextAttemptLeaves, LeavesHolders DEF CatchRetryable, FirstChunkRejected
    <2>2. QED
      BY <1>3, <2>1 DEF CatchRetryable, FirstChunkRejected, MayBeThrottled, PickedPcs, Reasons
  <1>4. CASE Arrive(r) \/ Pick(r) \/ PickNone(r) \/ Upload(r) \/ UploadFails(r)
             \/ AcquirePick(r) \/ AcquireNone(r) \/ PopReady(r) \/ PopEmpty(r) \/ Headers(r)
    BY <1>4 DEF Arrive, Pick, PickNone, Upload, UploadFails, AcquirePick, AcquireNone, PopReady,
                PopEmpty, Headers
  <1>5. CASE CreateChat(r) \/ CreateFails(r) \/ CreateTimesOut(r) \/ FetchSucceeds(r) \/ CallFails(r)
             \/ CatchFatal(r) \/ FirstChunk(r) \/ FirstChunkTimeout(r) \/ StreamStep(r)
    BY <1>5 DEF CreateChat, CreateFails, CreateTimesOut, FetchSucceeds, CallFails, CatchFatal,
                FirstChunk, FirstChunkTimeout, StreamStep, StreamEnds, ReleaseSession
  <1>6. QED
    BY <1>1, <1>2, <1>3, <1>4, <1>5 DEF SetupStep

\* A request comes to hold an account by a pick, which takes none that cools down.
LEMMA WhoIsPicked ==
  ASSUME TypeOK, NEW r \in Requests, Arrive(r) \/ SetupStep(r) \/ StreamStep(r), MayBeThrottled(r)'
  PROVE  (MayBeThrottled(r) /\ acct'[r] = acct[r]) \/ cooldown[acct'[r]] = 0
  <1> USE DEF TypeOK, RequestTypeOK, MayBeThrottled, PickedPcs
  <1>1. ASSUME NEW failed, End(r) \/ NextAttempt(r, failed)
        PROVE  FALSE
    BY <1>1, NextAttemptLeaves, LeavesHolders
  <1>2. CASE Pick(r) \/ AcquirePick(r)
    BY <1>2 DEF Pick, AcquirePick, PickAccount, Candidates, IsAvailable
  <1>3. CASE Upload(r) \/ PopEmpty(r) \/ Headers(r) \/ FetchSucceeds(r)
    BY <1>3 DEF Upload, PopEmpty, Headers, FetchSucceeds, GoTo
  <1>4. CASE PopReady(r) \/ CreateChat(r) \/ RateLimited(r) \/ Refused(r) \/ CallFails(r)
    BY <1>4 DEF PopReady, CreateChat, RateLimited, Refused, CallFails, Throw
  <1>5. CASE Arrive(r) \/ PickNone(r) \/ FirstChunk(r) \/ StreamEnds(r)
    BY <1>1, <1>5 DEF Arrive, PickNone, FirstChunk, StreamEnds, GoTo
  <1>6. CASE SkipAccount(r)
    <2>1. CASE tries[r] + 1 < Cardinality(Accounts)
      BY <1>6, <2>1 DEF SkipAccount
    <2>2. CASE ~(tries[r] + 1 < Cardinality(Accounts))
      BY <1>1, <1>6, <2>2 DEF SkipAccount
    <2>3. QED
      BY <2>1, <2>2
  <1>7. CASE UploadFails(r) \/ AcquireNone(r) \/ CreateFails(r) \/ CreateTimesOut(r) \/ CatchRetryable(r)
             \/ CatchFatal(r) \/ FirstChunkTimeout(r) \/ FirstChunkRejected(r) \/ ReleaseSession(r)
    BY <1>1, <1>7 DEF UploadFails, AcquireNone, CreateFails, CreateTimesOut, CatchRetryable, CatchFatal,
                      FirstChunkTimeout, FirstChunkRejected, ReleaseSession
  <1>8. QED
    BY <1>2, <1>3, <1>4, <1>5, <1>6, <1>7 DEF SetupStep, StreamStep

LEMMA RequestKeepsCool ==
  ASSUME TypeOK, SlotInvariant, SessionsKept, CoolWhileHeld, NEW r \in Requests,
         Arrive(r) \/ SetupStep(r) \/ StreamStep(r)
  PROVE  CoolWhileHeld' /\ \A a \in Accounts : ~(cooldown'[a] < cooldown[a])
  <1>1. \A q \in Requests \ {r} :
          acct'[q] = acct[q] /\ (MayBeThrottled(q)' <=> MayBeThrottled(q))
    BY OthersStay DEF MayBeThrottled
  <1>2. CASE cooldown' = cooldown
    <2>1. MayBeThrottled(r)' => cooldown[acct'[r]] = 0
      BY WhoIsPicked DEF CoolWhileHeld
    <2>2. \A a \in Accounts : ~(cooldown'[a] < cooldown[a])
      BY <1>2 DEF TypeOK, AccountTypeOK
    <2>3. QED
      BY <1>1, <1>2, <2>1, <2>2 DEF CoolWhileHeld
  <1>3. CASE /\ MayBeThrottled(r) /\ ~MayBeThrottled(r)'
             /\ \E reason \in Reasons : ThrottleAccount(acct[r], reason)
    <2>1. acct[r] \in Accounts /\ cooldown[acct[r]] = 0
      BY <1>3 DEF SlotInvariant, ChatsInHand, MayBeThrottled, SessionPcs, CoolWhileHeld
    <2>2. /\ cooldown'[acct[r]] \in Nat
          /\ \A a \in Accounts \ {acct[r]} : cooldown'[a] = cooldown[a] /\ cooldown[a] \in Nat
      BY <1>3, <2>1, AccountAssumption DEF ThrottleAccount, TypeOK, AccountTypeOK
    <2>3. ASSUME NEW q \in Requests, MayBeThrottled(q)'
          PROVE  cooldown'[acct'[q]] = 0
      <3>1. q # r /\ MayBeThrottled(q) /\ acct'[q] = acct[q]
        BY <1>1, <1>3, <2>3
      <3>2. acct[q] \in Accounts /\ acct[q] # acct[r]
        BY <1>3, <3>1, KeptSessionsExclude
        DEF SlotInvariant, ChatsInHand, MayBeThrottled, SessionPcs
      <3>3. QED
        BY <2>2, <3>1, <3>2 DEF CoolWhileHeld
    <2>4. QED
      BY <2>1, <2>2, <2>3 DEF CoolWhileHeld
  <1>4. QED
    BY <1>2, <1>3, WhoThrottles

LEMMA StepKeepsCool ==
  ASSUME TypeOK, SlotInvariant, SessionsKept, CoolWhileHeld, [Next]_vars
  PROVE  /\ CoolWhileHeld'
         /\ (\E a \in Accounts : cooldown'[a] < cooldown[a])
              => Tick \/ \E a \in Accounts : SaveCookies(a)
  <1>0. \A r \in Requests : MayBeThrottled(r) => acct[r] \in Accounts
    BY DEF SlotInvariant, ChatsInHand, MayBeThrottled, SessionPcs
  <1>1. ASSUME NEW r \in Requests, Arrive(r) \/ SetupStep(r) \/ StreamStep(r)
        PROVE  CoolWhileHeld' /\ ~(\E a \in Accounts : cooldown'[a] < cooldown[a])
    BY <1>1, RequestKeepsCool DEF TypeOK, AccountTypeOK
  <1>2. ASSUME UNCHANGED requestVars,
               \A a \in Accounts : cooldown[a] = 0 => cooldown'[a] = 0
        PROVE  CoolWhileHeld'
    BY <1>0, <1>2 DEF CoolWhileHeld, MayBeThrottled, requestVars
  <1>3. CASE PoolStep /\ UNCHANGED requestVars
    <2>1. cooldown' = cooldown
      BY <1>3 DEF PoolStep, SweepStuckSessions, TopUpStops, TopUpCreates, DeleteSession, accountVars
    <2>2. QED
      BY <1>2, <1>3, <2>1 DEF TypeOK, AccountTypeOK
  <1>4. CASE Tick /\ UNCHANGED requestVars
    BY <1>2, <1>4 DEF Tick, Decremented
  <1>5. CASE AccountStep
    <2>1. ASSUME NEW a \in Accounts, SaveCookies(a), UNCHANGED requestVars
          PROVE  CoolWhileHeld' /\ \E b \in Accounts : SaveCookies(b)
      BY <1>2, <2>1 DEF SaveCookies, TypeOK, AccountTypeOK
    <2>2. ASSUME NEW a \in Accounts, ToggleDisabled(a), UNCHANGED requestVars
          PROVE  CoolWhileHeld' /\ cooldown' = cooldown
      BY <1>2, <2>2 DEF ToggleDisabled
    <2>3. QED
      BY <1>5, <2>1, <2>2 DEF AccountStep, TypeOK, AccountTypeOK
  <1>6. CASE UNCHANGED vars
    BY <1>2, <1>6 DEF vars, accountVars, requestVars, TypeOK, AccountTypeOK
  <1>7. QED
    BY <1>1, <1>3, <1>4, <1>5, <1>6 DEF Next

\* No refusal shortens a cooldown, although throttleAccount overwrites what is
\* there (accountManager.ts): while nothing is swept, an account in use has no
\* cooldown to overwrite.  No order of the reasons' durations is needed.
THEOREM CooldownsEnd == Spec /\ []NothingStuck => CooldownsRunOut
  <1>1. Init => SessionsKept /\ CoolWhileHeld
    BY InitSessions
  <1>2. TypeOK /\ SlotInvariant /\ SessionsKept /\ NothingStuck /\ [Next]_vars => SessionsKept'
    BY StepKeepsSessions
  <1>3. TypeOK /\ SlotInvariant /\ SessionsKept /\ CoolWhileHeld /\ [Next]_vars
          => CoolWhileHeld'
             /\ [(\E a \in Accounts : cooldown'[a] < cooldown[a])
                   => Tick \/ \E a \in Accounts : SaveCookies(a)]_vars
    BY StepKeepsCool
  <1>4. QED
    BY <1>1, <1>2, <1>3, LedgerIsKept, PTL DEF Spec, CooldownsRunOut
-----------------------------------------------------------------------------
(* Ages that saturate below the timeout: nothing is ever stuck *)

AgesBounded == age \in [Chats -> 0..MaxAge]

LEMMA StepKeepsAges ==
  ASSUME AgesBounded, [Next]_vars
  PROVE  AgesBounded'
  <1> USE PoolAssumption DEF AgesBounded, accountVars, poolVars
  <1>1. \A S : Untracked(S) \in [Chats -> 0..MaxAge]
    BY DEF Untracked
  <1>2. ASSUME NEW c, NEW a, Register(c, a)
        PROVE  AgesBounded'
    <2>1. age' = [age EXCEPT ![c] = 0] /\ 0 \in 0..MaxAge
      BY <1>2 DEF Register
    <2>2. QED
      BY <2>1
  <1>3. ASSUME NEW c, NEW a, Release(c, a)
        PROVE  AgesBounded'
    BY <1>1, <1>3 DEF Release
  <1>4. ASSUME NEW r \in Requests, Arrive(r) \/ SetupStep(r) \/ StreamStep(r)
        PROVE  AgesBounded'
    <2>1. CASE PopReady(r) \/ PopEmpty(r)
      BY <1>1, <2>1 DEF PopReady, PopPooledChat, PopEmpty, NoPooledChat
    <2>2. CASE Headers(r) \/ CreateChat(r)
      BY <1>2, <2>2 DEF Headers, CreateChat
    <2>3. CASE CatchRetryable(r) \/ CatchFatal(r) \/ FirstChunkTimeout(r)
               \/ FirstChunkRejected(r) \/ ReleaseSession(r)
      BY <1>3, <2>3
      DEF CatchRetryable, CatchFatal, FirstChunkTimeout, FirstChunkRejected, ReleaseSession
    <2>4. CASE Arrive(r) \/ Pick(r) \/ PickNone(r) \/ Upload(r) \/ UploadFails(r)
               \/ AcquirePick(r) \/ AcquireNone(r)
      BY <2>4 DEF Arrive, Pick, PickNone, Upload, UploadFails, AcquirePick, AcquireNone
    <2>5. CASE CreateFails(r) \/ CreateTimesOut(r) \/ SkipAccount(r)
      BY <2>5 DEF CreateFails, CreateTimesOut, SkipAccount
    <2>6. CASE FetchSucceeds(r) \/ RateLimited(r) \/ Refused(r) \/ CallFails(r)
               \/ FirstChunk(r) \/ StreamEnds(r)
      BY <2>6 DEF FetchSucceeds, RateLimited, Refused, CallFails, FirstChunk, StreamEnds
    <2>7. QED
      BY <1>4, <2>1, <2>2, <2>3, <2>4, <2>5, <2>6 DEF SetupStep, StreamStep
  <1>5. CASE PoolStep
    BY <1>1, <1>5
    DEF PoolStep, SweepStuckSessions, TopUpStops, TopUpCreates, DeleteSession
  <1>6. CASE Tick
    BY <1>6 DEF Tick
  <1>7. CASE AccountStep \/ UNCHANGED vars
    BY <1>7 DEF AccountStep, vars
  <1>8. QED
    BY <1>4, <1>5, <1>6, <1>7 DEF Next

\* No stream outlives the timeout: a bound below it keeps the sweeper out.
LEMMA NeverStuck ==
  ASSUME MaxAge <= ActiveTimeout
  PROVE  Spec => []NothingStuck
  <1>1. Init => AgesBounded
    BY PoolAssumption DEF Init, PoolInit, AgesBounded
  <1>2. AgesBounded /\ [Next]_vars => AgesBounded'
    BY StepKeepsAges
  <1>3. TypeOK /\ AgesBounded => NothingStuck
    BY PoolAssumption DEF TypeOK, PoolTypeOK, AgesBounded, NothingStuck, StuckSessions
  <1>4. QED
    BY <1>1, <1>2, <1>3, LedgerIsKept, PTL DEF Spec

\* The two of them for every instance whose streams end within the sweeper's timeout.
THEOREM OneConversationBounded ==
  ASSUME MaxAge <= ActiveTimeout
  PROVE  Spec => []OneConversationPerAccount /\ CooldownsRunOut
  BY NeverStuck, OneConversation, CooldownsEnd, PTL

-----------------------------------------------------------------------------
(* Every chat can be deleted *)

\* The ready chats requests hold while they fetch the headers.
InHand == {chat[r] : r \in {q \in Requests : pc[q] = "headers"}}
Known == Pooled \cup activeSessions \cup deleting \cup InHand

LEMMA StillKnown ==
  ASSUME NoOrphanChat, upstream' \subseteq upstream \cup Known',
         Pooled \subseteq Known', activeSessions \subseteq Known',
         deleting \cap upstream' \subseteq Known', InHand \subseteq Known'
  PROVE  NoOrphanChat'
  BY DEF NoOrphanChat, Known, InHand

LEMMA ReleasedIsKnown ==
  ASSUME TypeOK, NoOrphanChat, NEW r \in Requests, pc[r] # "headers",
         Release(chat[r], acct[r]), Leaves(r), UNCHANGED <<slots, upstream>>
  PROVE  NoOrphanChat'
  <1>1. Pooled' = Pooled
    BY DEF Pooled
  <1>2. activeSessions \subseteq activeSessions' \cup deleting' /\ deleting \subseteq deleting'
    BY DEF Release, Delete
  <1>3. InHand \subseteq InHand'
    BY LeavesHolders DEF InHand
  <1>4. QED
    BY <1>1, <1>2, <1>3, StillKnown DEF Known

LEMMA OthersInHand ==
  ASSUME TypeOK, NEW r \in Requests, Arrive(r) \/ SetupStep(r) \/ StreamStep(r)
  PROVE  /\ pc[r] # "headers" => InHand \subseteq InHand'
         /\ InHand \subseteq InHand' \cup {chat[r]}
  BY OthersStay DEF InHand

LEMMA RequestKeepsKnown ==
  ASSUME ~LateCreates, TypeOK, SlotInvariant, NoOrphanChat, NEW r \in Requests,
         Arrive(r) \/ SetupStep(r) \/ StreamStep(r)
  PROVE  NoOrphanChat'
  <1> USE DEF accountVars, poolVars
  <1>1. CASE PopReady(r)
    <2>1. PICK c \in Chats : PopPooledChat(acct[r], c) /\ chat' = [chat EXCEPT ![r] = c]
      BY <1>1 DEF PopReady
    <2>2. acct[r] \in Accounts
      BY <1>1 DEF PopReady, SlotInvariant, ChatsInHand, PickedPcs
    <2>3. c \in InHand' /\ InHand \subseteq InHand'
      BY <1>1, <2>1, OthersInHand DEF PopReady, InHand, TypeOK, RequestTypeOK
    <2>4. /\ \A a \in Accounts \ {acct[r]} : slots'[a] = slots[a]
          /\ slots[acct[r]] \subseteq slots'[acct[r]] \cup {c} \cup deleting'
          /\ deleting \subseteq deleting'
      BY <2>1, <2>2 DEF PopPooledChat, Fresh, Delete, TypeOK, PoolTypeOK
    <2>5. Pooled \subseteq Pooled' \cup {c} \cup deleting'
      BY <2>4 DEF Pooled
    <2>6. QED
      BY <1>1, <2>3, <2>4, <2>5, StillKnown DEF PopReady, Known
  <1>2. CASE PopEmpty(r)
    <2>1. acct[r] \in Accounts /\ Fresh(acct[r]) = {}
      BY <1>2 DEF PopEmpty, NoPooledChat, SlotInvariant, ChatsInHand, PickedPcs
    <2>2. /\ \A a \in Accounts \ {acct[r]} : slots'[a] = slots[a]
          /\ slots[acct[r]] \subseteq deleting' /\ deleting \subseteq deleting'
      BY <1>2, <2>1 DEF PopEmpty, NoPooledChat, Fresh, Delete, TypeOK, PoolTypeOK
    <2>3. Pooled \subseteq Pooled' \cup deleting'
      BY <2>2 DEF Pooled
    <2>4. InHand \subseteq InHand'
      BY <1>2, OthersInHand DEF PopEmpty
    <2>5. QED
      BY <1>2, <2>2, <2>3, <2>4, StillKnown DEF PopEmpty, Known
  <1>3. CASE Headers(r)
    BY <1>3, OthersInHand, StillKnown DEF Headers, Register, Pooled, Known
  <1>4. CASE CreateChat(r)
    BY <1>4, OthersInHand, StillKnown DEF CreateChat, Register, Pooled, Known
  <1>5. CASE CatchRetryable(r) \/ CatchFatal(r) \/ FirstChunkTimeout(r)
             \/ FirstChunkRejected(r) \/ ReleaseSession(r)
    BY <1>5, NextAttemptLeaves, ReleasedIsKnown
    DEF CatchRetryable, CatchFatal, FirstChunkTimeout, FirstChunkRejected, ReleaseSession
  <1>6. ASSUME pc[r] # "headers", UNCHANGED <<slots, activeSessions, deleting, upstream>>
        PROVE  NoOrphanChat'
    <2>1. InHand \subseteq InHand' /\ Pooled' = Pooled
      BY <1>6, OthersInHand DEF Pooled
    <2>2. QED
      BY <1>6, <2>1, StillKnown DEF Known
  <1>7. CASE Arrive(r) \/ Pick(r) \/ PickNone(r) \/ Upload(r) \/ UploadFails(r)
             \/ AcquirePick(r) \/ AcquireNone(r)
    BY <1>6, <1>7 DEF Arrive, Pick, PickNone, Upload, UploadFails, AcquirePick, AcquireNone
  <1>8. CASE CreateFails(r) \/ CreateTimesOut(r) \/ SkipAccount(r)
    BY <1>6, <1>8 DEF CreateFails, CreateTimesOut, SkipAccount
  <1>9. CASE FetchSucceeds(r) \/ RateLimited(r) \/ Refused(r) \/ CallFails(r)
             \/ FirstChunk(r) \/ StreamEnds(r)
    BY <1>6, <1>9 DEF FetchSucceeds, RateLimited, Refused, CallFails, FirstChunk, StreamEnds
  <1>10. QED
    BY <1>1, <1>2, <1>3, <1>4, <1>5, <1>7, <1>8, <1>9 DEF SetupStep, StreamStep

LEMMA StepKeepsKnown ==
  ASSUME ~LateCreates, ~DeletesFail, TypeOK, SlotInvariant, NoOrphanChat, [Next]_vars
  PROVE  NoOrphanChat'
  <1>1. ASSUME UNCHANGED <<pc, chat>> PROVE InHand' = InHand
    BY <1>1 DEF InHand
  <1>2. CASE PoolStep /\ UNCHANGED requestVars
    <2>0. InHand' = InHand
      BY <1>1, <1>2 DEF requestVars
    <2>1. CASE SweepStuckSessions
      BY <2>0, <2>1, StillKnown DEF SweepStuckSessions, SessionsLeft, Delete, Pooled, Known
    <2>2. ASSUME NEW a \in Accounts, TopUpStops(a) PROVE NoOrphanChat'
      BY <2>0, <2>2, StillKnown DEF TopUpStops, Pooled, Known
    <2>3. ASSUME NEW a \in Accounts, NEW c \in UnusedChats, TopUpCreates(a, c) PROVE NoOrphanChat'
      <3>1. \A b \in Accounts : slots[b] \subseteq slots'[b]
        BY <2>3 DEF TopUpCreates, TypeOK, PoolTypeOK
      <3>2. Pooled \subseteq Pooled' /\ c \in Pooled'
        BY <2>3, <3>1 DEF Pooled, TopUpCreates, TypeOK, PoolTypeOK
      <3>3. QED
        BY <2>0, <2>3, <3>2, StillKnown DEF TopUpCreates, Known
    <2>4. ASSUME NEW c \in Chats, DeleteSession(c) PROVE NoOrphanChat'
      BY <2>0, <2>4, StillKnown DEF DeleteSession, Pooled, Known
    <2>5. QED
      BY <1>2, <2>1, <2>2, <2>3, <2>4 DEF PoolStep
  <1>3. CASE \/ Tick /\ UNCHANGED requestVars
             \/ AccountStep
             \/ UNCHANGED vars
    <2>1. UNCHANGED <<pc, chat, slots, activeSessions, deleting, upstream>>
      BY <1>3 DEF Tick, AccountStep, vars, poolVars, requestVars
    <2>2. QED
      BY <1>1, <2>1, StillKnown DEF Pooled, Known
  <1>4. QED
    BY <1>2, <1>3, RequestKeepsKnown DEF Next

\* Every chat open at the upstream is in a pool, in use, in a request's hands or
\* being deleted, if no create ends after its timeout and no delete fails: those
\* two are the only ways to lose one.
THEOREM NoChatIsLost ==
  ASSUME ~LateCreates, ~DeletesFail
  PROVE  Spec => []ChatsAccounted
  <1>1. Init => NoOrphanChat
    BY DEF Init, PoolInit, NoOrphanChat
  <1>2. TypeOK /\ SlotInvariant /\ NoOrphanChat /\ [Next]_vars => NoOrphanChat'
    BY StepKeepsKnown
  <1>3. CountsExact /\ NoOrphanChat => ChatsAccounted
    BY DEF CountsExact, ChatsAccounted
  <1>4. QED
    BY <1>1, <1>2, <1>3, LedgerIsKept, PoolIsCounted, PTL DEF Spec

-----------------------------------------------------------------------------
(* The exclusive lease of accounts                                         *)

\* The holder of an account is the one request that holds its slot.
HolderIsOwner ==
    \A a \in Accounts :
        /\ \A r \in Requests : HoldsSlot(r) /\ acct[r] = a => Holder[a] = r
        /\ (\A r \in Requests : ~(HoldsSlot(r) /\ acct[r] = a)) => Holder[a] = None

LEMMA HolderIsUnique == SlotInvariant => HolderIsOwner
  <1> SUFFICES ASSUME SlotInvariant, NEW a \in Accounts
               PROVE  /\ \A r \in Requests : HoldsSlot(r) /\ acct[r] = a => Holder[a] = r
                      /\ (\A r \in Requests : ~(HoldsSlot(r) /\ acct[r] = a)) => Holder[a] = None
    BY DEF HolderIsOwner
  <1>1. Holder[a] = IF \E r \in Requests : HoldsSlot(r) /\ acct[r] = a
                    THEN CHOOSE r \in Requests : HoldsSlot(r) /\ acct[r] = a
                    ELSE None
    BY DEF Holder
  <1>2. ASSUME NEW r \in Requests, HoldsSlot(r), acct[r] = a
        PROVE  Holder[a] = r
    <2>1. /\ Holder[a] \in Requests
          /\ HoldsSlot(Holder[a])
          /\ acct[Holder[a]] = a
      BY <1>1, <1>2
    <2>2. QED
      BY <1>2, <2>1 DEF SlotInvariant, OneHolderPerAccount
  <1>3. QED
    BY <1>1, <1>2

\* It holds of the next state too.
LEMMA HolderIsUniqueNext == SlotInvariant' => HolderIsOwner'
  BY HolderIsUnique, PTL

\* No request begins to hold a slot, and those that go on keep their account.
NoNewHolder ==
    \A q \in Requests : HoldsSlot(q)' => HoldsSlot(q) /\ acct'[q] = acct[q]

\* Then leases end, or nothing happens to them.
LEMMA NoNewHolderEnds ==
  ASSUME SlotInvariant, SlotInvariant', NoNewHolder
  PROVE  Lease!Next
  <1> DEFINE Ended == {a \in Accounts : Holder[a] # None /\ Holder'[a] = None}
  <1>1. ASSUME NEW a \in Accounts, a \notin Ended PROVE Holder'[a] = Holder[a]
    <2>1. CASE \E r \in Requests : HoldsSlot(r)' /\ acct'[r] = a
      <3>1. PICK r \in Requests : HoldsSlot(r)' /\ acct'[r] = a
        BY <2>1
      <3>2. HoldsSlot(r) /\ acct[r] = a
        BY <3>1 DEF NoNewHolder
      <3>3. Holder'[a] = r
        BY <3>1, HolderIsUniqueNext DEF HolderIsOwner
      <3>4. Holder[a] = r
        BY <3>2, HolderIsUnique DEF HolderIsOwner
      <3>5. QED
        BY <3>3, <3>4
    <2>2. CASE \A r \in Requests : ~(HoldsSlot(r)' /\ acct'[r] = a)
      <3>1. Holder'[a] = None
        BY <2>2, HolderIsUniqueNext DEF HolderIsOwner
      <3>2. QED
        BY <1>1, <3>1
    <2>3. QED
      BY <2>1, <2>2
  <1>2. Holder' = [a \in Accounts |-> IF a \in Ended THEN None ELSE Holder[a]]
    <2>1. Holder' = [a \in Accounts |-> Holder'[a]]
      BY DEF Holder
    <2>2. \A a \in Accounts : Holder'[a] = IF a \in Ended THEN None ELSE Holder[a]
      BY <1>1
    <2>3. QED
      BY <2>1, <2>2
  <1>3. Lease!End(Ended)
    BY <1>2 DEF Lease!End
  <1>4. Ended \in SUBSET Accounts
    OBVIOUS
  <1>5. QED
    BY <1>3, <1>4 DEF Lease!Next

\* A request that holds nothing picks an account: it is granted the lease.
LEMMA PickGrants ==
  ASSUME TypeOK, SlotInvariant, SlotInvariant', NEW r \in Requests, NEW a \in Accounts,
         NEW exclude, pc[r] \notin PickedPcs \cup SessionPcs, PickAccount(exclude, a),
         \E label \in PickedPcs : pc' = [pc EXCEPT ![r] = label],
         acct' = [acct EXCEPT ![r] = a], UNCHANGED <<chat, activeSessions>>
  PROVE  Lease!Grant(a, r)
  <1> USE HolderIsUnique, HolderIsUniqueNext DEF HolderIsOwner
  <1>1. /\ pc'[r] \in PickedPcs /\ acct'[r] = a
        /\ \A q \in Requests \ {r} : pc'[q] = pc[q] /\ acct'[q] = acct[q]
    BY DEF TypeOK, RequestTypeOK
  <1>2. HoldsSlot(r)' /\ ~HoldsSlot(r) /\ \A q \in Requests \ {r} : HoldsSlot(q)' <=> HoldsSlot(q)
    BY <1>1 DEF HoldsSlot
  <1>3. \A q \in Requests : ~(HoldsSlot(q) /\ acct[q] = a)
    BY DEF PickAccount, Candidates, IsAvailable, SlotInvariant, SlotsHeld
  <1>4. Holder[a] = None
    BY <1>3
  <1>5. ASSUME NEW b \in Accounts PROVE Holder[b] # r
    <2>1. CASE \E q \in Requests : HoldsSlot(q) /\ acct[q] = b
      BY <1>2, <2>1
    <2>2. CASE \A q \in Requests : ~(HoldsSlot(q) /\ acct[q] = b)
      BY <2>2, RequestAssumption
    <2>3. QED
      BY <2>1, <2>2
  <1>6. Holder'[a] = r
    BY <1>1, <1>2
  <1>7. ASSUME NEW b \in Accounts \ {a} PROVE Holder'[b] = Holder[b]
    <2>1. CASE \E q \in Requests : HoldsSlot(q) /\ acct[q] = b
      <3>1. PICK q \in Requests : HoldsSlot(q) /\ acct[q] = b
        BY <2>1
      <3>2. HoldsSlot(q)' /\ acct'[q] = b
        BY <1>1, <1>2, <3>1
      <3>3. QED
        BY <3>1, <3>2
    <2>2. CASE \A q \in Requests : ~(HoldsSlot(q) /\ acct[q] = b)
      <3>1. \A q \in Requests : ~(HoldsSlot(q)' /\ acct'[q] = b)
        BY <1>1, <1>2, <2>2
      <3>2. QED
        BY <2>2, <3>1
    <2>3. QED
      BY <2>1, <2>2
  <1>8. Holder' = [Holder EXCEPT ![a] = r]
    <2>1. Holder = [b \in Accounts |-> Holder[b]] /\ Holder' = [b \in Accounts |-> Holder'[b]]
      BY DEF Holder
    <2>2. QED
      BY <1>6, <1>7, <2>1
  <1>9. QED
    BY <1>4, <1>5, <1>8 DEF Lease!Grant

\* A request that leaves or moves on takes nothing from the others.
LEMMA LeavingAddsNoHolder ==
  ASSUME TypeOK, NEW r \in Requests, Leaves(r), activeSessions' \subseteq activeSessions
  PROVE  NoNewHolder
  <1>1. /\ pc'[r] \in {"idle", "pick", "acquire"}
        /\ \A q \in Requests \ {r} :
             pc'[q] = pc[q] /\ acct'[q] = acct[q] /\ chat'[q] = chat[q]
    BY LeavesHolders
  <1>2. QED
    BY <1>1 DEF NoNewHolder, HoldsSlot, PickedPcs, SessionPcs

LEMMA MovingAddsNoHolder ==
  ASSUME TypeOK, NEW r \in Requests, NEW label \in Pcs,
         pc' = [pc EXCEPT ![r] = label],
         label \in PickedPcs => pc[r] \in PickedPcs,
         label \in SessionPcs => pc[r] \in SessionPcs,
         UNCHANGED <<acct, activeSessions>>,
         chat' = chat \/ pc[r] \in PickedPcs,
         \A q \in Requests \ {r} : chat'[q] = chat[q]
  PROVE  NoNewHolder
  <1>1. pc'[r] = label /\ \A q \in Requests \ {r} : pc'[q] = pc[q]
    BY DEF TypeOK, RequestTypeOK
  <1>2. QED
    BY <1>1 DEF NoNewHolder, HoldsSlot, PickedPcs, SessionPcs

\* Registering a session leaves the request the holder it was, and makes no
\* other request one: the chat is in nobody else's hands.
LEMMA RegisteringAddsNoHolder ==
  ASSUME TypeOK, NEW r \in Requests, NEW c, pc[r] \in PickedPcs,
         pc' = [pc EXCEPT ![r] = "fetch"], chat' = [chat EXCEPT ![r] = c], acct' = acct,
         activeSessions' = activeSessions \cup {c},
         \A q \in Requests \ {r} : chat[q] # c
  PROVE  NoNewHolder
  <1>1. /\ pc'[r] = "fetch"
        /\ \A q \in Requests \ {r} : pc'[q] = pc[q] /\ chat'[q] = chat[q]
    BY DEF TypeOK, RequestTypeOK
  <1>2. QED
    BY <1>1 DEF NoNewHolder, HoldsSlot, PickedPcs, SessionPcs

LEMMA ReleaseShrinks ==
  ASSUME NEW c, NEW a, Release(c, a)
  PROVE  activeSessions' \subseteq activeSessions
  BY DEF Release

-----------------------------------------------------------------------------

\* What a step of a request does to the leases.
LEMMA RequestLease ==
  ASSUME TypeOK, SlotInvariant, SlotInvariant', NEW r \in Requests,
         Arrive(r) \/ SetupStep(r) \/ StreamStep(r)
  PROVE  Lease!Next
  <1> USE DEF accountVars, poolVars
  <1>1. CASE Pick(r)
    <2>1. PICK a \in Accounts : PickAccount(lastFailed[r], a) /\ acct' = [acct EXCEPT ![r] = a]
      BY <1>1 DEF Pick
    <2>2. \E label \in PickedPcs : pc' = [pc EXCEPT ![r] = label]
      <3>1. CASE r \in ImageRequests
        BY <1>1, <3>1 DEF Pick, PickedPcs
      <3>2. CASE r \notin ImageRequests
        BY <1>1, <3>2 DEF Pick, PickedPcs
      <3>3. QED
        BY <3>1, <3>2
    <2>3. Lease!Grant(a, r)
      BY <1>1, <2>1, <2>2, PickGrants DEF Pick, PickedPcs, SessionPcs
    <2>4. QED
      BY <2>3 DEF Lease!Next
  <1>2. CASE AcquirePick(r)
    <2>1. PICK a \in Accounts : PickAccount(None, a) /\ acct' = [acct EXCEPT ![r] = a]
      BY <1>2 DEF AcquirePick
    <2>2. Lease!Grant(a, r)
      BY <1>2, <2>1, PickGrants DEF AcquirePick, PickedPcs, SessionPcs
    <2>3. QED
      BY <2>2 DEF Lease!Next
  <1>3. CASE Headers(r)
    <2>1. chat[r] \in Chats
      BY <1>3 DEF Headers, SlotInvariant, ChatsInHand
    <2>2. \A q \in Requests \ {r} : chat[q] # chat[r]
      BY <2>1, PoolAssumption DEF SlotInvariant, SessionsOwned
    <2>3. chat = [chat EXCEPT ![r] = chat[r]]
      BY DEF TypeOK, RequestTypeOK
    <2>4. /\ pc[r] \in PickedPcs /\ pc' = [pc EXCEPT ![r] = "fetch"]
          /\ chat' = [chat EXCEPT ![r] = chat[r]] /\ acct' = acct
          /\ activeSessions' = activeSessions \cup {chat[r]}
      BY <1>3, <2>3 DEF Headers, Register, GoTo, PickedPcs
    <2>5. NoNewHolder
      BY <2>2, <2>4, RegisteringAddsNoHolder
    <2>6. QED
      BY <2>5, NoNewHolderEnds
  <1>4. CASE CreateChat(r)
    <2>1. PICK c \in UnusedChats : Register(c, acct[r]) /\ chat' = [chat EXCEPT ![r] = c]
      BY <1>4 DEF CreateChat
    <2>2. /\ pc[r] \in PickedPcs /\ pc' = [pc EXCEPT ![r] = "fetch"] /\ acct' = acct
          /\ activeSessions' = activeSessions \cup {c}
          /\ \A q \in Requests \ {r} : chat[q] # c
      BY <1>4, <2>1 DEF CreateChat, Register, UnusedChats, PickedPcs
    <2>3. NoNewHolder
      BY <2>1, <2>2, RegisteringAddsNoHolder
    <2>4. QED
      BY <2>3, NoNewHolderEnds
  <1>5. CASE PopReady(r)
    <2>1. /\ pc[r] = "pop" /\ pc' = [pc EXCEPT ![r] = "headers"]
          /\ UNCHANGED <<acct, activeSessions>>
          /\ \A q \in Requests \ {r} : chat'[q] = chat[q]
      BY <1>5 DEF PopReady, TypeOK, RequestTypeOK
    <2>2. NoNewHolder
      BY <2>1, MovingAddsNoHolder DEF Pcs, PickedPcs, SessionPcs
    <2>3. QED
      BY <2>2, NoNewHolderEnds
  <1>6. CASE Arrive(r) \/ Upload(r) \/ PopEmpty(r) \/ FetchSucceeds(r) \/ FirstChunk(r) \/ StreamEnds(r)
    <2>1. NoNewHolder
      BY <1>6, MovingAddsNoHolder
      DEF Arrive, Upload, PopEmpty, FetchSucceeds, FirstChunk, StreamEnds, GoTo,
          Pcs, PickedPcs, SessionPcs
    <2>2. QED
      BY <2>1, NoNewHolderEnds
  <1>7. CASE RateLimited(r) \/ Refused(r) \/ CallFails(r)
    <2>1. pc[r] = "fetch" /\ pc' = [pc EXCEPT ![r] = "rejected"]
          /\ UNCHANGED <<acct, chat, activeSessions>>
      BY <1>7 DEF RateLimited, Refused, CallFails, Throw
    <2>2. NoNewHolder
      BY <2>1, MovingAddsNoHolder DEF Pcs, PickedPcs, SessionPcs
    <2>3. QED
      BY <2>2, NoNewHolderEnds
  <1>8. CASE CatchRetryable(r) \/ CatchFatal(r) \/ FirstChunkTimeout(r) \/ FirstChunkRejected(r)
             \/ ReleaseSession(r)
    <2>1. Leaves(r) /\ Release(chat[r], acct[r])
      BY <1>8, NextAttemptLeaves
      DEF CatchRetryable, CatchFatal, FirstChunkTimeout, FirstChunkRejected, ReleaseSession
    <2>2. QED
      BY <2>1, ReleaseShrinks, LeavingAddsNoHolder, NoNewHolderEnds
  <1>9. CASE UploadFails(r) \/ AcquireNone(r) \/ CreateFails(r) \/ CreateTimesOut(r)
    <2>1. Leaves(r) /\ activeSessions' = activeSessions
      BY <1>9, NextAttemptLeaves DEF UploadFails, AcquireNone, CreateFails, CreateTimesOut
    <2>2. QED
      BY <2>1, LeavingAddsNoHolder, NoNewHolderEnds
  <1>10. CASE PickNone(r)
    <2>1. CASE attempt[r] = 0
      <3>1. NoNewHolder
        BY <1>10, <2>1, MovingAddsNoHolder DEF PickNone, GoTo, Pcs, PickedPcs, SessionPcs
      <3>2. QED
        BY <3>1, NoNewHolderEnds
    <2>2. CASE attempt[r] # 0
      <3>1. Leaves(r) /\ activeSessions' = activeSessions
        BY <1>10, <2>2, NextAttemptLeaves DEF PickNone
      <3>2. QED
        BY <3>1, LeavingAddsNoHolder, NoNewHolderEnds
    <2>3. QED
      BY <2>1, <2>2
  <1>11. CASE SkipAccount(r)
    <2>1. chat = [chat EXCEPT ![r] = None]
      BY <1>11 DEF SkipAccount, SlotInvariant, ChatsInHand, TypeOK, RequestTypeOK, PickedPcs, SessionPcs
    <2>2. Leaves(r) /\ activeSessions' = activeSessions
      <3>1. CASE tries[r] + 1 < Cardinality(Accounts)
        BY <1>11, <2>1, <3>1 DEF SkipAccount, Leaves
      <3>2. CASE ~(tries[r] + 1 < Cardinality(Accounts))
        BY <1>11, <3>2, NextAttemptLeaves DEF SkipAccount
      <3>3. QED
        BY <3>1, <3>2
    <2>3. QED
      BY <2>2, LeavingAddsNoHolder, NoNewHolderEnds
  <1>12. QED
    BY <1>1, <1>2, <1>3, <1>4, <1>5, <1>6, <1>7, <1>8, <1>9, <1>10, <1>11
    DEF SetupStep, StreamStep

\* The gateway implements the exclusive lease of accounts: whatever requests,
\* retries, the sweeper and the refills do, a lease is granted on a free account
\* to a request that has none, and ends without passing to another.
THEOREM LeaseImplemented == Spec => ImplementsLease
  <1>1. Init => Lease!Init
    <2> SUFFICES ASSUME Init PROVE Holder = [a \in Accounts |-> None]
      BY DEF Lease!Init
    <2>1. \A r \in Requests : ~HoldsSlot(r)
      BY DEF Init, HoldsSlot, PickedPcs, SessionPcs
    <2>2. QED
      BY <2>1 DEF Holder
  <1>2. /\ TypeOK /\ SlotInvariant /\ (TypeOK /\ SlotInvariant)'
        /\ [Next]_vars
        => [Lease!Next]_Holder
    <2> SUFFICES ASSUME TypeOK, SlotInvariant, (TypeOK /\ SlotInvariant)', [Next]_vars
                 PROVE  [Lease!Next]_Holder
      OBVIOUS
    <2>1. CASE \E r \in Requests : Arrive(r) \/ SetupStep(r) \/ StreamStep(r)
      BY <2>1, RequestLease
    <2>2. CASE (PoolStep /\ UNCHANGED requestVars) \/ (Tick /\ UNCHANGED requestVars)
               \/ AccountStep \/ UNCHANGED vars
      <3>1. /\ UNCHANGED <<pc, acct, chat>>
            /\ activeSessions' \subseteq activeSessions
        BY <2>2 DEF PoolStep, SweepStuckSessions, SessionsLeft, TopUpStops, TopUpCreates,
                    DeleteSession, Tick, AccountStep, SaveCookies, ToggleDisabled,
                    vars, poolVars, requestVars
      <3>2. NoNewHolder
        BY <3>1 DEF NoNewHolder, HoldsSlot
      <3>3. QED
        BY <3>2, NoNewHolderEnds
    <2>3. QED
      BY <2>1, <2>2 DEF Next
  <1>3. QED
    BY <1>1, <1>2, LedgerIsKept, PTL DEF Spec, ImplementsLease, Lease!Spec
=============================================================================
