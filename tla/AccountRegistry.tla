--------------------------- MODULE AccountRegistry --------------------------
(***************************************************************************)
(* The account registry of src/services/accountManager.ts and auth.ts: the *)
(* entries in memory, the index by email, accounts.json, the browser       *)
(* profiles, and the operations that await a browser while they run:       *)
(* initAuth at start, reloadAccounts behind the file watcher, addAccount   *)
(* and the login of one account.  Requests take and give back slots        *)
(* meanwhile, and the process may die and start again.                     *)
(*                                                                         *)
(* An entry is an object: operations keep references to it after it has    *)
(* left the list.  Its fields are kept by entry number; a number is used   *)
(* again once nothing refers to it.  Cooldowns are counted in ticks.       *)
(***************************************************************************)
EXTENDS Naturals, FiniteSets, SequencesExt

CONSTANTS
    Emails,             \* the accounts an operator may have
    EnvEmails,          \* those given as ACCOUNT1=email:password
    Requests,           \* requests that take a slot
    ApiKeys,            \* values of API_KEY, "none" if unset
    MaxEntries,         \* bound: entry objects referred to at once
    MaxTasks,           \* bound: operations the operator has awaiting a browser
    MaxCooldown,        \* bound: ticks of a cooldown
    SurvivingProfiles,  \* TRUE: a profile may outlive the removal of its account
    TornWrites,         \* TRUE: the process may die in the middle of a save
    SlashedCookies      \* TRUE: a cookie of a profile may contain "//"

ASSUME RegistryAssumption ==
    /\ EnvEmails \subseteq Emails
    /\ Cardinality(EnvEmails) <= 1
    /\ Cardinality(Emails) <= 3     \* one batch of profile loads at start
    /\ MaxEntries \in Nat \ {0}
    /\ MaxCooldown \in Nat \ {0}
    /\ Emails # {} /\ IsFiniteSet(Emails) /\ IsFiniteSet(Requests)

VARIABLES
    boot,       \* initAuth: "down" (no process), "profiles", "logins", "done"
    entries,    \* the entry objects
    accounts,   \* the registry: a sequence of entry numbers
    emailIndex, \* entry number by email, 0 if absent
    file,       \* accounts.json: the key its passwords are encrypted with, its records
    masterKey,  \* .qwen/master.key exists
    apiKey,     \* API_KEY of the running process ("none" while there is none)
    profile,    \* browser profile by email
    tasks,      \* operations that await a browser or the sign-in API
    watcher,    \* "off", "warming" (the first two seconds), "ready", "failed"
    debounce,   \* the watcher's timer is set
    slot        \* the entry whose slot a request holds, 0 if none

vars == <<boot, entries, accounts, emailIndex, file, masterKey, apiKey,
          profile, tasks, watcher, debounce, slot>>
keyVars == <<masterKey, apiKey>>

Ids == 1..MaxEntries
Profiles == {"gone", "none", "blank", "expired", "signed"}

NewEntry(e) ==
    [email |-> e, token |-> FALSE, throttled |-> 0, disabled |-> FALSE,
     slashed |-> FALSE, inFlight |-> 0]

\* An entry number nothing refers to.
Unused == NewEntry(CHOOSE e \in Emails : TRUE)

Task(kind, e, id, acct, at) ==
    [kind |-> kind, email |-> e, entry |-> id, acct |-> acct, at |-> at]

TypeOK ==
    /\ boot \in {"down", "profiles", "logins", "done"}
    /\ entries \in [Ids -> [email : Emails, token : BOOLEAN, throttled : 0..MaxCooldown,
                            disabled : BOOLEAN, slashed : BOOLEAN, inFlight : Nat]]
    /\ accounts \in Seq(Ids)
    /\ emailIndex \in [Emails -> Ids \cup {0}]
    /\ file \in [key : ApiKeys \cup {"master"},
                 recs : Seq([email : Emails, token : BOOLEAN, throttled : 0..MaxCooldown,
                             disabled : BOOLEAN, slashed : BOOLEAN])]
    /\ masterKey \in BOOLEAN
    /\ apiKey \in ApiKeys \cup {"none"}
    /\ profile \in [Emails -> Profiles]
    /\ tasks \subseteq [kind : {"boot", "reload", "add", "login"}, email : Emails,
                        entry : Ids, acct : Ids \cup {0},
                        at : {"open", "create", "reading", "authorize", "signin"}]
    /\ watcher \in {"off", "warming", "ready", "failed"}
    /\ debounce \in BOOLEAN
    /\ slot \in [Requests -> Ids \cup {0}]

Init ==
    /\ boot = "down"
    /\ entries = [id \in Ids |-> Unused]
    /\ accounts = <<>>
    /\ emailIndex = [e \in Emails |-> 0]
    /\ file = [key |-> "master", recs |-> <<>>]
    /\ masterKey = FALSE
    /\ apiKey = "none"
    /\ profile = [e \in Emails |-> "gone"]
    /\ tasks = {}
    /\ watcher = "off"
    /\ debounce = FALSE
    /\ slot = [r \in Requests |-> 0]

-----------------------------------------------------------------------------
(* Looking accounts up, and what a save writes.                            *)

\* accounts.find by email, over the entry numbers es.
Found(ents, list, e) ==
    LET at == {i \in DOMAIN list : ents[list[i]].email = e}
    IN IF at = {} THEN 0 ELSE list[Min(at)]

\* rebuildEmailIndex: the last entry of an email wins.
IndexOf(ents, list) ==
    [e \in Emails |->
        LET at == {i \in DOMAIN list : ents[list[i]].email = e}
        IN IF at = {} THEN 0 ELSE list[Max(at)]]

\* getAccountByEmail.
ByEmail(e) == emailIndex[e]

\* getEncryptionKey: the key file, else API_KEY, else a new key file.
KeyInUse == IF masterKey \/ apiKey = "none" THEN "master" ELSE apiKey

\* saveAccountsToFile.
Image(ents, list) ==
    [key  |-> KeyInUse,
     recs |-> [i \in DOMAIN list |->
                 [email |-> ents[list[i]].email, token |-> ents[list[i]].token,
                  throttled |-> ents[list[i]].throttled, disabled |-> ents[list[i]].disabled,
                  slashed |-> ents[list[i]].slashed]]]

\* A save of the given entries, which the watcher notices.  Encrypting the
\* first password creates the key file when there is neither key.
Saves(ents, list) ==
    /\ file' = Image(ents, list)
    /\ masterKey' = (masterKey \/ (list # <<>> /\ apiKey = "none"))
    /\ debounce' = (debounce \/ watcher \in {"warming", "ready"})

NoSave == UNCHANGED <<file, masterKey, debounce>>

\* saveCookies: the entry found by email gets the token and is let off its
\* cooldown; without an entry nothing is saved.
WithCookies(ents, list, e) ==
    LET id == Found(ents, list, e)
    IN IF id = 0 THEN ents
       ELSE [ents EXCEPT ![id].token = TRUE, ![id].throttled = 0]

\* The entry numbers of a list that are in ids.
Only(list, ids) ==
    LET kept[i \in 0..Len(list)] ==
          IF i = 0 THEN <<>>
          ELSE IF list[i] \in ids THEN Append(kept[i - 1], list[i]) ELSE kept[i - 1]
    IN  kept[Len(list)]

\* The entry numbers nothing refers to, and the fields of an entry that was dropped.
Referred(list, ts, sl) ==
    Range(list) \cup {t.entry : t \in ts} \cup {t.acct : t \in ts} \cup Range(sl)
FreeIds == Ids \ Referred(accounts, tasks, slot)
Swept(ents, list, ts, sl) ==
    [id \in Ids |-> IF id \in Referred(list, ts, sl) THEN ents[id] ELSE Unused]

-----------------------------------------------------------------------------
(* initAuth.                                                               *)

\* loadAccountsFromFile: comments are stripped before the file is parsed, also
\* inside strings; a line cut that way is no JSON and nothing is loaded.
Loaded(recs) == IF \E p \in Range(recs) : p.slashed THEN <<>> ELSE recs

\* Mutant of MergedEmails: only the accounts of the environment.
MergedEmailsEnv(recs, decrypted) == SetToSeq(EnvEmails)

\* The emails of the merged accounts: those of the environment, then those of
\* the file whose password could be decrypted.
MergedEmails(recs, decrypted) ==
    LET merged[i \in 0..Len(recs)] ==
          IF i = 0 THEN SetToSeq(EnvEmails)
          ELSE IF decrypted /\ recs[i].email \notin Range(merged[i - 1])
               THEN Append(merged[i - 1], recs[i].email) ELSE merged[i - 1]
    IN  merged[Len(recs)]

\* Mutant of MergedEntry: the disabled flag of the file is not carried over.
MergedEntryEnabled(recs, e, stale) ==
    LET at == {i \in DOMAIN recs : recs[i].email = e}
        cool == {i \in at : recs[i].throttled > 0}
    IN [NewEntry(e) EXCEPT
          !.throttled = IF cool = {} THEN 0 ELSE recs[Max(cool)].throttled,
          !.token = (~stale /\ \E i \in at : recs[i].token)]

\* The entry of one account, with what the file remembers of it.
MergedEntry(recs, e, stale) ==
    LET at == {i \in DOMAIN recs : recs[i].email = e}
        cool == {i \in at : recs[i].throttled > 0}
    IN [NewEntry(e) EXCEPT
          !.throttled = IF cool = {} THEN 0 ELSE recs[Max(cool)].throttled,
          !.disabled = IF at = {} THEN FALSE ELSE recs[Max(at)].disabled,
          !.slashed = (\E i \in at : recs[i].slashed),
          !.token = (~stale /\ \E i \in at : recs[i].token)]

\* Where loadCookiesFromProfile starts: it reads the profile's cookies if there
\* are any; else it logs in, for which the account must be registered.
LoadTask(kind, e, id, acct) ==
    Task(kind, e, id, acct,
         IF profile[e] \in {"gone", "none"} THEN "create" ELSE "reading")

\* getProfileDir makes the directory.
WithDir(e) == IF profile[e] = "gone" THEN "none" ELSE profile[e]

\* The process starts: the file is read and merged with the environment, and a
\* profile load begins for every account.  Some of the saved tokens may have
\* expired.  Without accounts there is nothing to wait for, and no watcher.
Start ==
    /\ boot = "down"
    /\ \E key \in ApiKeys, stale \in SUBSET Emails :
          LET inUse == IF masterKey \/ key = "none" THEN "master" ELSE key
              recs == Loaded(file.recs)
              list == MergedEmails(recs, file.key = inUse)
              byId == [id \in Ids |-> IF id \in DOMAIN list
                                      THEN MergedEntry(recs, list[id], list[id] \in stale)
                                      ELSE Unused]
              order == [i \in DOMAIN list |-> i]
          IN /\ Len(list) <= MaxEntries
             /\ stale \subseteq {p.email : p \in {q \in Range(recs) : q.token}}
             /\ apiKey' = key
             /\ masterKey' = (masterKey \/ (recs # <<>> /\ key = "none"))
             /\ entries' = byId
             /\ accounts' = order
             /\ emailIndex' = IndexOf(byId, order)
             /\ tasks' = {LoadTask("boot", list[i], i, i) : i \in DOMAIN list}
             /\ profile' = [e \in Emails |-> IF e \in Range(list) THEN WithDir(e) ELSE profile[e]]
             /\ boot' = IF list = <<>> THEN "done" ELSE "profiles"
    /\ UNCHANGED <<file, watcher, debounce, slot>>

NoBootTask == \A t \in tasks : t.kind # "boot"

\* Phase 2: the accounts that have no token sign in through the API.
BootLogins ==
    /\ boot = "profiles"
    /\ NoBootTask
    /\ boot' = "logins"
    /\ tasks' = tasks \cup
          {Task("boot", entries[id].email, id, 0, "signin") :
             id \in {i \in Range(accounts) : ~entries[i].token}}
    /\ UNCHANGED <<entries, accounts, emailIndex, file, keyVars, profile, watcher, debounce, slot>>

\* The end of initAuth: the file is watched from now on.
BootDone ==
    /\ boot = "logins"
    /\ NoBootTask
    /\ boot' = "done"
    /\ watcher' = "warming"
    /\ UNCHANGED <<entries, accounts, emailIndex, file, keyVars, profile, tasks, debounce, slot>>

-----------------------------------------------------------------------------
(* Operations that await a browser.                                        *)

Put(ents, list, ts, sl) ==
    /\ accounts' = list
    /\ tasks' = ts
    /\ slot' = sl
    /\ entries' = Swept(ents, list, ts, sl)

Reindex(ents, list) ==
    emailIndex' = IF list = accounts THEN emailIndex ELSE IndexOf(ents, list)

\* Mutant of Stays: a busy account is dropped too.
StaysIfKnown(ents, id) ==
    \/ ents[id].email \in EnvEmails
    \/ profile[ents[id].email] # "gone"

\* What reloadAccounts keeps: accounts of the environment, those with a profile
\* directory, and those that serve a request.
Stays(ents, id) ==
    \/ ents[id].email \in EnvEmails
    \/ profile[ents[id].email] # "gone"
    \/ ents[id].inFlight > 0

\* The last part of reloadAccounts.
Reloaded(ents, list, ts) ==
    LET kept == Only(list, {id \in Ids : Stays(ents, id)})
    IN /\ Put(ents, kept, ts, slot)
       /\ Reindex(ents, kept)

\* The caller of loadCookiesFromProfile goes on with its result.
Returns(t, ok, ents) ==
    LET got == IF ok THEN [ents EXCEPT ![t.entry].token = TRUE] ELSE ents
        rest == tasks \ {t}
    IN \/ /\ t.kind = "reload"
          /\ Reloaded(got, Append(accounts, t.entry), rest)
       \/ /\ t.kind = "add"
          /\ ~ok
          /\ Put(got, accounts, rest \cup {[t EXCEPT !.at = "signin", !.acct = 0]}, slot)
          /\ UNCHANGED emailIndex
       \/ /\ t.kind \in {"boot", "login"} \/ (t.kind = "add" /\ ok)
          /\ Put(got, accounts, rest, slot)
          /\ UNCHANGED emailIndex

\* loadCookiesFromProfile reads the cookies of a profile.  Any launch or read
\* may fail.  Cookies are kept with the account and saved; a valid token is
\* saved through saveCookies; without a token the account logs in first.
ReadFails(t) ==
    /\ t.at = "reading"
    /\ Returns(t, FALSE, entries)
    /\ NoSave
    /\ UNCHANGED <<profile>>

ReadBlank(t) ==
    /\ t.at = "reading"
    /\ profile[t.email] \in {"gone", "none", "blank"}
    /\ IF t.acct # 0
       THEN /\ tasks' = (tasks \ {t}) \cup {[t EXCEPT !.at = "authorize"]}
            /\ UNCHANGED <<entries, accounts, emailIndex, slot>>
       ELSE Returns(t, FALSE, entries)
    /\ NoSave
    /\ UNCHANGED <<profile>>

ReadCookies(t) ==
    /\ t.at = "reading"
    /\ profile[t.email] \in {"expired", "signed"}
    /\ \E slashed \in IF SlashedCookies THEN BOOLEAN ELSE {FALSE} :
          LET signed == profile[t.email] = "signed"
              kept == IF t.acct = 0 THEN entries
                      ELSE [entries EXCEPT ![t.acct].slashed = slashed]
              now == IF signed THEN WithCookies(kept, accounts, t.email) ELSE kept
          IN /\ Returns(t, signed, now)
             /\ IF t.acct # 0 \/ (signed /\ Found(entries, accounts, t.email) # 0)
                THEN Saves(now, accounts)
                ELSE NoSave
    /\ UNCHANGED <<profile>>

\* A browser writes its profile when it closes, also when the account has been
\* removed and the directory deleted meanwhile.
Written(e, state) ==
    IF SurvivingProfiles \/ Found(entries, accounts, e) # 0
    THEN [profile EXCEPT ![e] = state]
    ELSE profile

\* openBrowserProfile has ended (headless, or with a window after a CAPTCHA):
\* with the token polled from the page and saved, with a valid token that was
\* there already, or without one.
After(t, loggedIn, ents) ==
    LET updated == Found(ents, accounts, t.email)
        acct == IF t.at = "create" THEN t.acct ELSE updated
    IN \/ /\ t.at = "open"
          /\ loggedIn
          /\ tasks' = (tasks \ {t}) \cup {[t EXCEPT !.at = "reading", !.acct = updated]}
          /\ entries' = ents
          /\ UNCHANGED <<accounts, emailIndex, slot>>
       \/ /\ ~loggedIn \/ t.at # "open"
          /\ Returns(t, loggedIn /\ acct # 0 /\ ents[acct].token, ents)

LogsIn(t) ==
    /\ t.at \in {"open", "create", "authorize"}
    /\ After(t, TRUE, WithCookies(entries, accounts, t.email))
    /\ IF Found(entries, accounts, t.email) # 0
       THEN Saves(WithCookies(entries, accounts, t.email), accounts)
       ELSE NoSave
    /\ profile' = Written(t.email, "signed")

IsLoggedIn(t) ==
    /\ t.at \in {"open", "create", "authorize"}
    /\ profile[t.email] = "signed"
    /\ After(t, TRUE, entries)
    /\ NoSave
    /\ UNCHANGED <<profile>>

LoginFails(t) ==
    /\ t.at \in {"open", "create", "authorize"}
    /\ After(t, FALSE, entries)
    /\ NoSave
    /\ profile' = IF profile[t.email] \in {"gone", "none"} THEN Written(t.email, "blank") ELSE profile

\* loginFresh answers.  initAuth saves the token through saveCookies; addAccount
\* only keeps it in its entry.
SignsIn(t) ==
    /\ t.at = "signin"
    /\ LET got == [entries EXCEPT ![t.entry].token = TRUE]
           now == IF t.kind = "boot" THEN WithCookies(got, accounts, t.email) ELSE got
       IN /\ Put(now, accounts, tasks \ {t}, slot)
          /\ IF t.kind = "boot" /\ Found(entries, accounts, t.email) # 0
             THEN Saves(now, accounts)
             ELSE NoSave
    /\ UNCHANGED <<emailIndex, profile>>

SignInFails(t) ==
    /\ t.at = "signin"
    /\ Put(entries, accounts, tasks \ {t}, slot)
    /\ NoSave
    /\ UNCHANGED <<emailIndex, profile>>

TaskStep ==
    /\ \E t \in tasks :
          \/ ReadFails(t) \/ ReadBlank(t) \/ ReadCookies(t)
          \/ LogsIn(t) \/ IsLoggedIn(t) \/ LoginFails(t)
          \/ SignsIn(t) \/ SignInFails(t)
    /\ UNCHANGED <<boot, apiKey, watcher>>

-----------------------------------------------------------------------------
(* The watcher and reloadAccounts.                                         *)

Missing == EnvEmails \ {entries[id].email : id \in Range(accounts)}

\* The debounce timer fires.  While the watcher warms up nothing happens; else
\* an account of the environment that is not registered is loaded from its
\* profile, and registered when that has ended; then accounts are dropped.
Reload ==
    /\ debounce
    /\ debounce' = FALSE
    /\ \/ /\ watcher = "warming"
          /\ UNCHANGED <<entries, accounts, emailIndex, profile, tasks, slot>>
       \/ /\ watcher # "warming"
          /\ Missing = {}
          /\ Reloaded(entries, accounts, tasks)
          /\ UNCHANGED profile
       \/ /\ watcher # "warming"
          /\ FreeIds # {}
          /\ \E e \in Missing :
                LET id == Min(FreeIds)
                    ents == [entries EXCEPT ![id] = NewEntry(e)]
                IN /\ profile' = [profile EXCEPT ![e] = WithDir(e)]
                   /\ IF profile[e] \in {"gone", "none"}
                      THEN Reloaded(ents, Append(accounts, id), tasks)
                      ELSE /\ tasks' = tasks \cup {LoadTask("reload", e, id, 0)}
                           /\ entries' = ents
                           /\ UNCHANGED <<accounts, emailIndex, slot>>
    /\ UNCHANGED <<boot, file, keyVars, watcher>>

WatcherReady ==
    /\ watcher = "warming"
    /\ watcher' = "ready"
    /\ UNCHANGED <<boot, entries, accounts, emailIndex, file, keyVars, profile, tasks, debounce, slot>>

\* The watcher fails and is set up again after ten seconds; the timer of the
\* failed one may still declare the new one ready.
WatcherFails ==
    /\ watcher \in {"warming", "ready"}
    /\ watcher' = "failed"
    /\ UNCHANGED <<boot, entries, accounts, emailIndex, file, keyVars, profile, tasks, debounce, slot>>

WatcherRetries ==
    /\ watcher = "failed"
    /\ watcher' \in {"warming", "ready"}
    /\ UNCHANGED <<boot, entries, accounts, emailIndex, file, keyVars, profile, tasks, debounce, slot>>

-----------------------------------------------------------------------------
(* The operator: POST, DELETE and PATCH /api/accounts, and the logins.     *)

\* Mutant of NotRegistered: nobody looks.
Anyone(e) == TRUE

NotRegistered(e) == Found(entries, accounts, e) = 0

AddAccount(e) ==
    /\ boot # "down"
    /\ NotRegistered(e)
    /\ FreeIds # {}
    /\ Cardinality(tasks) < MaxTasks
    /\ LET id == Min(FreeIds)
           ents == [entries EXCEPT ![id] = NewEntry(e)]
           list == Append(accounts, id)
       IN /\ Put(ents, list, tasks \cup {Task("add", e, id, 0, "open")}, slot)
          /\ emailIndex' = IndexOf(ents, list)
          /\ Saves(ents, list)
    /\ profile' = [profile EXCEPT ![e] = WithDir(e)]
    /\ UNCHANGED <<boot, apiKey, watcher>>

\* removeAccount: the entry leaves the list whatever refers to it, the registry
\* is saved, and the browser profile deleted.
RemoveAccount(e) ==
    /\ boot # "down"
    /\ LET id == Found(entries, accounts, e)
       IN /\ id # 0
          /\ LET list == Only(accounts, Ids \ {id})
             IN /\ Put(entries, list, tasks, slot)
                /\ emailIndex' = IndexOf(entries, list)
                /\ Saves(entries, list)
    /\ \/ profile' = [profile EXCEPT ![e] = "gone"]
       \/ SurvivingProfiles /\ UNCHANGED profile
    /\ UNCHANGED <<boot, apiKey, watcher>>

\* GET /:email/login and /:email/autofill.
\* Bound: one login of an entry at a time.
LoginAccount(e) ==
    /\ ByEmail(e) # 0
    /\ \A t \in tasks : t.kind = "login" => t.entry # ByEmail(e)
    /\ Cardinality(tasks) < MaxTasks
    /\ tasks' = tasks \cup {Task("login", e, ByEmail(e), 0, "open")}
    /\ profile' = [profile EXCEPT ![e] = WithDir(e)]
    /\ UNCHANGED <<boot, entries, accounts, emailIndex, file, keyVars, watcher, debounce, slot>>

\* Mutant of SetAccountDisabled: the flag is not saved.
SetAccountDisabledUnsaved(e, value) ==
    /\ ByEmail(e) # 0
    /\ entries' = [entries EXCEPT ![ByEmail(e)].disabled = value]
    /\ UNCHANGED <<boot, accounts, emailIndex, file, keyVars, profile, tasks, watcher, debounce, slot>>

SetAccountDisabled(e, value) ==
    /\ ByEmail(e) # 0
    /\ LET ents == [entries EXCEPT ![ByEmail(e)].disabled = value]
       IN entries' = ents /\ Saves(ents, accounts)
    /\ UNCHANGED <<boot, accounts, emailIndex, apiKey, profile, tasks, watcher, slot>>

\* External: somebody deletes a profile directory no browser uses.
DeleteProfile(e) ==
    /\ profile[e] # "gone"
    /\ \A t \in tasks : t.email # e
    /\ profile' = [profile EXCEPT ![e] = "gone"]
    /\ UNCHANGED <<boot, entries, accounts, emailIndex, file, keyVars, tasks, watcher, debounce, slot>>

\* External: the token in a profile's cookies expires.
TokenExpires(e) ==
    /\ profile[e] = "signed"
    /\ profile' = [profile EXCEPT ![e] = "expired"]
    /\ UNCHANGED <<boot, entries, accounts, emailIndex, file, keyVars, tasks, watcher, debounce, slot>>

-----------------------------------------------------------------------------
(* Requests, time, and the death of the process.                           *)

IsAvailable(id) ==
    /\ ~entries[id].disabled
    /\ entries[id].token
    /\ entries[id].throttled = 0
    /\ entries[id].inFlight = 0

\* pickAccount: one of the available entries of the list.
PickAccount(r) ==
    /\ slot[r] = 0
    /\ \E id \in Range(accounts) :
          /\ IsAvailable(id)
          /\ entries' = [entries EXCEPT ![id].inFlight = @ + 1]
          /\ slot' = [slot EXCEPT ![r] = id]
    /\ UNCHANGED <<boot, accounts, emailIndex, file, keyVars, profile, tasks, watcher, debounce>>

\* decrementInFlight: by email, through the index, never below zero.
DecrementInFlight(e) ==
    IF ByEmail(e) # 0 /\ entries[ByEmail(e)].inFlight > 0
    THEN [entries EXCEPT ![ByEmail(e)].inFlight = @ - 1]
    ELSE entries

\* The request ends and gives the slot of its account back.
EndRequest(r) ==
    /\ slot[r] # 0
    /\ Put(DecrementInFlight(entries[slot[r]].email), accounts, tasks, [slot EXCEPT ![r] = 0])
    /\ UNCHANGED <<boot, emailIndex, file, keyVars, profile, watcher, debounce>>

\* A new cooldown overwrites the running one.
Throttled(n) == MaxCooldown

\* throttleAccount: the upstream refuses a request; the cooldown is saved.
ThrottleAccount(r) ==
    /\ slot[r] # 0
    /\ LET id == ByEmail(entries[slot[r]].email)
           ents == [entries EXCEPT ![id].throttled = Throttled(@)]
       IN /\ id # 0
          /\ entries' = ents
          /\ Saves(ents, accounts)
    /\ UNCHANGED <<boot, accounts, emailIndex, apiKey, profile, tasks, watcher, slot>>

Less(n) == IF n = 0 THEN 0 ELSE n - 1

Tick ==
    /\ \/ \E id \in Ids : entries[id].throttled > 0
       \/ \E p \in Range(file.recs) : p.throttled > 0
    /\ entries' = [id \in Ids |-> [entries[id] EXCEPT !.throttled = Less(@)]]
    /\ file' = [file EXCEPT !.recs =
                   [i \in DOMAIN file.recs |-> [file.recs[i] EXCEPT !.throttled = Less(@)]]]
    /\ UNCHANGED <<boot, accounts, emailIndex, keyVars, profile, tasks, watcher, debounce, slot>>

\* The process ends or is killed.  Where it dies while it writes accounts.json,
\* what is left is no JSON and loads as nothing.
Crash ==
    /\ boot # "down"
    /\ boot' = "down"
    /\ entries' = [id \in Ids |-> Unused]
    /\ accounts' = <<>>
    /\ emailIndex' = [e \in Emails |-> 0]
    /\ \/ file' = file
       \/ TornWrites /\ file' = [file EXCEPT !.recs = <<>>]
    /\ tasks' = {}
    /\ watcher' = "off"
    /\ debounce' = FALSE
    /\ slot' = [r \in Requests |-> 0]
    /\ apiKey' = "none"
    /\ UNCHANGED <<masterKey, profile>>

Operator ==
    \E e \in Emails :
        \/ AddAccount(e)
        \/ RemoveAccount(e)
        \/ LoginAccount(e)
        \/ \E value \in BOOLEAN : SetAccountDisabled(e, value)
        \/ DeleteProfile(e)
        \/ TokenExpires(e)

Next ==
    \/ Start \/ BootLogins \/ BootDone \/ TaskStep
    \/ Reload \/ WatcherReady \/ WatcherFails \/ WatcherRetries
    \/ Operator
    \/ \E r \in Requests : PickAccount(r) \/ EndRequest(r) \/ ThrottleAccount(r)
    \/ Tick \/ Crash

Spec == Init /\ [][Next]_vars

-----------------------------------------------------------------------------
(* Properties.                                                             *)

Listed(e) == Found(entries, accounts, e) # 0
Saved(e) == \E p \in Range(file.recs) : p.email = e

Copies(e) == {i \in DOMAIN accounts : entries[accounts[i]].email = e}
Records(e) == {i \in DOMAIN file.recs : file.recs[i].email = e}
Once(e) == Cardinality(Copies(e)) <= 1 /\ Cardinality(Records(e)) <= 1

\* The index leads to an entry of its email.
Indexed ==
    \A e \in Emails :
        IF Copies(e) = {} THEN emailIndex[e] = 0
        ELSE \E i \in Copies(e) : emailIndex[e] = accounts[i]

DuplicatedByReload ==
    \A e \in Emails :
        Copies(e) # {} /\ Cardinality(Copies(e)') > Cardinality(Copies(e)) =>
            \E t \in tasks \ tasks' : t.kind = "reload" /\ t.email = e

\* An account is registered a second time only by a reload that was reading its
\* profile while somebody else registered it: reloadAccounts looks once
\* (accountManager.ts:366) and pushes after its await (:389).  No other overlap of
\* loads, additions, logins and starts does, and the index stays right.
OnlyReloadsDuplicate == []Indexed /\ [][DuplicatedByReload]_vars

Holders(id) == Cardinality({r \in Requests : slot[r] = id})

\* Request r ends, whose entry is not the one its email leads to any more.
EndsElsewhere(r) ==
    /\ slot[r] # 0 /\ slot'[r] = 0
    /\ ByEmail(entries[slot[r]].email) # slot[r]

CountsHeld ==
    \A e \in Emails : ByEmail(e) # 0 => entries[ByEmail(e)].inFlight <= Holders(ByEmail(e))

FewerElsewhere ==
    \A id \in Range(accounts) \cap Range(accounts') :
        Holders(id)' + entries[id].inFlight > Holders(id) + entries'[id].inFlight =>
            \E r \in Requests : EndsElsewhere(r) /\ entries[slot[r]].email = entries[id].email

DroppedIdle ==
    \A r \in Requests :
        LET id == slot[r]
        IN  id \in Range(accounts) \ Range(accounts') /\ slot'[r] = id =>
              RemoveAccount(entries[id].email) \/ entries[id].inFlight < Holders(id)

\* No slot is lost for good, and none is given back twice: the entry an email leads
\* to never counts more requests than hold it, and an entry comes to count fewer only
\* when a request ends whose own entry was removed or listed again meanwhile
\* (accountManager.ts:534, by email, against :516, by entry).  While it counts its
\* requests, only the operator's removal drops it under one.
SlotsAccounted == []CountsHeld /\ [][FewerElsewhere]_vars /\ [][DroppedIdle]_vars

\* What a restart must not forget is in the file at every moment: an account that is
\* registered and saved, each once, has its flag and its cooldown saved.
FileKnows ==
    \A id \in Range(accounts), i \in DOMAIN file.recs :
        entries[id].email = file.recs[i].email /\ Once(entries[id].email) =>
            /\ entries[id].disabled = file.recs[i].disabled
            /\ entries[id].throttled = file.recs[i].throttled

\* An account the operator switched off stays off, through logins, reloads and
\* restarts, until the operator switches it on or removes it, unless it is listed twice.
Off(e) ==
    IF boot = "down" THEN \E p \in Range(file.recs) : p.email = e /\ p.disabled
    ELSE \E id \in Range(accounts) : entries[id].email = e /\ entries[id].disabled

StaysOff ==
    [][\A e \in Emails : Once(e) /\ Off(e) /\ ~Off(e)' =>
          SetAccountDisabled(e, FALSE) \/ ~Listed(e)']_vars

\* accounts.json loses an account only when the operator removes it, when its
\* profile directory is gone, by a crash in the middle of a write, or when the
\* file is overwritten by a process that could not decrypt it.
AccountsKept ==
    [][\A e \in Emails : Saved(e) /\ ~Saved(e)' =>
          \/ Crash
          \/ RemoveAccount(e)
          \/ profile[e] = "gone"
          \/ file.key # KeyInUse]_vars

\* A restart does not end a cooldown: until initAuth has ended, only time does,
\* as long as nobody logs in by hand (accountManager.ts:570).
Cooldown(e) ==
    IF boot = "down" THEN Max({p.throttled : p \in {q \in Range(file.recs) : q.email = e}} \cup {0})
    ELSE Max({entries[id].throttled : id \in {i \in Range(accounts) : entries[i].email = e}} \cup {0})

RestartKeepsCooldowns ==
    [][\A e \in Emails : boot # "done" /\ (\A t \in tasks : t.kind = "boot") =>
          Cooldown(e)' >= Cooldown(e) \/ Tick \/ RemoveAccount(e)]_vars
=============================================================================
