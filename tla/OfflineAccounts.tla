-------------------------- MODULE OfflineAccounts --------------------------
(***************************************************************************)
(* Several accounts and tabs over one browser's offline store: the token   *)
(* in localStorage, which the tabs share, activeOfflineScope, which each   *)
(* tab has for itself, and outbox rows and snapshots kept per account.     *)
(*                                                                         *)
(* Every function of laravelApi.ts that awaits is a job: it takes its      *)
(* account from one variable when it starts and its token from the other   *)
(* when it sends, and goes on after the dashboard that started it is gone. *)
(* The server is one step here (OfflineSync has its steps and its faults); *)
(* order, expiry of rows and the limits of the outbox are there, too.      *)
(***************************************************************************)
EXTENDS FiniteSets

CONSTANTS
    Users,
    Tabs,
    Logins,   \* tokens: bound on the logins
    Ops,      \* entries a form may make
    Jobs,     \* bound on the calls under way at the same time
    Nil

ASSUME NilIsNothing == Nil \notin Users \cup Tabs \cup Logins

VARIABLES
    token,     \* localStorage's al-imtiaz-laravel-token
    owner,     \* owner[l]: whose token it is, once issued
    live,      \* tokens the server has not deleted
    scope,     \* scope[t]: activeOfflineScope
    shown,     \* shown[t]: the user whose dashboard the tab shows
    job,       \* job[j]: a call under way
    row,       \* row[op]: its outbox row, with the account in its scopeKey
    snapshot,  \* snapshot[u]: whose data is cached under the scope of u
    author,    \* author[op]: on whose dashboard the entry was made
    saved,     \* saved[op]: whom the direct POST recorded it for
    ledger,    \* ledger[u][op]: offline_sync_operations of u
    mixed      \* the browser took an account while it still worked for another

sessionVars == <<token, owner, live, scope, shown, mixed>>
storeVars == <<row, snapshot>>
recordVars == <<author, saved, ledger>>
vars == <<sessionVars, job, storeVars, recordVars>>

-----------------------------------------------------------------------------
NoJob == [kind |-> "none", at |-> "idle", tab |-> Nil, user |-> Nil,
          login |-> Nil, ops |-> {}]
NoRow == [user |-> Nil, status |-> "absent"]

Init ==
    /\ token = Nil /\ live = {} /\ mixed = FALSE
    /\ owner = [l \in Logins |-> Nil]
    /\ scope = [t \in Tabs |-> Nil] /\ shown = [t \in Tabs |-> Nil]
    /\ job = [j \in Jobs |-> NoJob]
    /\ row = [op \in Ops |-> NoRow] /\ snapshot = [u \in Users |-> Nil]
    /\ author = [op \in Ops |-> Nil] /\ saved = [op \in Ops |-> Nil]
    /\ ledger = [u \in Users |-> [op \in Ops |-> "none"]]

Start(j, kind, at, t, u, l, ops) ==
    /\ job[j] = NoJob
    /\ job' = [job EXCEPT ![j] = [kind |-> kind, at |-> at, tab |-> t,
                                  user |-> u, login |-> l, ops |-> ops]]

Is(j, kind, at) == job[j].kind = kind /\ job[j].at = at
Move(j, at) == job' = [job EXCEPT ![j].at = at]
End(j) == job' = [job EXCEPT ![j] = NoJob]
Authentic(j) == job[j].login \in live
Signed(j) == owner[job[j].login]

\* The answer finds the page that asked, or nobody.
Answer(j) == IF job[j].tab = Nil THEN End(j) ELSE Move(j, "answered")

\* What a job has still to decide by the token or the scope it will find.
Undecided(j) ==
    /\ job[j].tab # Nil
    /\ \/ job[j].at = "ready"
       \/ job[j].kind = "post" /\ job[j].at \in {"sent", "answered", "failed"}

WorksForOthers(u) ==
    \/ \E t \in Tabs : shown[t] \notin {u, Nil}
    \/ \E j \in Jobs : Undecided(j) /\ job[j].user # u

-----------------------------------------------------------------------------
(* Pages and accounts                                                      *)

\* login, loginAsRole and register: the panel shows when nobody is signed in and
\* the page is not asking who is.  The token of another tab is overwritten.
Login(t, l, u) ==
    /\ shown[t] = Nil
    /\ \A j \in Jobs : job[j].tab = t => job[j].kind \notin {"me", "logout"}
    /\ owner[l] = Nil
    /\ owner' = [owner EXCEPT ![l] = u]
    /\ live' = live \cup {l}
    /\ token' = l
    /\ scope' = [scope EXCEPT ![t] = u]
    /\ shown' = [shown EXCEPT ![t] = u]
    /\ mixed' = (mixed \/ WorksForOthers(u))
    /\ UNCHANGED <<job, storeVars, recordVars>>

\* The page is loaded again: what it awaited is gone, what it sent is not.
Abandoned(t) ==
    [k \in Jobs |-> IF job[k].tab # t THEN job[k]
                    ELSE IF job[k].at = "sent" THEN [job[k] EXCEPT !.tab = Nil]
                    ELSE NoJob]

\* LiveDashboard's first effect: with a token it asks who it is.
OpenPage(t) ==
    /\ scope' = [scope EXCEPT ![t] = Nil]
    /\ shown' = [shown EXCEPT ![t] = Nil]
    /\ IF token = Nil
       THEN job' = Abandoned(t)
       ELSE \E j \in Jobs :
              /\ Abandoned(t)[j] = NoJob
              /\ job' = [Abandoned(t) EXCEPT ![j] =
                           [kind |-> "me", at |-> "sent", tab |-> t, user |-> Nil,
                            login |-> token, ops |-> {}]]
    /\ UNCHANGED <<token, owner, live, mixed, storeVars, recordVars>>

ArriveMe(j) ==
    /\ Is(j, "me", "sent")
    /\ IF Authentic(j) \/ job[j].tab = Nil THEN Answer(j) ELSE Move(j, "failed")
    /\ UNCHANGED <<sessionVars, storeVars, recordVars>>

AdoptMe(j) ==
    /\ Is(j, "me", "answered")
    /\ LET u == Signed(j)  t == job[j].tab IN
         /\ scope' = [scope EXCEPT ![t] = u]
         /\ shown' = [shown EXCEPT ![t] = u]
         /\ mixed' = (mixed \/ WorksForOthers(u) \/ (token # Nil /\ owner[token] # u))
    /\ End(j)
    /\ UNCHANGED <<token, owner, live, storeVars, recordVars>>

\* me() failed, whatever for: the page tries to log out.
GiveUpMe(j) ==
    /\ Is(j, "me", "failed")
    /\ job' = [job EXCEPT ![j].kind = "logout", ![j].at = "sent", ![j].login = token]
    /\ UNCHANGED <<sessionVars, storeVars, recordVars>>

StartLogout(t, j) ==
    /\ shown[t] # Nil
    /\ Start(j, "logout", "sent", t, Nil, token, {})
    /\ UNCHANGED <<sessionVars, storeVars, recordVars>>

\* AuthController::logout deletes the token it was called with; without a valid
\* one the call throws before anything is cleared.
ArriveLogout(j) ==
    /\ Is(j, "logout", "sent")
    /\ live' = live \ {job[j].login}
    /\ IF Authentic(j) THEN Answer(j) ELSE End(j)
    /\ UNCHANGED <<token, owner, scope, shown, mixed, storeVars, recordVars>>

\* Broken variants, each named for the mistake, stand before the definition they
\* would replace; PROJECT.json pairs them with the property that catches them.
ClearEverybody(j) ==
    /\ Is(j, "logout", "answered")
    /\ row' = [op \in Ops |-> NoRow]
    /\ snapshot' = [u \in Users |-> Nil]
    /\ Move(j, "cleared")
    /\ UNCHANGED <<sessionVars, recordVars>>

\* clearOfflineScope, in one transaction, for the account of the tab if it has one.
ClearScope(j) ==
    /\ Is(j, "logout", "answered")
    /\ LET u == scope[job[j].tab] IN
         /\ row' = [op \in Ops |-> IF row[op].user = u THEN NoRow ELSE row[op]]
         /\ snapshot' = [v \in Users |-> IF v = u THEN Nil ELSE snapshot[v]]
    /\ Move(j, "cleared")
    /\ UNCHANGED <<sessionVars, recordVars>>

\* The token that is there now goes, whoever's it is.
EndLogout(j) ==
    /\ Is(j, "logout", "cleared")
    /\ scope' = [scope EXCEPT ![job[j].tab] = Nil]
    /\ shown' = [shown EXCEPT ![job[j].tab] = Nil]
    /\ token' = Nil
    /\ End(j)
    /\ UNCHANGED <<owner, live, mixed, storeVars, recordVars>>

-----------------------------------------------------------------------------
(* Entries: createOrQueue                                                  *)

StartPost(t, j, op) ==
    /\ shown[t] # Nil
    /\ author[op] = Nil
    /\ author' = [author EXCEPT ![op] = shown[t]]
    /\ Start(j, "post", "sent", t, shown[t], token, {op})
    /\ UNCHANGED <<sessionVars, storeVars, saved, ledger>>

\* Only status 0 queues: an answer that says no is shown and that is all.
ArrivePost(j) ==
    /\ Is(j, "post", "sent")
    /\ IF Authentic(j)
       THEN saved' = [op \in Ops |-> IF op \in job[j].ops THEN Signed(j) ELSE saved[op]]
            /\ Answer(j)
       ELSE saved' = saved /\ End(j)
    /\ UNCHANGED <<sessionVars, storeVars, author, ledger>>

EndPost(j) ==
    /\ Is(j, "post", "answered")
    /\ End(j)
    /\ UNCHANGED <<sessionVars, storeVars, recordVars>>

\* queueSupportedOperation takes the scope that is active now, or throws.
QueuePost(j) ==
    /\ Is(j, "post", "failed")
    /\ LET u == scope[job[j].tab] IN
         IF u = Nil THEN End(j)
         ELSE job' = [job EXCEPT ![j].user = u, ![j].at = "putting"]
    /\ UNCHANGED <<sessionVars, storeVars, recordVars>>

PutRow(j) ==
    /\ Is(j, "post", "putting")
    /\ row' = [op \in Ops |-> IF op \in job[j].ops
                              THEN [user |-> job[j].user, status |-> "queued"] ELSE row[op]]
    /\ End(j)
    /\ UNCHANGED <<sessionVars, snapshot, recordVars>>

-----------------------------------------------------------------------------
(* Synchronising: syncOfflineQueue                                         *)

QueuedAnywhere(u) == {op \in Ops : row[op].status = "queued"}

QueuedOf(u) == {op \in Ops : row[op] = [user |-> u, status |-> "queued"]}

StartSync(t, j) ==
    /\ scope[t] # Nil
    /\ QueuedOf(scope[t]) # {}
    /\ Start(j, "sync", "ready", t, scope[t], Nil, QueuedOf(scope[t]))
    /\ UNCHANGED <<sessionVars, storeVars, recordVars>>

\* request reads the token when it is called, after what came before was awaited:
\* the outbox for a sync, five lists for a snapshot.
Send(j) ==
    /\ job[j].at = "ready"
    /\ job' = [job EXCEPT ![j].at = "sent", ![j].login = token]
    /\ UNCHANGED <<sessionVars, storeVars, recordVars>>

\* What the server makes of operations it has not seen from this user.
Decided(old, ops) ==
    {new \in [Ops -> {"none", "applied", "refused"}] :
        \A op \in Ops : IF op \in ops /\ old[op] = "none" THEN new[op] # "none"
                        ELSE new[op] = old[op]}

\* The ledger is kept per user of the token and operation.
ArriveSync(j) ==
    /\ Is(j, "sync", "sent")
    /\ IF Authentic(j)
       THEN /\ \E new \in Decided(ledger[Signed(j)], job[j].ops) :
                  ledger' = [ledger EXCEPT ![Signed(j)] = new]
            /\ Answer(j)
       ELSE ledger' = ledger /\ End(j)
    /\ UNCHANGED <<sessionVars, storeVars, author, saved>>

RowWithOutcome(j, op) == [user |-> job[j].user, status |-> ledger[Signed(j)][op]]

\* put brings back a row that is gone, under the scope it had.
RowAfter(j, op) ==
    IF ledger[Signed(j)][op] = "applied" THEN NoRow
    ELSE [user |-> job[j].user, status |-> "refused"]

HandleReply(j, op) ==
    /\ Is(j, "sync", "answered")
    /\ op \in job[j].ops
    /\ row' = [row EXCEPT ![op] = RowAfter(j, op)]
    /\ job' = [job EXCEPT ![j].ops = @ \ {op}]
    /\ UNCHANGED <<sessionVars, snapshot, recordVars>>

EndSync(j) ==
    /\ Is(j, "sync", "answered")
    /\ job[j].ops = {}
    /\ End(j)
    /\ UNCHANGED <<sessionVars, storeVars, recordVars>>

-----------------------------------------------------------------------------
(* Loading: the lists, and the snapshot for when they fail                 *)

StartLoad(t, j) ==
    /\ shown[t] # Nil
    /\ Start(j, "load", "ready", t, shown[t], Nil, {})
    /\ UNCHANGED <<sessionVars, storeVars, recordVars>>

ArriveLoad(j) ==
    /\ Is(j, "load", "sent")
    /\ IF Authentic(j) \/ job[j].tab = Nil THEN Answer(j) ELSE Move(j, "failed")
    /\ UNCHANGED <<sessionVars, storeVars, recordVars>>

CacheForActive(j) ==
    /\ Is(j, "load", "answered")
    /\ snapshot' = [u \in Users |-> IF u = scope[job[j].tab] THEN Signed(j) ELSE snapshot[u]]
    /\ End(j)
    /\ UNCHANGED <<sessionVars, row, recordVars>>

\* cacheOfflineSnapshot, under the user the dashboard was drawn for.
CacheSnapshot(j) ==
    /\ Is(j, "load", "answered")
    /\ snapshot' = [snapshot EXCEPT ![job[j].user] = Signed(j)]
    /\ End(j)
    /\ UNCHANGED <<sessionVars, row, recordVars>>

\* The catch reads the snapshot, and deletes one of more than seven days.
FallBack(j) ==
    /\ Is(j, "load", "failed")
    /\ \E kept \in {snapshot[job[j].user], Nil} :
          snapshot' = [snapshot EXCEPT ![job[j].user] = kept]
    /\ End(j)
    /\ UNCHANGED <<sessionVars, row, recordVars>>

-----------------------------------------------------------------------------
\* The connection goes before the request arrives or before its answer does, or
\* the local store fails on the answer.  A logout or a sync has nothing to do then.
Lose(j) ==
    /\ job[j].tab # Nil
    /\ job[j].at \in {"ready", "sent", "answered"}
    /\ IF job[j].kind \in {"logout", "sync"} THEN End(j) ELSE Move(j, "failed")
    /\ UNCHANGED <<sessionVars, storeVars, recordVars>>

PageStep(t) ==
    \/ OpenPage(t)
    \/ \E l \in Logins, u \in Users : Login(t, l, u)
    \/ \E j \in Jobs : StartLogout(t, j) \/ StartSync(t, j) \/ StartLoad(t, j)
    \/ \E j \in Jobs, op \in Ops : StartPost(t, j, op)

JobStep(j) ==
    \/ ArriveMe(j) \/ AdoptMe(j) \/ GiveUpMe(j)
    \/ ArriveLogout(j) \/ ClearScope(j) \/ EndLogout(j)
    \/ ArrivePost(j) \/ EndPost(j) \/ QueuePost(j) \/ PutRow(j)
    \/ Send(j) \/ ArriveSync(j) \/ (\E op \in Ops : HandleReply(j, op)) \/ EndSync(j)
    \/ ArriveLoad(j) \/ CacheSnapshot(j) \/ FallBack(j) \/ Lose(j)

Next == (\E t \in Tabs : PageStep(t)) \/ (\E j \in Jobs : JobStep(j))

Spec == Init /\ [][Next]_vars

-----------------------------------------------------------------------------
(* Properties                                                              *)

TypeOK ==
    /\ token \in Logins \cup {Nil} /\ live \subseteq Logins /\ mixed \in BOOLEAN
    /\ owner \in [Logins -> Users \cup {Nil}]
    /\ {scope, shown} \subseteq [Tabs -> Users \cup {Nil}]
    /\ job \in [Jobs -> [kind : {"none", "me", "logout", "post", "sync", "load"},
                         at : {"idle", "ready", "sent", "answered", "failed", "cleared",
                               "putting"},
                         tab : Tabs \cup {Nil}, user : Users \cup {Nil},
                         login : Logins \cup {Nil}, ops : SUBSET Ops]]
    /\ row \in [Ops -> [user : Users \cup {Nil}, status : {"absent", "queued", "refused"}]]
    /\ snapshot \in [Users -> Users \cup {Nil}]
    /\ {author, saved} \subseteq [Ops -> Users \cup {Nil}]
    /\ ledger \in [Users -> [Ops -> {"none", "applied", "refused"}]]

\* As long as the browser does not take an account while it works for another, an
\* entry is recorded for nobody but the user who made it: accounts may follow one
\* another, tabs may share one, and rows may be left behind by a logout.
RecordedForAuthor ==
    mixed \/ \A op \in Ops :
        /\ saved[op] \in {author[op], Nil}
        /\ \A u \in Users : ledger[u][op] # "none" => u = author[op]

\* Then the store keeps the accounts apart, too: rows and snapshots under a scope
\* are of its user, also those that a job brings back after a logout.
StoreIsApart ==
    mixed \/ /\ \A op \in Ops : row[op].user \in {author[op], Nil}
             /\ \A u \in Users : snapshot[u] \in {u, Nil}

\* j is the logout of u, which the server carried out, and clears its scope now.
LogsOut(j, u) ==
    /\ Is(j, "logout", "answered") /\ job'[j].at = "cleared"
    /\ job[j].login \notin live /\ Signed(j) = u
    /\ scope[job[j].tab] = u

\* And a queued row goes only when its author has it recorded, or in the very step
\* in which a logout of its author clears: never with that of the next user, nor
\* while the author goes on working.
RowsWaitForAuthor ==
    [][\A op \in Ops :
         ~mixed /\ row[op].status = "queued" /\ row'[op].status = "absent" =>
             \/ ledger[author[op]][op] = "applied"
             \/ \E j \in Jobs : LogsOut(j, author[op])]_vars

\* docs/offline-sync.md: "Never read a snapshot or outbox row whose user ID and role
\* do not match the current authenticated account."
RowsAreOfAccount ==
    \A j \in Jobs : Is(j, "sync", "sent") /\ Authentic(j) => Signed(j) = job[j].user

\* docs/offline-sync.md, at logout: "Delete all snapshots, outbox items, and sync
\* outcomes for the logged-out account."
LogoutLeavesNothing ==
    token = Nil /\ (\A t \in Tabs : scope[t] = Nil) =>
        /\ \A op \in Ops : row[op] = NoRow
        /\ \A u \in Users : snapshot[u] = Nil
=============================================================================
