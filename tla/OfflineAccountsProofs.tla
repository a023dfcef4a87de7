----------------------- MODULE OfflineAccountsProofs -----------------------
(***************************************************************************)
(* For any number of users, tabs, tokens, entries and calls under way: as  *)
(* long as the browser does not take an account while it works for         *)
(* another, entries are recorded for their authors, the store keeps the    *)
(* accounts apart, and a queued row waits for its author.                  *)
(***************************************************************************)
EXTENDS OfflineAccounts, TLAPS

Calls == [kind : {"none", "me", "logout", "post", "sync", "load"},
          at : {"idle", "ready", "sent", "answered", "failed", "cleared", "putting"},
          tab : Tabs \cup {Nil}, user : Users \cup {Nil},
          login : Logins \cup {Nil}, ops : SUBSET Ops]

\* Which steps a call of each kind has; only what is on its way may have lost its tab.
Whole(call) ==
    /\ call.kind = "none" => call = NoJob
    /\ call.kind = "me" => call.at \in {"sent", "answered", "failed"}
    /\ call.kind = "logout" => call.at \in {"sent", "answered", "cleared"}
    /\ call.kind = "post" => call.at \in {"sent", "answered", "failed", "putting"}
    /\ call.kind = "sync" => call.at \in {"ready", "sent", "answered"}
    /\ call.kind = "load" => call.at \in {"ready", "sent", "answered", "failed"}
    /\ call.kind \in {"post", "sync", "load"} => call.user \in Users
    /\ call.kind # "none" /\ call.at # "sent" => call.tab \in Tabs
    /\ call.kind \in {"me", "post", "sync", "load"} /\ call.at = "answered" =>
         call.login \in Logins

\* A call works on entries of the account that it began for, and with its token.
ForAuthor(call) ==
    /\ call.kind \in {"post", "sync"} => \A op \in call.ops : author[op] = call.user
    /\ call.kind \in {"post", "sync", "load"} /\ call.login # Nil =>
         owner[call.login] = call.user

\* Tokens that are used anywhere have been issued to somebody.
TokensAreIssued ==
    /\ \A l \in live \cup {token} : l # Nil => owner[l] # Nil
    /\ \A j \in Jobs : job[j].login # Nil => owner[job[j].login] # Nil

\* The accounts the browser would use next: of a dashboard, of a call that has yet
\* to read token or scope, of the token.
InUse(u) ==
    \/ \E t \in Tabs : shown[t] = u
    \/ \E j \in Jobs : Undecided(j) /\ job[j].user = u
    \/ token # Nil /\ owner[token] = u

OneInUse == \A u, v \in Users : InUse(u) /\ InUse(v) => u = v

CallsAreSound ==
    /\ job \in [Jobs -> Calls]
    /\ \A j \in Jobs : Whole(job[j])
    /\ TokensAreIssued
    /\ mixed \/ (OneInUse /\ \A j \in Jobs : ForAuthor(job[j]))

\* A tab keeps its scope and its dashboard together, and a row its account.
ScopesAndRowsAreWhole ==
    /\ scope = shown
    /\ \A op \in Ops : row[op].user = Nil <=> row[op].status = "absent"

AccountsInv ==
    TypeOK /\ CallsAreSound /\ ScopesAndRowsAreWhole /\ RecordedForAuthor /\ StoreIsApart

USE NilIsNothing DEF sessionVars, storeVars, recordVars

\* Nobody is signed in and nothing is stored at first.
LEMMA AccountsAtFirst == Init => AccountsInv
<1> SUFFICES ASSUME Init PROVE AccountsInv
  OBVIOUS
<1>1. NoJob \in Calls /\ Whole(NoJob)
  BY DEF NoJob, Calls, Whole
<1>2. TypeOK
  BY DEF Init, TypeOK, NoJob, NoRow
<1>3. CallsAreSound
  <2>1. \A j \in Jobs : job[j] = NoJob
    BY DEF Init
  <2>2. \A j \in Jobs : ForAuthor(job[j])
    BY <2>1 DEF ForAuthor, NoJob
  <2>3. TokensAreIssued
    BY <2>1 DEF Init, TokensAreIssued, NoJob
  <2>4. \A u \in Users : ~InUse(u)
    BY <2>1 DEF Init, InUse, Undecided, NoJob
  <2> QED BY <1>1, <2>1, <2>2, <2>3, <2>4 DEF Init, CallsAreSound, OneInUse
<1> QED BY <1>2, <1>3 DEF Init, AccountsInv, ScopesAndRowsAreWhole, RecordedForAuthor,
                          StoreIsApart, NoRow

-----------------------------------------------------------------------------
(* Steps of a call that leave the accounts of the tabs as they are         *)

\* Sessions and authors stay, but that a token may be deleted on the server.
AccountsStay ==
    UNCHANGED <<token, owner, scope, shown, mixed, author>> /\ live' \subseteq live

\* A call may become another sound one; if it has yet to read token or scope, then
\* for an account that is in use already.
LEMMA CallChanges ==
    ASSUME AccountsInv, AccountsStay, NEW j \in Jobs, NEW call \in Calls,
           job' = [job EXCEPT ![j] = call], Whole(call),
           call.login # Nil => owner[call.login] # Nil,
           ~mixed => ForAuthor(call) /\ (Undecided(j)' => InUse(call.user))
    PROVE  CallsAreSound'
<1>1. job \in [Jobs -> Calls] /\ job' \in [Jobs -> Calls]
  BY DEF AccountsInv, CallsAreSound
<1>2. job'[j] = call /\ \A k \in Jobs : k # j => job'[k] = job[k]
  BY <1>1
<1>3. \A k \in Jobs : Whole(job'[k])
  BY <1>2 DEF AccountsInv, CallsAreSound
<1>4. TokensAreIssued'
  BY <1>2 DEF AccountsInv, CallsAreSound, TokensAreIssued, AccountsStay
<1>5. ASSUME ~mixed
      PROVE  OneInUse' /\ \A k \in Jobs : ForAuthor(job[k])'
  <2>1. \A k \in Jobs : ForAuthor(job[k])'
    BY <1>2, <1>5 DEF AccountsInv, CallsAreSound, AccountsStay, ForAuthor
  <2>2. \A u \in Users : InUse(u)' => InUse(u)
    <3> SUFFICES ASSUME NEW u \in Users, InUse(u)' PROVE InUse(u)
      OBVIOUS
    <3>1. CASE \E k \in Jobs : Undecided(k)' /\ job'[k].user = u
      <4>1. PICK k \in Jobs : Undecided(k)' /\ job'[k].user = u
        BY <3>1
      <4>2. CASE k = j
        BY <1>2, <1>5, <4>1, <4>2
      <4>3. CASE k # j
        BY <1>2, <4>1, <4>3 DEF Undecided, InUse
      <4> QED BY <4>2, <4>3
    <3> QED BY <3>1 DEF InUse, AccountsStay
  <2> QED BY <1>5, <2>1, <2>2 DEF AccountsInv, CallsAreSound, OneInUse
<1> QED BY <1>1, <1>3, <1>4, <1>5 DEF CallsAreSound, AccountsStay

\* A call that is over is in nobody's way.
LEMMA CallEnds ==
    ASSUME AccountsInv, AccountsStay, NEW j \in Jobs, End(j)
    PROVE  CallsAreSound'
<1>1. NoJob \in Calls /\ Whole(NoJob) /\ NoJob.login = Nil
  BY DEF NoJob, Calls, Whole
<1>2. ForAuthor(NoJob)
  BY DEF NoJob, ForAuthor
<1>3. ~Undecided(j)'
  BY DEF AccountsInv, CallsAreSound, End, NoJob, Undecided
<1> QED BY <1>1, <1>2, <1>3, CallChanges DEF End

\* A call goes on with the same account and token.
LEMMA CallMoves ==
    ASSUME AccountsInv, AccountsStay, NEW j \in Jobs,
           NEW place \in {"sent", "answered", "failed", "cleared", "putting"},
           Move(j, place), Whole([job[j] EXCEPT !.at = place]),
           job[j].kind = "post" /\ job[j].tab # Nil /\ place # "putting" => Undecided(j)
    PROVE  CallsAreSound'
<1> DEFINE call == [job[j] EXCEPT !.at = place]
<1>1. job[j] \in Calls
  BY DEF AccountsInv, CallsAreSound
<1>2. /\ call \in Calls /\ call.at = place /\ call.kind = job[j].kind /\ call.tab = job[j].tab
      /\ call.user = job[j].user /\ call.login = job[j].login /\ call.ops = job[j].ops
  BY <1>1 DEF Calls
<1>3. job' = [job EXCEPT ![j] = call] /\ job'[j] = call
  BY DEF AccountsInv, CallsAreSound, Move
<1> HIDE DEF call
<1>4. ~mixed => ForAuthor(call)
  BY <1>2 DEF AccountsInv, CallsAreSound, ForAuthor
<1>5. Undecided(j)' => InUse(call.user)
  BY <1>2, <1>3 DEF Undecided, InUse
<1>6. call.login # Nil => owner[call.login] # Nil
  BY <1>2 DEF AccountsInv, CallsAreSound, TokensAreIssued
<1> QED BY <1>2, <1>3, <1>4, <1>5, <1>6, CallChanges DEF call

\* The answer ends a call that nobody awaits any more.
LEMMA CallAnswered ==
    ASSUME AccountsInv, AccountsStay, NEW j \in Jobs, Answer(j),
           job[j].kind \in {"me", "logout", "post", "sync", "load"}, job[j].at = "sent",
           job[j].kind # "logout" /\ job[j].tab # Nil => job[j].login \in Logins
    PROVE  CallsAreSound'
<1>1. CASE job[j].tab = Nil
  BY <1>1, CallEnds DEF Answer
<1>2. CASE job[j].tab # Nil
  <2>1. Move(j, "answered") /\ job[j] \in Calls /\ Whole(job[j])
    BY <1>2 DEF Answer, AccountsInv, CallsAreSound
  <2>2. Whole([job[j] EXCEPT !.at = "answered"])
    BY <1>2, <2>1 DEF Whole, Calls
  <2>3. job[j].kind = "post" => Undecided(j)
    BY <1>2 DEF Undecided
  <2> QED BY <2>1, <2>2, <2>3, CallMoves
<1> QED BY <1>1, <1>2

\* Nothing changes but a call.
LEMMA OnlyCallsChange ==
    ASSUME AccountsInv, CallsAreSound', UNCHANGED <<sessionVars, storeVars, recordVars>>
    PROVE  AccountsInv'
<1>1. TypeOK'
  BY DEF AccountsInv, TypeOK, CallsAreSound, Calls
<1> QED BY <1>1 DEF AccountsInv, ScopesAndRowsAreWhole, RecordedForAuthor, StoreIsApart

\* me, failures, ends and departures change a call and nothing else.
LEMMA PlainStepOK ==
    ASSUME AccountsInv, NEW j \in Jobs,
           ArriveMe(j) \/ GiveUpMe(j) \/ EndPost(j) \/ QueuePost(j) \/ Send(j) \/ EndSync(j)
             \/ ArriveLoad(j) \/ Lose(j)
    PROVE  AccountsInv'
<1>1. UNCHANGED <<sessionVars, storeVars, recordVars>> /\ AccountsStay
  BY DEF ArriveMe, GiveUpMe, EndPost, QueuePost, Send, EndSync, ArriveLoad, Lose, AccountsStay
<1>2. job[j] \in Calls /\ Whole(job[j]) /\ token \in Logins \cup {Nil} /\ live \subseteq Logins
      /\ (token # Nil => owner[token] # Nil) /\ job \in [Jobs -> Calls]
  BY DEF AccountsInv, CallsAreSound, TokensAreIssued, TypeOK
<1>3. CASE EndPost(j) \/ EndSync(j)
  BY <1>1, <1>3, CallEnds, OnlyCallsChange DEF EndPost, EndSync
<1>4. ASSUME job[j].tab # Nil, Move(j, "failed"), job[j].kind \in {"me", "post", "load"},
             job[j].kind = "post" => job[j].at \in {"sent", "answered"}
      PROVE  CallsAreSound'
  <2>1. Whole([job[j] EXCEPT !.at = "failed"])
    BY <1>2, <1>4 DEF Whole, Calls
  <2>2. job[j].kind = "post" => Undecided(j)
    BY <1>4 DEF Undecided
  <2> QED BY <1>1, <1>4, <2>1, <2>2, CallMoves
<1>5. CASE ArriveMe(j) \/ ArriveLoad(j)
  <2>1. job[j].kind \in {"me", "load"} /\ job[j].at = "sent"
    BY <1>5 DEF ArriveMe, ArriveLoad, Is
  <2>2. CASE Authentic(j) \/ job[j].tab = Nil
    <3>1. Answer(j) /\ (job[j].tab # Nil => job[j].login \in Logins)
      BY <1>2, <1>5, <2>2 DEF ArriveMe, ArriveLoad, Authentic
    <3> QED BY <1>1, <2>1, <3>1, CallAnswered, OnlyCallsChange
  <2>3. CASE ~(Authentic(j) \/ job[j].tab = Nil)
    BY <1>1, <1>4, <1>5, <2>1, <2>3, OnlyCallsChange DEF ArriveMe, ArriveLoad
  <2> QED BY <2>2, <2>3
<1>6. CASE Lose(j)
  <2>1. job[j].tab # Nil /\ job[j].at \in {"ready", "sent", "answered"}
    BY <1>6 DEF Lose
  <2>2. CASE job[j].kind \in {"logout", "sync"}
    BY <1>1, <1>6, <2>2, CallEnds, OnlyCallsChange DEF Lose
  <2>3. CASE job[j].kind \notin {"logout", "sync"}
    <3>1. job[j].kind \in {"me", "post", "load"}
      BY <1>2, <2>1, <2>3 DEF Whole, Calls, NoJob
    <3>2. job[j].kind = "post" => job[j].at \in {"sent", "answered"}
      BY <1>2, <2>1 DEF Whole
    <3> QED BY <1>1, <1>4, <1>6, <2>1, <2>3, <3>1, <3>2, OnlyCallsChange DEF Lose
  <2> QED BY <2>2, <2>3
<1>7. CASE GiveUpMe(j)
  <2> DEFINE call == [job[j] EXCEPT !.kind = "logout", !.at = "sent", !.login = token]
  <2>1. call \in Calls /\ call.kind = "logout" /\ call.at = "sent" /\ call.login = token
    BY <1>2 DEF Calls
  <2>2. job' = [job EXCEPT ![j] = call] /\ job'[j] = call
    BY <1>2, <1>7 DEF GiveUpMe
  <2> HIDE DEF call
  <2>3. Whole(call) /\ ForAuthor(call)
    BY <2>1 DEF Whole, ForAuthor
  <2>4. ~Undecided(j)'
    BY <2>1, <2>2 DEF Undecided
  <2> QED BY <1>1, <1>2, <2>1, <2>2, <2>3, <2>4, CallChanges, OnlyCallsChange
<1>8. CASE Send(j)
  <2> DEFINE call == [job[j] EXCEPT !.at = "sent", !.login = token]
  <2>1. /\ call \in Calls /\ call.kind = job[j].kind /\ call.at = "sent"
        /\ call.login = token /\ call.user = job[j].user /\ call.ops = job[j].ops
        /\ job[j].at = "ready"
    BY <1>2, <1>8 DEF Calls, Send
  <2>2. job' = [job EXCEPT ![j] = call] /\ job'[j] = call
    BY <1>2, <1>8 DEF Send
  <2> HIDE DEF call
  <2>3. call.kind \in {"sync", "load"} /\ call.user \in Users /\ Whole(call) /\ Undecided(j)
    BY <1>2, <2>1 DEF Whole, Undecided, NoJob, Calls
  <2>4. ~Undecided(j)'
    BY <2>1, <2>2, <2>3 DEF Undecided
  <2>5. ~mixed => ForAuthor(call)
    <3>1. InUse(call.user) /\ (token # Nil => InUse(owner[token]))
      BY <2>1, <2>3 DEF InUse
    <3>2. token # Nil => owner[token] \in Users
      BY <1>2 DEF AccountsInv, TypeOK
    <3> QED BY <2>1, <2>3, <3>1, <3>2 DEF AccountsInv, CallsAreSound, OneInUse, ForAuthor
  <2> QED BY <1>1, <1>2, <2>1, <2>2, <2>3, <2>4, <2>5, CallChanges, OnlyCallsChange
<1>9. CASE QueuePost(j)
  <2> DEFINE u == scope[job[j].tab]
             call == [job[j] EXCEPT !.user = u, !.at = "putting"]
  <2>1. /\ job[j].kind = "post" /\ job[j].at = "failed" /\ job[j].tab \in Tabs
        /\ job[j].user \in Users
    BY <1>2, <1>9 DEF QueuePost, Is, Whole
  <2>2. CASE u = Nil
    BY <1>1, <1>9, <2>2, CallEnds, OnlyCallsChange DEF QueuePost
  <2>3. CASE u # Nil
    <3>1. u \in Users
      BY <2>1, <2>3 DEF AccountsInv, TypeOK
    <3>2. /\ call \in Calls /\ call.kind = "post" /\ call.at = "putting"
          /\ call.user = u /\ call.ops = job[j].ops /\ call.login = job[j].login
          /\ call.tab = job[j].tab
      BY <1>2, <2>1, <3>1 DEF Calls
    <3>3. job' = [job EXCEPT ![j] = call] /\ job'[j] = call
      BY <1>2, <1>9, <2>3 DEF QueuePost
    <3>4. shown[job[j].tab] = u
      BY DEF AccountsInv, ScopesAndRowsAreWhole
    <3> HIDE DEF call, u
    <3>5. Whole(call) /\ ~Undecided(j)'
      BY <2>1, <3>1, <3>2, <3>3 DEF Whole, Undecided
    <3>6. ~mixed => u = job[j].user
      <4>1. InUse(u) /\ InUse(job[j].user)
        BY <2>1, <3>4 DEF InUse, Undecided
      <4> QED BY <2>1, <3>1, <4>1 DEF AccountsInv, CallsAreSound, OneInUse
    <3>7. ~mixed => ForAuthor(call)
      BY <3>2, <3>6, <2>1 DEF AccountsInv, CallsAreSound, ForAuthor
    <3>8. call.login # Nil => owner[call.login] # Nil
      BY <3>2 DEF AccountsInv, CallsAreSound, TokensAreIssued
    <3> QED BY <1>1, <3>2, <3>3, <3>5, <3>7, <3>8, CallChanges, OnlyCallsChange
  <2> QED BY <2>2, <2>3
<1> QED BY <1>3, <1>5, <1>6, <1>7, <1>8, <1>9

-----------------------------------------------------------------------------
(* Calls begin                                                             *)

\* A call begins where there was none, for an account in use.
LEMMA CallBegins ==
    ASSUME AccountsInv, NEW j \in Jobs,
           NEW kind \in {"logout", "sync", "load"}, NEW place \in {"sent", "ready"},
           NEW t \in Tabs, NEW u \in Users \cup {Nil},
           NEW l \in Logins \cup {Nil}, NEW ops \in SUBSET Ops,
           Start(j, kind, place, t, u, l, ops),
           UNCHANGED <<sessionVars, storeVars, recordVars>>,
           kind = "logout" <=> place = "sent", kind # "logout" => l = Nil /\ shown[t] = u,
           l # Nil => owner[l] # Nil, kind # "logout" => u \in Users,
           ~mixed /\ kind = "sync" => \A op \in ops : author[op] = u
    PROVE  AccountsInv'
<1> DEFINE call == [kind |-> kind, at |-> place, tab |-> t, user |-> u, login |-> l, ops |-> ops]
<1>1. /\ call \in Calls /\ call.kind = kind /\ call.at = place /\ call.tab = t
      /\ call.user = u /\ call.login = l /\ call.ops = ops
  BY DEF Calls
<1>2. job' = [job EXCEPT ![j] = call] /\ job'[j] = call
  BY DEF Start, AccountsInv, CallsAreSound
<1> HIDE DEF call
<1>3. Whole(call)
  BY <1>1 DEF Whole
<1>4. ~mixed => ForAuthor(call)
  BY <1>1 DEF ForAuthor
<1>5. Undecided(j)' => InUse(call.user)
  BY <1>1, <1>2 DEF Undecided, InUse
<1>6. CallsAreSound'
  BY <1>1, <1>2, <1>3, <1>4, <1>5, CallChanges DEF AccountsStay
<1> QED BY <1>6, OnlyCallsChange

LEMMA BeginningOK ==
    ASSUME AccountsInv, NEW t \in Tabs, NEW j \in Jobs,
           StartLogout(t, j) \/ StartSync(t, j) \/ StartLoad(t, j)
    PROVE  AccountsInv'
<1>1. /\ scope = shown /\ shown[t] \in Users \cup {Nil} /\ token \in Logins \cup {Nil}
      /\ token # Nil => owner[token] # Nil
  BY DEF AccountsInv, TypeOK, ScopesAndRowsAreWhole, CallsAreSound, TokensAreIssued
<1>2. CASE StartLogout(t, j)
  BY <1>1, <1>2, CallBegins DEF StartLogout
<1>3. CASE StartLoad(t, j)
  BY <1>1, <1>3, CallBegins DEF StartLoad
<1>4. CASE StartSync(t, j)
  <2>1. QueuedOf(scope[t]) \in SUBSET Ops /\ scope[t] \in Users
    BY <1>1, <1>4 DEF QueuedOf, StartSync
  <2>2. ~mixed => \A op \in QueuedOf(scope[t]) : author[op] = scope[t]
    BY <2>1 DEF AccountsInv, StoreIsApart, QueuedOf
  <2> QED BY <1>1, <1>4, <2>1, <2>2, CallBegins DEF StartSync
<1> QED BY <1>2, <1>3, <1>4

\* An entry is made: no call or row was of it, for nobody had made it.
LEMMA StartPostOK ==
    ASSUME AccountsInv, NEW t \in Tabs, NEW j \in Jobs, NEW op \in Ops, StartPost(t, j, op)
    PROVE  AccountsInv'
<1> DEFINE u == shown[t]
           call == [kind |-> "post", at |-> "sent", tab |-> t, user |-> u,
                    login |-> token, ops |-> {op}]
<1>1. /\ u \in Users /\ token \in Logins \cup {Nil} /\ (token # Nil => owner[token] # Nil)
      /\ author \in [Ops -> Users \cup {Nil}]
  BY DEF AccountsInv, TypeOK, CallsAreSound, TokensAreIssued, StartPost
<1>2. /\ call \in Calls /\ call.kind = "post" /\ call.at = "sent" /\ call.tab = t
      /\ call.user = u /\ call.login = token /\ call.ops = {op}
  BY <1>1 DEF Calls
<1>3. job' = [job EXCEPT ![j] = call] /\ job \in [Jobs -> Calls]
  BY DEF StartPost, Start, AccountsInv, CallsAreSound
<1>4. job' \in [Jobs -> Calls] /\ job'[j] = call /\ \A k \in Jobs : k # j => job'[k] = job[k]
  BY <1>2, <1>3
<1>5. /\ UNCHANGED <<sessionVars, storeVars, saved, ledger>> /\ author[op] = Nil
      /\ author' = [author EXCEPT ![op] = u]
  BY DEF StartPost
<1>6. author'[op] = u /\ \A o \in Ops : o # op => author'[o] = author[o]
  BY <1>1, <1>5
<1> HIDE DEF call, u
<1>7. TypeOK'
  BY <1>1, <1>4, <1>5 DEF AccountsInv, TypeOK, Calls
<1>8. \A k \in Jobs : Whole(job'[k])
  BY <1>1, <1>2, <1>4 DEF AccountsInv, CallsAreSound, Whole
<1>9. TokensAreIssued'
  BY <1>1, <1>2, <1>4, <1>5 DEF AccountsInv, CallsAreSound, TokensAreIssued
<1>10. ASSUME ~mixed
       PROVE  OneInUse'
  <2>1. InUse(u)
    BY <1>1 DEF InUse, u
  <2>2. \A v \in Users : InUse(v)' => InUse(v)
    <3> SUFFICES ASSUME NEW v \in Users, InUse(v)' PROVE InUse(v)
      OBVIOUS
    <3>1. CASE \E k \in Jobs : Undecided(k)' /\ job'[k].user = v
      BY <1>2, <1>4, <2>1, <3>1 DEF Undecided, InUse
    <3> QED BY <1>5, <3>1 DEF InUse
  <2> QED BY <1>10, <2>2 DEF AccountsInv, CallsAreSound, OneInUse
<1>11. ASSUME ~mixed
       PROVE  \A k \in Jobs : ForAuthor(job[k])'
  <2>1. token # Nil => owner[token] = u
    <3>1. token # Nil => InUse(owner[token]) /\ owner[token] \in Users
      BY <1>1 DEF AccountsInv, TypeOK, InUse
    <3>2. InUse(u)
      BY DEF InUse, u
    <3> QED BY <1>1, <1>11, <3>1, <3>2 DEF AccountsInv, CallsAreSound, OneInUse
  <2>2. ForAuthor(job[j])'
    BY <1>2, <1>4, <1>5, <1>6, <2>1 DEF ForAuthor
  <2>3. ASSUME NEW k \in Jobs, k # j
        PROVE  ForAuthor(job[k])'
    <3>1. job'[k] = job[k] /\ job[k] \in Calls /\ Whole(job[k]) /\ ForAuthor(job[k])
      BY <1>4, <1>11, <2>3 DEF AccountsInv, CallsAreSound
    <3>2. job[k].kind \in {"post", "sync"} => \A o \in job[k].ops : o # op
      BY <1>5, <3>1 DEF Whole, ForAuthor
    <3>3. job[k].ops \subseteq Ops
      BY <3>1 DEF Calls
    <3> QED BY <1>5, <1>6, <3>1, <3>2, <3>3 DEF ForAuthor
  <2> QED BY <2>2, <2>3
<1>12. RecordedForAuthor'
  BY <1>1, <1>5, <1>6 DEF AccountsInv, RecordedForAuthor
<1>13. StoreIsApart'
  BY <1>1, <1>5, <1>6 DEF AccountsInv, StoreIsApart
<1>14. CallsAreSound'
  BY <1>4, <1>5, <1>8, <1>9, <1>10, <1>11 DEF CallsAreSound
<1> QED BY <1>5, <1>7, <1>12, <1>13, <1>14 DEF AccountsInv, ScopesAndRowsAreWhole

-----------------------------------------------------------------------------
(* Calls that write: to the store, to the records, to the tokens           *)

\* The server deletes a token, or does not know it.
LEMMA ArriveLogoutOK ==
    ASSUME AccountsInv, NEW j \in Jobs, ArriveLogout(j)
    PROVE  AccountsInv'
<1>1. AccountsStay /\ live' \subseteq live /\ UNCHANGED <<token, owner, scope, shown, mixed>>
      /\ UNCHANGED <<row, snapshot, author, saved, ledger>>
  BY DEF ArriveLogout, AccountsStay
<1>2. CallsAreSound'
  BY <1>1, CallAnswered, CallEnds DEF ArriveLogout, Is
<1>3. TypeOK'
  BY <1>1, <1>2 DEF AccountsInv, TypeOK, CallsAreSound, Calls
<1> QED BY <1>1, <1>2, <1>3 DEF AccountsInv, ScopesAndRowsAreWhole, RecordedForAuthor,
                                StoreIsApart

\* The tab that logs out has an account, or no row has its scope.
LEMMA ClearScopeOK ==
    ASSUME AccountsInv, NEW j \in Jobs, ClearScope(j)
    PROVE  AccountsInv'
<1> DEFINE u == scope[job[j].tab]
<1>1. UNCHANGED <<sessionVars, recordVars>> /\ AccountsStay /\ Move(j, "cleared")
      /\ job[j].kind = "logout" /\ job[j].at = "answered"
      /\ row' = [op \in Ops |-> IF row[op].user = u THEN NoRow ELSE row[op]]
      /\ snapshot' = [v \in Users |-> IF v = u THEN Nil ELSE snapshot[v]]
  BY DEF ClearScope, AccountsStay, Is
<1>2. job[j] \in Calls /\ Whole(job[j])
  BY DEF AccountsInv, CallsAreSound
<1>3. Whole([job[j] EXCEPT !.at = "cleared"])
  BY <1>1, <1>2 DEF Whole, Calls
<1>4. CallsAreSound'
  BY <1>1, <1>3, CallMoves
<1> HIDE DEF u
<1>5. TypeOK'
  BY <1>1, <1>4 DEF AccountsInv, TypeOK, CallsAreSound, Calls, NoRow
<1>6. ScopesAndRowsAreWhole'
  BY <1>1 DEF AccountsInv, ScopesAndRowsAreWhole, NoRow
<1>7. RecordedForAuthor' /\ StoreIsApart'
  BY <1>1 DEF AccountsInv, RecordedForAuthor, StoreIsApart, NoRow
<1> QED BY <1>4, <1>5, <1>6, <1>7 DEF AccountsInv

\* An entry that arrives is recorded for the user of the token, who is its author.
LEMMA ArrivePostOK ==
    ASSUME AccountsInv, NEW j \in Jobs, ArrivePost(j)
    PROVE  AccountsInv'
<1>1. /\ UNCHANGED <<sessionVars, storeVars, author, ledger>> /\ AccountsStay
      /\ job[j].kind = "post" /\ job[j].at = "sent" /\ job[j] \in Calls /\ Whole(job[j])
  BY DEF ArrivePost, AccountsStay, Is, AccountsInv, CallsAreSound
<1>2. CASE ~Authentic(j)
  <2>1. UNCHANGED <<sessionVars, storeVars, recordVars>> /\ End(j)
    BY <1>2 DEF ArrivePost
  <2> QED BY <1>1, <2>1, CallEnds, OnlyCallsChange
<1>3. CASE Authentic(j)
  <2>1. /\ saved' = [op \in Ops |-> IF op \in job[j].ops THEN Signed(j) ELSE saved[op]]
        /\ Answer(j)
    BY <1>3 DEF ArrivePost
  <2>2. job[j].login \in Logins
    BY <1>3 DEF Authentic, AccountsInv, TypeOK
  <2>3. CallsAreSound'
    BY <1>1, <2>1, <2>2, CallAnswered
  <2>4. Signed(j) \in Users \cup {Nil}
    BY <2>2 DEF Signed, AccountsInv, TypeOK
  <2>5. ASSUME ~mixed, NEW op \in job[j].ops
        PROVE  author[op] = Signed(j)
    BY <1>1, <2>2, <2>5 DEF AccountsInv, CallsAreSound, ForAuthor, Signed
  <2>6. TypeOK'
    BY <1>1, <2>1, <2>3, <2>4 DEF AccountsInv, TypeOK, CallsAreSound, Calls
  <2>7. RecordedForAuthor'
    BY <1>1, <2>1, <2>5 DEF AccountsInv, RecordedForAuthor
  <2> QED BY <1>1, <2>3, <2>6, <2>7 DEF AccountsInv, ScopesAndRowsAreWhole, StoreIsApart
<1> QED BY <1>2, <1>3

\* The row is put under the account that the call has.
LEMMA PutRowOK ==
    ASSUME AccountsInv, NEW j \in Jobs, PutRow(j)
    PROVE  AccountsInv'
<1>1. /\ UNCHANGED <<sessionVars, snapshot, recordVars>> /\ AccountsStay /\ End(j)
      /\ row' = [op \in Ops |-> IF op \in job[j].ops
                                THEN [user |-> job[j].user, status |-> "queued"] ELSE row[op]]
  BY DEF PutRow, AccountsStay
<1>2. job[j].user \in Users
  BY DEF PutRow, Is, AccountsInv, CallsAreSound, Whole
<1>3. ~mixed => \A op \in job[j].ops : author[op] = job[j].user
  BY DEF PutRow, Is, AccountsInv, CallsAreSound, ForAuthor
<1>4. CallsAreSound'
  BY <1>1, CallEnds
<1>5. TypeOK'
  BY <1>1, <1>2, <1>4 DEF AccountsInv, TypeOK, CallsAreSound, Calls
<1>6. ScopesAndRowsAreWhole'
  BY <1>1, <1>2 DEF AccountsInv, ScopesAndRowsAreWhole
<1>7. RecordedForAuthor' /\ StoreIsApart'
  BY <1>1, <1>3 DEF AccountsInv, RecordedForAuthor, StoreIsApart
<1> QED BY <1>4, <1>5, <1>6, <1>7 DEF AccountsInv

\* Operations are decided for the user of the token, who is their author.
LEMMA ArriveSyncOK ==
    ASSUME AccountsInv, NEW j \in Jobs, ArriveSync(j)
    PROVE  AccountsInv'
<1>1. /\ UNCHANGED <<sessionVars, storeVars, author, saved>> /\ AccountsStay
      /\ job[j].kind = "sync" /\ job[j].at = "sent" /\ job[j] \in Calls /\ Whole(job[j])
  BY DEF ArriveSync, AccountsStay, Is, AccountsInv, CallsAreSound
<1>2. CASE ~Authentic(j)
  <2>1. UNCHANGED <<sessionVars, storeVars, recordVars>> /\ End(j)
    BY <1>2 DEF ArriveSync
  <2> QED BY <1>1, <2>1, CallEnds, OnlyCallsChange
<1>3. CASE Authentic(j)
  <2>1. PICK new \in Decided(ledger[Signed(j)], job[j].ops) :
             ledger' = [ledger EXCEPT ![Signed(j)] = new]
    BY <1>3 DEF ArriveSync
  <2>2. job[j].login \in Logins /\ Answer(j)
    BY <1>3 DEF ArriveSync, Authentic, AccountsInv, TypeOK
  <2>3. CallsAreSound'
    BY <1>1, <2>2, CallAnswered
  <2>4. /\ new \in [Ops -> {"none", "applied", "refused"}]
        /\ \A op \in Ops : op \in job[j].ops \/ new[op] = ledger[Signed(j)][op]
    BY <2>1 DEF Decided
  <2>5. ASSUME ~mixed, NEW op \in job[j].ops
        PROVE  author[op] = Signed(j)
    BY <1>1, <2>2, <2>5 DEF AccountsInv, CallsAreSound, ForAuthor, Signed
  <2>6. TypeOK'
    BY <1>1, <2>1, <2>3, <2>4 DEF AccountsInv, TypeOK, CallsAreSound, Calls
  <2>7. ASSUME ~mixed, NEW op \in Ops, NEW u \in Users, ledger'[u][op] # "none"
        PROVE  u = author[op]
    <3>1. ledger[u][op] # "none" => u = author[op]
      BY <2>7 DEF AccountsInv, RecordedForAuthor
    <3>2. CASE u = Signed(j)
      BY <2>1, <2>4, <2>5, <2>7, <3>1, <3>2 DEF AccountsInv, TypeOK
    <3>3. CASE u # Signed(j)
      BY <2>1, <2>7, <3>1, <3>3 DEF AccountsInv, TypeOK
    <3> QED BY <3>2, <3>3
  <2>8. RecordedForAuthor'
    BY <1>1, <2>7 DEF AccountsInv, RecordedForAuthor
  <2> QED BY <1>1, <2>3, <2>6, <2>8 DEF AccountsInv, ScopesAndRowsAreWhole, StoreIsApart
<1> QED BY <1>2, <1>3

\* A row that a reply brings back has the account it had when the call began.
LEMMA HandleReplyOK ==
    ASSUME AccountsInv, NEW j \in Jobs, NEW op \in Ops, HandleReply(j, op)
    PROVE  AccountsInv'
<1> DEFINE call == [job[j] EXCEPT !.ops = @ \ {op}]
<1>1. /\ UNCHANGED <<sessionVars, snapshot, recordVars>> /\ AccountsStay
      /\ job[j].kind = "sync" /\ job[j].at = "answered" /\ job[j] \in Calls /\ Whole(job[j])
      /\ op \in job[j].ops /\ row' = [row EXCEPT ![op] = RowAfter(j, op)]
  BY DEF HandleReply, AccountsStay, Is, AccountsInv, CallsAreSound
<1>2. /\ call \in Calls /\ call.kind = "sync" /\ call.at = "answered" /\ call.tab = job[j].tab
      /\ call.user = job[j].user /\ call.login = job[j].login
      /\ call.ops = job[j].ops \ {op}
  BY <1>1 DEF Calls
<1>3. job' = [job EXCEPT ![j] = call] /\ job'[j] = call
  BY DEF HandleReply, AccountsInv, CallsAreSound
<1> HIDE DEF call
<1>4. Whole(call) /\ ~Undecided(j)' /\ job[j].user \in Users
  BY <1>1, <1>2, <1>3 DEF Whole, Undecided
<1>5. ~mixed => ForAuthor(call) /\ author[op] = job[j].user
  BY <1>1, <1>2 DEF AccountsInv, CallsAreSound, ForAuthor
<1>6. call.login # Nil => owner[call.login] # Nil
  BY <1>2 DEF AccountsInv, CallsAreSound, TokensAreIssued
<1>7. CallsAreSound'
  BY <1>1, <1>2, <1>3, <1>4, <1>5, <1>6, CallChanges
<1>8. RowAfter(j, op) \in {NoRow, [user |-> job[j].user, status |-> "refused"]}
  BY DEF RowAfter
<1>9. TypeOK'
  BY <1>1, <1>4, <1>7, <1>8 DEF AccountsInv, TypeOK, CallsAreSound, Calls, NoRow
<1>10. ScopesAndRowsAreWhole'
  BY <1>1, <1>4, <1>8 DEF AccountsInv, ScopesAndRowsAreWhole, TypeOK, NoRow
<1>11. RecordedForAuthor' /\ StoreIsApart'
  BY <1>1, <1>5, <1>8 DEF AccountsInv, RecordedForAuthor, StoreIsApart, TypeOK, NoRow
<1> QED BY <1>7, <1>9, <1>10, <1>11 DEF AccountsInv

\* What a load leaves in the snapshot of its account is that account's.
LEMMA LoadEndsOK ==
    ASSUME AccountsInv, NEW j \in Jobs, CacheSnapshot(j) \/ FallBack(j)
    PROVE  AccountsInv'
<1>1. /\ UNCHANGED <<sessionVars, row, recordVars>> /\ AccountsStay /\ End(j)
      /\ job[j].kind = "load" /\ job[j].user \in Users
      /\ (job[j].at = "answered" => job[j].login \in Logins)
  BY DEF CacheSnapshot, FallBack, AccountsStay, Is, AccountsInv, CallsAreSound, Whole
<1>2. PICK kept \in Users \cup {Nil} :
          /\ snapshot' = [snapshot EXCEPT ![job[j].user] = kept]
          /\ ~mixed => kept \in {job[j].user, Nil}
  <2>1. CASE CacheSnapshot(j)
    <3>1. snapshot' = [snapshot EXCEPT ![job[j].user] = Signed(j)] /\ job[j].login \in Logins
      BY <1>1, <2>1 DEF CacheSnapshot, Is
    <3>2. Signed(j) \in Users \cup {Nil}
      BY <3>1 DEF Signed, AccountsInv, TypeOK
    <3>3. ~mixed => Signed(j) = job[j].user
      BY <1>1, <3>1 DEF AccountsInv, CallsAreSound, ForAuthor, Signed
    <3> QED BY <3>1, <3>2, <3>3
  <2>2. CASE FallBack(j)
    BY <1>1, <2>2 DEF FallBack, AccountsInv, TypeOK, StoreIsApart
  <2> QED BY <2>1, <2>2
<1>3. CallsAreSound'
  BY <1>1, CallEnds
<1>4. TypeOK'
  BY <1>1, <1>2, <1>3 DEF AccountsInv, TypeOK, CallsAreSound, Calls
<1>5. StoreIsApart'
  BY <1>1, <1>2 DEF AccountsInv, StoreIsApart, TypeOK
<1> QED BY <1>1, <1>3, <1>4, <1>5 DEF AccountsInv, ScopesAndRowsAreWhole, RecordedForAuthor

-----------------------------------------------------------------------------
(* Steps that change the account of a tab                                  *)

\* Who signs in while the browser works for nobody else is the one in use.
LEMMA LoginOK ==
    ASSUME AccountsInv, NEW t \in Tabs, NEW l \in Logins, NEW u \in Users, Login(t, l, u)
    PROVE  AccountsInv'
<1>1. /\ UNCHANGED <<job, storeVars, recordVars>>
      /\ owner' = [owner EXCEPT ![l] = u] /\ live' = live \cup {l} /\ token' = l
      /\ scope' = [scope EXCEPT ![t] = u] /\ shown' = [shown EXCEPT ![t] = u]
      /\ mixed' = (mixed \/ WorksForOthers(u)) /\ owner[l] = Nil /\ TypeOK
  BY DEF Login, AccountsInv
<1>2. owner'[l] = u /\ \A k \in Logins : k # l => owner'[k] = owner[k]
  BY <1>1 DEF TypeOK
<1>3. TypeOK'
  BY <1>1 DEF TypeOK, WorksForOthers
<1>4. \A j \in Jobs : job[j] \in Calls /\ Whole(job[j])
  BY DEF AccountsInv, CallsAreSound
<1>5. \A j \in Jobs : job[j].login # Nil => owner'[job[j].login] = owner[job[j].login]
                                          /\ owner[job[j].login] # Nil
  BY <1>1, <1>2, <1>4 DEF AccountsInv, CallsAreSound, TokensAreIssued, Calls
<1>6. TokensAreIssued'
  BY <1>1, <1>2, <1>5 DEF AccountsInv, CallsAreSound, TokensAreIssued, TypeOK
<1>7. ASSUME ~mixed'
      PROVE  OneInUse' /\ \A j \in Jobs : ForAuthor(job[j])'
  <2>1. ~mixed /\ ~WorksForOthers(u)
    BY <1>1, <1>7
  <2>2. \A v \in Users : InUse(v)' => v = u
    <3> SUFFICES ASSUME NEW v \in Users, InUse(v)' PROVE v = u
      OBVIOUS
    <3>1. CASE \E s \in Tabs : shown'[s] = v
      BY <1>1, <2>1, <3>1 DEF WorksForOthers, TypeOK
    <3>2. CASE \E j \in Jobs : Undecided(j)' /\ job'[j].user = v
      BY <1>1, <2>1, <3>2 DEF WorksForOthers, Undecided
    <3>3. CASE token' # Nil /\ owner'[token'] = v
      BY <1>1, <1>2, <3>3
    <3> QED BY <3>1, <3>2, <3>3 DEF InUse
  <2>3. \A j \in Jobs : ForAuthor(job[j])'
    BY <1>1, <1>5, <2>1 DEF AccountsInv, CallsAreSound, ForAuthor
  <2> QED BY <2>2, <2>3 DEF OneInUse
<1>8. CallsAreSound'
  BY <1>1, <1>6, <1>7 DEF AccountsInv, CallsAreSound
<1>9. ScopesAndRowsAreWhole' /\ RecordedForAuthor' /\ StoreIsApart'
  BY <1>1 DEF AccountsInv, ScopesAndRowsAreWhole, RecordedForAuthor, StoreIsApart
<1> QED BY <1>3, <1>8, <1>9 DEF AccountsInv

\* What a page that is loaded again leaves behind is on its way already.
LEMMA AbandonedIsSound ==
    ASSUME AccountsInv, NEW t \in Tabs, NEW k \in Jobs
    PROVE  LET call == Abandoned(t)[k] IN
             /\ call \in Calls /\ Whole(call)
             /\ call.login # Nil => owner[call.login] # Nil
             /\ ~mixed => ForAuthor(call)
             /\ call = job[k] \/ call.tab = Nil
<1> DEFINE call == Abandoned(t)[k]
<1>1. job[k] \in Calls /\ Whole(job[k]) /\ (~mixed => ForAuthor(job[k]))
      /\ (job[k].login # Nil => owner[job[k].login] # Nil)
  BY DEF AccountsInv, CallsAreSound, TokensAreIssued
<1>2. CASE job[k].tab # t
  BY <1>1, <1>2 DEF Abandoned
<1>3. CASE job[k].tab = t /\ job[k].at = "sent"
  <2>1. call = [job[k] EXCEPT !.tab = Nil]
    BY <1>3 DEF Abandoned
  <2>2. /\ call \in Calls /\ call.tab = Nil /\ call.at = "sent" /\ call.kind = job[k].kind
        /\ call.user = job[k].user /\ call.login = job[k].login /\ call.ops = job[k].ops
    BY <1>1, <1>3, <2>1 DEF Calls
  <2>3. call.kind # "none"
    BY <1>1, <1>3, <2>2 DEF Whole, NoJob
  <2> HIDE DEF call
  <2>4. Whole(call) /\ (~mixed => ForAuthor(call))
    BY <1>1, <1>3, <2>2, <2>3 DEF Whole, ForAuthor
  <2> QED BY <1>1, <2>2, <2>4 DEF call
<1>4. CASE job[k].tab = t /\ job[k].at # "sent"
  <2>1. call = NoJob
    BY <1>4 DEF Abandoned
  <2>2. NoJob \in Calls /\ Whole(NoJob) /\ NoJob.login = Nil /\ NoJob.tab = Nil
    BY DEF NoJob, Calls, Whole
  <2>3. ForAuthor(NoJob)
    BY DEF NoJob, ForAuthor
  <2> QED BY <2>1, <2>2, <2>3
<1> QED BY <1>2, <1>3, <1>4

\* A tab may lose its account together with calls of its own.
LEMMA TabLetsGo ==
    ASSUME AccountsInv, NEW t \in Tabs, job' \in [Jobs -> Calls],
           scope' = [scope EXCEPT ![t] = Nil], shown' = [shown EXCEPT ![t] = Nil],
           token' \in {token, Nil},
           UNCHANGED <<owner, live, mixed, storeVars, recordVars>>,
           \A k \in Jobs : /\ Whole(job'[k])
                           /\ job'[k].login # Nil => owner[job'[k].login] # Nil
                           /\ ~mixed => ForAuthor(job[k])'
                           /\ job'[k] = job[k] \/ ~Undecided(k)'
    PROVE  AccountsInv'
<1>1. TypeOK'
  BY DEF AccountsInv, TypeOK, Calls
<1>2. TokensAreIssued'
  BY DEF AccountsInv, CallsAreSound, TokensAreIssued
<1>3. ASSUME ~mixed
      PROVE  OneInUse'
  <2>1. \A u \in Users : InUse(u)' => InUse(u)
    BY DEF InUse, Undecided, AccountsInv, TypeOK
  <2> QED BY <1>3, <2>1 DEF AccountsInv, CallsAreSound, OneInUse
<1>4. CallsAreSound'
  BY <1>2, <1>3 DEF CallsAreSound
<1> QED BY <1>1, <1>4 DEF AccountsInv, ScopesAndRowsAreWhole, RecordedForAuthor, StoreIsApart

LEMMA OpenPageOK ==
    ASSUME AccountsInv, NEW t \in Tabs, OpenPage(t)
    PROVE  AccountsInv'
<1>1. /\ scope' = [scope EXCEPT ![t] = Nil] /\ shown' = [shown EXCEPT ![t] = Nil]
      /\ UNCHANGED <<token, owner, live, mixed, storeVars, recordVars>>
  BY DEF OpenPage
<1>2. Abandoned(t) \in [Jobs -> Calls]
  <2>1. \A k \in Jobs : Abandoned(t)[k] \in Calls
    BY AbandonedIsSound
  <2> QED BY <2>1 DEF Abandoned
<1>3. ASSUME NEW k \in Jobs, job'[k] = Abandoned(t)[k]
      PROVE  /\ Whole(job'[k]) /\ (job'[k].login # Nil => owner[job'[k].login] # Nil)
             /\ ~mixed => ForAuthor(job[k])'
             /\ job'[k] = job[k] \/ ~Undecided(k)'
  <2>1. Whole(job'[k]) /\ (job'[k].login # Nil => owner[job'[k].login] # Nil)
        /\ (~mixed => ForAuthor(job'[k])) /\ (job'[k] = job[k] \/ job'[k].tab = Nil)
    BY <1>3, AbandonedIsSound
  <2> QED BY <1>1, <2>1 DEF ForAuthor, Undecided
<1>4. CASE job' = Abandoned(t)
  BY <1>1, <1>2, <1>3, <1>4, TabLetsGo
<1>5. CASE token # Nil /\ \E j \in Jobs :
             job' = [Abandoned(t) EXCEPT ![j] = [kind |-> "me", at |-> "sent", tab |-> t,
                                                 user |-> Nil, login |-> token, ops |-> {}]]
  <2> DEFINE call == [kind |-> "me", at |-> "sent", tab |-> t,
                      user |-> Nil, login |-> token, ops |-> {}]
  <2>1. PICK j \in Jobs : job' = [Abandoned(t) EXCEPT ![j] = call]
    BY <1>5
  <2>2. call \in Calls /\ call.kind = "me" /\ call.at = "sent" /\ call.login = token
        /\ owner[token] # Nil
    BY <1>5 DEF AccountsInv, TypeOK, CallsAreSound, TokensAreIssued, Calls
  <2> HIDE DEF call
  <2>3. /\ job' \in [Jobs -> Calls] /\ job'[j] = call
        /\ \A k \in Jobs : k # j => job'[k] = Abandoned(t)[k]
    BY <1>2, <2>1, <2>2
  <2>4. Whole(call)
    BY <2>2 DEF Whole
  <2>5. ForAuthor(job[j])' /\ ~Undecided(j)'
    BY <2>2, <2>3 DEF ForAuthor, Undecided
  <2> QED BY <1>1, <1>3, <2>2, <2>3, <2>4, <2>5, TabLetsGo
<1> QED BY <1>4, <1>5 DEF OpenPage

\* The token goes with the account of the tab, whoever's it is.
LEMMA EndLogoutOK ==
    ASSUME AccountsInv, NEW j \in Jobs, EndLogout(j)
    PROVE  AccountsInv'
<1>1. job[j].tab \in Tabs /\ job \in [Jobs -> Calls]
  BY DEF EndLogout, Is, AccountsInv, CallsAreSound, Whole
<1>2. NoJob \in Calls /\ Whole(NoJob) /\ NoJob.login = Nil
  BY DEF NoJob, Calls, Whole
<1>3. /\ job' \in [Jobs -> Calls] /\ job'[j] = NoJob
      /\ \A k \in Jobs : k # j => job'[k] = job[k]
  BY <1>1, <1>2 DEF EndLogout, End
<1>4. ForAuthor(job[j])' /\ ~Undecided(j)'
  BY <1>3 DEF ForAuthor, Undecided, NoJob
<1>5. UNCHANGED <<owner, live, mixed, storeVars, recordVars>>
  BY DEF EndLogout
<1>6. ASSUME NEW k \in Jobs
      PROVE  /\ Whole(job'[k])
             /\ job'[k].login # Nil => owner[job'[k].login] # Nil
             /\ ~mixed => ForAuthor(job[k])'
             /\ job'[k] = job[k] \/ ~Undecided(k)'
  <2>1. CASE k = j
    BY <1>2, <1>3, <1>4, <2>1
  <2>2. CASE k # j
    BY <1>3, <1>5, <2>2 DEF AccountsInv, CallsAreSound, TokensAreIssued, ForAuthor
  <2> QED BY <2>1, <2>2
<1> QED BY <1>1, <1>3, <1>5, <1>6, TabLetsGo DEF EndLogout

\* The page that asked who it is adopts the account of the token that it sent.
LEMMA AdoptMeOK ==
    ASSUME AccountsInv, NEW j \in Jobs, AdoptMe(j)
    PROVE  AccountsInv'
<1> DEFINE u == Signed(j)
           t == job[j].tab
<1>1. /\ UNCHANGED <<token, owner, live, storeVars, recordVars>> /\ End(j)
      /\ scope' = [scope EXCEPT ![t] = u] /\ shown' = [shown EXCEPT ![t] = u]
      /\ mixed' = (mixed \/ WorksForOthers(u) \/ (token # Nil /\ owner[token] # u))
  BY DEF AdoptMe
<1>2. t \in Tabs /\ job[j].login \in Logins /\ job \in [Jobs -> Calls]
  BY DEF AdoptMe, Is, AccountsInv, CallsAreSound, Whole
<1>3. u \in Users
  BY <1>2 DEF Signed, AccountsInv, TypeOK, CallsAreSound, TokensAreIssued
<1>4. NoJob \in Calls /\ Whole(NoJob) /\ NoJob.login = Nil
  BY DEF NoJob, Calls, Whole
<1>5. /\ job' \in [Jobs -> Calls] /\ job'[j] = NoJob
      /\ \A k \in Jobs : k # j => job'[k] = job[k]
  BY <1>1, <1>2, <1>4 DEF End
<1>6. ForAuthor(job[j])' /\ ~Undecided(j)'
  BY <1>5 DEF ForAuthor, Undecided, NoJob
<1> HIDE DEF u, t
<1>7. TypeOK'
  BY <1>1, <1>2, <1>3, <1>5 DEF AccountsInv, TypeOK, Calls, WorksForOthers
<1>8. \A k \in Jobs : Whole(job'[k])
  BY <1>4, <1>5 DEF AccountsInv, CallsAreSound
<1>9. TokensAreIssued'
  BY <1>1, <1>4, <1>5 DEF AccountsInv, CallsAreSound, TokensAreIssued
<1>10. ASSUME ~mixed'
       PROVE  OneInUse' /\ \A k \in Jobs : ForAuthor(job[k])'
  <2>1. ~mixed /\ ~WorksForOthers(u) /\ (token # Nil => owner[token] = u)
    BY <1>1, <1>10
  <2>2. \A v \in Users : InUse(v)' => v = u
    <3> SUFFICES ASSUME NEW v \in Users, InUse(v)' PROVE v = u
      OBVIOUS
    <3>1. CASE \E s \in Tabs : shown'[s] = v
      BY <1>1, <2>1, <3>1 DEF WorksForOthers, AccountsInv, TypeOK
    <3>2. CASE \E k \in Jobs : Undecided(k)' /\ job'[k].user = v
      BY <1>5, <1>6, <2>1, <3>2 DEF WorksForOthers, Undecided
    <3>3. CASE token' # Nil /\ owner'[token'] = v
      BY <1>1, <2>1, <3>3
    <3> QED BY <3>1, <3>2, <3>3 DEF InUse
  <2>3. \A k \in Jobs : ForAuthor(job[k])'
    BY <1>1, <1>5, <1>6, <2>1 DEF AccountsInv, CallsAreSound, ForAuthor
  <2> QED BY <2>2, <2>3 DEF OneInUse
<1>11. CallsAreSound'
  BY <1>5, <1>8, <1>9, <1>10 DEF CallsAreSound
<1>12. ScopesAndRowsAreWhole' /\ RecordedForAuthor' /\ StoreIsApart'
  BY <1>1 DEF AccountsInv, ScopesAndRowsAreWhole, RecordedForAuthor, StoreIsApart
<1> QED BY <1>7, <1>11, <1>12 DEF AccountsInv

-----------------------------------------------------------------------------
(* The theorems                                                            *)

\* The invariant holds, whatever pages, users and calls do.
THEOREM AccountsInvariant == Spec => []AccountsInv
<1>1. AccountsInv /\ [Next]_vars => AccountsInv'
  <2> SUFFICES ASSUME AccountsInv, [Next]_vars PROVE AccountsInv'
    OBVIOUS
  <2>1. CASE UNCHANGED vars
    BY <2>1 DEF vars, AccountsInv, TypeOK, CallsAreSound, TokensAreIssued, OneInUse, InUse,
                Undecided, ForAuthor, ScopesAndRowsAreWhole, RecordedForAuthor, StoreIsApart
  <2>2. ASSUME NEW t \in Tabs, PageStep(t)
        PROVE  AccountsInv'
    BY <2>2, OpenPageOK, LoginOK, BeginningOK, StartPostOK DEF PageStep
  <2>3. ASSUME NEW j \in Jobs, JobStep(j)
        PROVE  AccountsInv'
    <3>1. CASE ArriveMe(j) \/ GiveUpMe(j) \/ EndPost(j) \/ QueuePost(j) \/ Send(j)
                 \/ EndSync(j) \/ ArriveLoad(j) \/ Lose(j)
      BY <3>1, PlainStepOK
    <3>2. CASE AdoptMe(j) \/ ArriveLogout(j) \/ ClearScope(j) \/ EndLogout(j)
      BY <3>2, AdoptMeOK, ArriveLogoutOK, ClearScopeOK, EndLogoutOK
    <3>3. CASE ArrivePost(j) \/ PutRow(j) \/ CacheSnapshot(j) \/ FallBack(j)
      BY <3>3, ArrivePostOK, PutRowOK, LoadEndsOK
    <3>4. CASE ArriveSync(j) \/ \E op \in Ops : HandleReply(j, op)
      BY <3>4, ArriveSyncOK, HandleReplyOK
    <3> QED BY <2>3, <3>1, <3>2, <3>3, <3>4 DEF JobStep
  <2> QED BY <2>1, <2>2, <2>3 DEF Next
<1> QED BY <1>1, AccountsAtFirst, PTL DEF Spec

\* Variables have their types, for any number of accounts, tabs and calls.
THEOREM AccountsTyped == Spec => []TypeOK
<1>1. AccountsInv => TypeOK
  BY DEF AccountsInv
<1> QED BY <1>1, AccountsInvariant, PTL

\* An entry is recorded for nobody but its author, however the calls of several tabs
\* interleave, while the browser takes no account as it works for another.
THEOREM RecordedForTheAuthor == Spec => []RecordedForAuthor
<1>1. AccountsInv => RecordedForAuthor
  BY DEF AccountsInv
<1> QED BY <1>1, AccountsInvariant, PTL

\* Rows and snapshots stay with the account that they are of, those that a late reply
\* or a late load brings back after a logout included.
THEOREM StoreKeptApart == Spec => []StoreIsApart
<1>1. AccountsInv => StoreIsApart
  BY DEF AccountsInv
<1> QED BY <1>1, AccountsInvariant, PTL

-----------------------------------------------------------------------------
(* Whose logout it is                                                      *)

\* A page that asks who it is has no account, and nothing else of it asks or logs out.
\* A logout that was carried out has its token deleted for good; and as long as the
\* browser works for one account, the token was of the account that its tab shows.
AskingHasNoScope ==
    \A j \in Jobs : job[j].kind = "me" /\ job[j].tab # Nil => scope[job[j].tab] = Nil

AskingIsAlone ==
    \A j, k \in Jobs :
        j # k /\ job[j].kind = "me" /\ job[j].tab # Nil /\ job[k].tab = job[j].tab
           => job[k].kind \notin {"me", "logout"}

CarriedOutIsDeleted ==
    \A j \in Jobs : job[j].kind = "logout" /\ job[j].at \in {"answered", "cleared"}
           => job[j].login \in Logins \ live

LogoutIsOfTab ==
    \A j \in Jobs :
        ~mixed /\ job[j].kind = "logout" /\ job[j].tab # Nil /\ job[j].login # Nil
           /\ scope[job[j].tab] # Nil
           => owner[job[j].login] = scope[job[j].tab]

LogoutsAreSound ==
    AskingHasNoScope /\ AskingIsAlone /\ CarriedOutIsDeleted /\ LogoutIsOfTab

\* Calls that are neither, and the end of any, change nothing about that.
LEMMA OtherCallsSound ==
    ASSUME LogoutsAreSound, UNCHANGED <<scope, owner, mixed>>, live' \subseteq live,
           \A k \in Jobs :
              \/ job'[k].kind \notin {"me", "logout"}
              \/ /\ job'[k].kind = job[k].kind /\ job'[k].tab = job[k].tab
                 /\ job'[k].login = job[k].login
                 /\ job'[k].kind = "logout" =>
                       job'[k].at = job[k].at \/ job[k].at \in {"answered", "cleared"}
    PROVE  LogoutsAreSound'
BY DEF LogoutsAreSound, AskingHasNoScope, AskingIsAlone,
                     CarriedOutIsDeleted, LogoutIsOfTab

\* The steps of the calls that stay what they are, and the calls that begin.
LEMMA OtherStepsSound ==
    ASSUME AccountsInv, LogoutsAreSound, NEW j \in Jobs,
           \/ ArriveMe(j) \/ ArrivePost(j) \/ EndPost(j) \/ QueuePost(j) \/ PutRow(j)
           \/ Send(j) \/ ArriveSync(j) \/ EndSync(j) \/ ArriveLoad(j) \/ CacheSnapshot(j)
           \/ FallBack(j) \/ Lose(j) \/ ClearScope(j)
           \/ \E op \in Ops : HandleReply(j, op)
           \/ \E t \in Tabs : \/ StartSync(t, j) \/ StartLoad(t, j)
                              \/ \E op \in Ops : StartPost(t, j, op)
    PROVE  LogoutsAreSound'
<1> USE DEF AccountsInv, CallsAreSound, Whole, Calls, Is, Move, End, Answer, NoJob
<1>1. UNCHANGED <<scope, owner, mixed, live>> /\ \A k \in Jobs : k # j => job'[k] = job[k]
  BY DEF ArriveMe, ArrivePost, EndPost, QueuePost, PutRow, Send, ArriveSync, EndSync, ArriveLoad,
         CacheSnapshot, FallBack, Lose, ClearScope, HandleReply, StartSync, StartLoad, StartPost, Start
<1> DEFINE Same == /\ job'[j].kind = job[j].kind /\ job'[j].tab = job[j].tab
                   /\ job'[j].login = job[j].login
           Other == job'[j].kind \notin {"me", "logout"}
<1>2. Other \/ (Same /\ (job'[j].kind = "logout" => job[j].at = "answered"))
  <2>1. CASE ArriveMe(j)
    BY <2>1 DEF ArriveMe
  <2>2. CASE ArrivePost(j) \/ EndPost(j) \/ QueuePost(j) \/ PutRow(j)
    BY <2>2 DEF ArrivePost, EndPost, QueuePost, PutRow
  <2>3. CASE Send(j)
    BY <2>3 DEF Send
  <2>4. CASE ArriveSync(j) \/ EndSync(j) \/ ArriveLoad(j) \/ CacheSnapshot(j) \/ FallBack(j)
    BY <2>4 DEF ArriveSync, EndSync, ArriveLoad, CacheSnapshot, FallBack
  <2>5. CASE Lose(j)
    BY <2>5 DEF Lose
  <2>6. CASE ClearScope(j)
    BY <2>6 DEF ClearScope
  <2>7. CASE \E op \in Ops : HandleReply(j, op)
    BY <2>7 DEF HandleReply
  <2>8. CASE \E t \in Tabs : \/ StartSync(t, j) \/ StartLoad(t, j)
                             \/ \E op \in Ops : StartPost(t, j, op)
    <3>1. PICK call : call.kind \in {"sync", "load", "post"} /\ job' = [job EXCEPT ![j] = call]
      BY <2>8 DEF StartSync, StartLoad, StartPost, Start
    <3> QED BY <3>1
  <2> QED BY <2>1, <2>2, <2>3, <2>4, <2>5, <2>6, <2>7, <2>8
<1> QED BY <1>1, <1>2, OtherCallsSound

\* A new account in a tab comes by a login, with a new token, or by the answer of the
\* one call that asked; a page that is loaded again leaves nothing of its own behind.
LEMMA AccountStepsSound ==
    ASSUME AccountsInv, LogoutsAreSound, NEW t \in Tabs,
           OpenPage(t) \/ \E l \in Logins, u \in Users : Login(t, l, u)
    PROVE  LogoutsAreSound'
<1> USE DEF AccountsInv, CallsAreSound, TypeOK
<1>1. CASE OpenPage(t)
  <2>1. /\ scope' = [scope EXCEPT ![t] = Nil] /\ UNCHANGED <<owner, live, mixed>>
        /\ scope \in [Tabs -> Users \cup {Nil}]
    BY <1>1 DEF OpenPage
  <2>2. \A k \in Jobs :
           /\ Abandoned(t)[k].tab # t
           /\ Abandoned(t)[k].kind \in {"me", "logout"} =>
                 /\ Abandoned(t)[k].kind = job[k].kind /\ Abandoned(t)[k].at = job[k].at
                 /\ Abandoned(t)[k].login = job[k].login
                 /\ Abandoned(t)[k].tab \in {job[k].tab, Nil}
    BY DEF Abandoned, NoJob, Calls
  <2>3. PICK i : \A k \in Jobs :
           IF k # i THEN job'[k] = Abandoned(t)[k]
           ELSE job'[k].kind = "me" /\ job'[k].tab = t
    <3>1. CASE token = Nil
      <4>1. \E i : i \notin Jobs
        BY NoSetContainsEverything
      <4> QED BY <1>1, <3>1, <4>1 DEF OpenPage
    <3>2. CASE token # Nil
      <4>1. PICK j \in Jobs : job' = [Abandoned(t) EXCEPT ![j] =
                           [kind |-> "me", at |-> "sent", tab |-> t, user |-> Nil,
                            login |-> token, ops |-> {}]]
        BY <1>1, <3>2 DEF OpenPage
      <4> QED BY <4>1 DEF Abandoned
    <3> QED BY <3>1, <3>2
  <2>4. AskingHasNoScope'
    BY <2>1, <2>2, <2>3 DEF LogoutsAreSound, AskingHasNoScope
  <2>5. AskingIsAlone'
    BY <2>1, <2>2, <2>3 DEF LogoutsAreSound, AskingIsAlone
  <2>6. CarriedOutIsDeleted'
    BY <2>1, <2>2, <2>3 DEF LogoutsAreSound, CarriedOutIsDeleted
  <2>7. LogoutIsOfTab'
    BY <2>1, <2>2, <2>3 DEF LogoutsAreSound, LogoutIsOfTab
  <2> QED BY <2>4, <2>5, <2>6, <2>7 DEF LogoutsAreSound
<1>2. ASSUME NEW l \in Logins, NEW u \in Users, Login(t, l, u)
      PROVE  LogoutsAreSound'
  <2>1. /\ scope' = [scope EXCEPT ![t] = u] /\ owner' = [owner EXCEPT ![l] = u]
        /\ live' = live \cup {l} /\ owner[l] = Nil /\ job' = job /\ (mixed => mixed')
        /\ \A j \in Jobs : job[j].tab = t => job[j].kind \notin {"me", "logout"}
    BY <1>2 DEF Login
  <2>2. \A j \in Jobs : job[j].login # Nil => job[j].login # l /\ owner'[job[j].login] = owner[job[j].login]
    BY <2>1 DEF TokensAreIssued, Calls
  <2>3. \A j \in Jobs : job[j].tab # t => scope'[job[j].tab] = scope[job[j].tab] \/ job[j].tab = Nil
    BY <2>1 DEF Calls
  <2> QED BY <2>1, <2>2, <2>3 DEF LogoutsAreSound, AskingHasNoScope, AskingIsAlone,
                     CarriedOutIsDeleted, LogoutIsOfTab
<1> QED BY <1>1, <1>2

\* A logout begins in a tab that shows an account, or after a failed question, then
\* in one that shows none; it goes on when its token is deleted.
LEMMA LogoutStepsSound ==
    ASSUME AccountsInv, LogoutsAreSound, NEW j \in Jobs,
           \/ AdoptMe(j) \/ GiveUpMe(j) \/ ArriveLogout(j) \/ EndLogout(j)
           \/ \E t \in Tabs : StartLogout(t, j)
    PROVE  LogoutsAreSound'
<1> USE DEF AccountsInv, CallsAreSound, TypeOK, Calls
<1>1. CASE AdoptMe(j)
  <2>1. /\ job[j].kind = "me" /\ job[j].tab \in Tabs
        /\ job' = [job EXCEPT ![j] = NoJob] /\ UNCHANGED <<owner, live>> /\ (mixed => mixed')
        /\ scope' = [scope EXCEPT ![job[j].tab] = Signed(j)]
    BY <1>1 DEF AdoptMe, Is, End, Whole
  <2>2. \A k \in Jobs : job'[k].kind \in {"me", "logout"} =>
           job'[k] = job[k] /\ job[k].tab # job[j].tab
    BY <2>1 DEF LogoutsAreSound, AskingHasNoScope, AskingIsAlone,
                     CarriedOutIsDeleted, LogoutIsOfTab, NoJob
  <2> QED BY <2>1, <2>2 DEF LogoutsAreSound, AskingHasNoScope, AskingIsAlone,
                     CarriedOutIsDeleted, LogoutIsOfTab
<1>2. CASE GiveUpMe(j)
  <2>1. /\ job[j].kind = "me" /\ job[j].tab \in Tabs /\ UNCHANGED <<owner, live, mixed, scope>>
        /\ job'[j].kind = "logout" /\ job'[j].at = "sent" /\ job'[j].tab = job[j].tab
        /\ \A k \in Jobs \ {j} : job'[k] = job[k]
    BY <1>2 DEF GiveUpMe, Is, Whole
  <2>2. AskingHasNoScope'
    BY <2>1 DEF LogoutsAreSound, AskingHasNoScope
  <2>3. AskingIsAlone'
    BY <2>1 DEF LogoutsAreSound, AskingIsAlone
  <2>4. CarriedOutIsDeleted'
    BY <2>1 DEF LogoutsAreSound, CarriedOutIsDeleted
  <2>5. LogoutIsOfTab'
    BY <2>1 DEF LogoutsAreSound, AskingHasNoScope, LogoutIsOfTab
  <2> QED BY <2>2, <2>3, <2>4, <2>5 DEF LogoutsAreSound
<1>3. CASE ArriveLogout(j)
  <2>1. /\ job[j].kind = "logout" /\ UNCHANGED <<owner, mixed, scope>>
        /\ live' = live \ {job[j].login}
        /\ \A k \in Jobs \ {j} : job'[k] = job[k]
    BY <1>3 DEF ArriveLogout, Is, Answer, End, Move
  <2>2. \/ job'[j] = NoJob
        \/ /\ job[j].login \in live /\ job'[j].kind = "logout" /\ job'[j].tab = job[j].tab
           /\ job'[j].login = job[j].login
    BY <1>3 DEF ArriveLogout, Is, Answer, End, Move, Authentic
  <2>3. AskingHasNoScope'
    BY <2>1, <2>2 DEF LogoutsAreSound, AskingHasNoScope, NoJob
  <2>4. AskingIsAlone'
    BY <2>1, <2>2 DEF LogoutsAreSound, AskingIsAlone, NoJob
  <2>5. CarriedOutIsDeleted'
    BY <2>1, <2>2 DEF LogoutsAreSound, CarriedOutIsDeleted, NoJob
  <2>6. LogoutIsOfTab'
    BY <2>1, <2>2 DEF LogoutsAreSound, LogoutIsOfTab, NoJob
  <2> QED BY <2>3, <2>4, <2>5, <2>6 DEF LogoutsAreSound
<1>4. CASE EndLogout(j)
  <2>1. /\ UNCHANGED <<owner, live, mixed>> /\ job' = [job EXCEPT ![j] = NoJob]
        /\ \A x \in Tabs : scope'[x] \in {scope[x], Nil}
    BY <1>4 DEF EndLogout, End
  <2> QED BY <2>1 DEF LogoutsAreSound, AskingHasNoScope, AskingIsAlone,
                     CarriedOutIsDeleted, LogoutIsOfTab, NoJob
<1>5. ASSUME NEW t \in Tabs, StartLogout(t, j)
      PROVE  LogoutsAreSound'
  <2>1. /\ scope[t] # Nil /\ scope = shown /\ UNCHANGED <<owner, live, mixed, scope>>
        /\ job'[j].kind = "logout" /\ job'[j].at = "sent" /\ job'[j].tab = t
        /\ job'[j].login = token /\ \A k \in Jobs \ {j} : job'[k] = job[k]
    BY <1>5 DEF StartLogout, Start, ScopesAndRowsAreWhole
  <2>2. ~mixed /\ token # Nil => owner[token] = scope[t]
    <3> SUFFICES ASSUME ~mixed, token # Nil PROVE owner[token] = scope[t]
      OBVIOUS
    <3>1. owner[token] \in Users /\ scope[t] \in Users
      BY <2>1 DEF TokensAreIssued
    <3>2. InUse(owner[token]) /\ InUse(scope[t])
      BY <2>1 DEF InUse
    <3> QED BY <3>1, <3>2 DEF OneInUse
  <2>3. AskingHasNoScope'
    BY <2>1, <2>2 DEF LogoutsAreSound, AskingHasNoScope
  <2>4. AskingIsAlone'
    BY <2>1, <2>2 DEF LogoutsAreSound, AskingHasNoScope, AskingIsAlone
  <2>5. CarriedOutIsDeleted'
    BY <2>1, <2>2 DEF LogoutsAreSound, CarriedOutIsDeleted
  <2>6. LogoutIsOfTab'
    BY <2>1, <2>2 DEF LogoutsAreSound, LogoutIsOfTab
  <2> QED BY <2>3, <2>4, <2>5, <2>6 DEF LogoutsAreSound
<1> QED BY <1>1, <1>2, <1>3, <1>4, <1>5

\* A queued row goes when its author has it recorded, or in the step in which a logout
\* of its author clears: the one transaction deletes by the scope of its tab, which is
\* the account whose token the server has deleted.
THEOREM RowsWait == Spec => RowsWaitForAuthor
<1> DEFINE Waits(op) ==
       ~mixed /\ row[op].status = "queued" /\ row'[op].status = "absent" =>
           \/ ledger[author[op]][op] = "applied"
           \/ \E j \in Jobs : LogsOut(j, author[op])
<1>1. ASSUME AccountsInv, LogoutsAreSound, [Next]_vars, NEW op \in Ops
      PROVE  Waits(op)
  <2> SUFFICES ASSUME ~mixed, row[op].status = "queued", row'[op].status = "absent"
               PROVE  \/ ledger[author[op]][op] = "applied"
                      \/ \E j \in Jobs : LogsOut(j, author[op])
    OBVIOUS
  <2>1. row[op].user = author[op] /\ author[op] # Nil /\ scope = shown
    BY <1>1 DEF AccountsInv, StoreIsApart, ScopesAndRowsAreWhole
  <2>2. row' # row
    OBVIOUS
  <2>3. (\E t \in Tabs : PageStep(t)) => row' = row
    BY DEF PageStep, OpenPage, Login, StartLogout, StartSync, StartLoad, StartPost
  <2>4. PICK j \in Jobs : ClearScope(j) \/ PutRow(j) \/ \E o \in Ops : HandleReply(j, o)
    BY <1>1, <2>2, <2>3 DEF Next, JobStep, vars, ArriveMe, AdoptMe, GiveUpMe, ArriveLogout, EndLogout,
                      ArrivePost, EndPost, QueuePost, Send, ArriveSync, EndSync, ArriveLoad,
                      CacheSnapshot, FallBack, Lose
  <2>5. CASE ClearScope(j)
    <3>1. job[j].tab \in Tabs
      BY <1>1, <2>5 DEF ClearScope, Is, AccountsInv, CallsAreSound, Whole
    <3>2. row[op].user = scope[job[j].tab]
      BY <1>1, <2>5 DEF ClearScope, NoRow
    <3>3. /\ Is(j, "logout", "answered") /\ job'[j].at = "cleared"
          /\ job[j].login \in Logins \ live
      BY <1>1, <2>5 DEF ClearScope, Move, Is, LogoutsAreSound, CarriedOutIsDeleted, AccountsInv, CallsAreSound, Calls
    <3>4. Signed(j) = scope[job[j].tab]
      BY <1>1, <2>1, <3>1, <3>2, <3>3 DEF LogoutsAreSound, LogoutIsOfTab, Is, Signed
    <3> QED BY <2>1, <3>1, <3>2, <3>3, <3>4 DEF LogsOut
  <2>6. CASE PutRow(j)
    BY <1>1, <2>6 DEF PutRow
  <2>7. CASE \E o \in Ops : HandleReply(j, o)
    <3>1. PICK o \in Ops : HandleReply(j, o)
      BY <2>7
    <3>2. o = op /\ RowAfter(j, op).status = "absent"
      BY <1>1, <3>1 DEF HandleReply, AccountsInv, TypeOK
    <3>3. ledger[Signed(j)][op] = "applied"
      BY <3>2 DEF RowAfter
    <3>4. job[j].login \in Logins /\ op \in job[j].ops
      BY <1>1, <3>1, <3>2 DEF HandleReply, Is, AccountsInv, CallsAreSound, Whole
    <3>5. Signed(j) = author[op]
      BY <1>1, <3>1, <3>4 DEF HandleReply, Is, AccountsInv, CallsAreSound, ForAuthor, Signed
    <3> QED BY <3>3, <3>5
  <2> QED BY <2>4, <2>5, <2>6, <2>7
<1>2. Init => LogoutsAreSound
  BY DEF Init, NoJob, LogoutsAreSound, AskingHasNoScope, AskingIsAlone, CarriedOutIsDeleted,
         LogoutIsOfTab
<1>3. AccountsInv /\ LogoutsAreSound /\ [Next]_vars => LogoutsAreSound'
  <2> SUFFICES ASSUME AccountsInv, LogoutsAreSound, [Next]_vars PROVE LogoutsAreSound'
    OBVIOUS
  <2>1. CASE UNCHANGED vars
    BY <2>1 DEF vars, LogoutsAreSound, AskingHasNoScope, AskingIsAlone, CarriedOutIsDeleted,
                     LogoutIsOfTab
  <2>2. ASSUME NEW t \in Tabs, PageStep(t)
        PROVE  LogoutsAreSound'
    BY <2>2, AccountStepsSound, LogoutStepsSound, OtherStepsSound DEF PageStep
  <2>3. ASSUME NEW j \in Jobs, JobStep(j)
        PROVE  LogoutsAreSound'
    BY <2>3, LogoutStepsSound, OtherStepsSound DEF JobStep
  <2> QED BY <2>1, <2>2, <2>3 DEF Next
<1>4. AccountsInv /\ LogoutsAreSound /\ [Next]_vars => [\A op \in Ops : Waits(op)]_vars
  BY <1>1
<1> QED BY <1>2, <1>3, <1>4, AccountsInvariant, PTL DEF Spec, RowsWaitForAuthor
=============================================================================
