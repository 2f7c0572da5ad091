---------------------------- MODULE SignInProofs ----------------------------
(* Safety of the sign-in, for any runs, lifetimes, delays and bounds.      *)
EXTENDS SignIn, TLAPS

(***************************************************************************)
(* The provider: it has handed out the numbers up to `issued', and knows   *)
(* until when each access token is good.                                   *)
(***************************************************************************)
ProviderInv ==
    /\ issued \in 0 .. MaxGrants
    /\ DOMAIN provider = {"codes", "refresh", "expires"}
    /\ provider.codes \subseteq 1 .. issued /\ provider.refresh \subseteq 1 .. issued
    /\ DOMAIN provider.expires \subseteq 1 .. issued
    /\ \A i \in DOMAIN provider.expires : provider.expires[i] \in Nat

(* What a token kept somewhere says agrees with the provider, but for the   *)
(* time its answer was under way.                                          *)
Known(t) ==
    /\ t.access \in DOMAIN provider.expires
    /\ t.expires <= provider.expires[t.access] + AttemptTime
    /\ ~Rotates => t.refresh \in provider.refresh

(***************************************************************************)
(* An attempt is over before its timeout.  A token's answer under way has   *)
(* been there no longer than the attempt, unless the last instant came;     *)
(* the first attempt with an access token may take all its time.            *)
(***************************************************************************)
GotToken(r) == r.kind # "api" /\ r.got \in Ids
RequestInv(p) ==
    LET r == request[p] IN
    /\ clock <= r.until + AttemptTime
    /\ r.kind # "exchange" => held[p] # None
    /\ r.kind = "api" => r.with \in DOMAIN provider.expires
    /\ r.kind = "api" /\ r.attempt = 0 => r.until + AttemptTime <= provider.expires[r.with]
    /\ GotToken(r) =>
          /\ r.got \in DOMAIN provider.expires
          /\ \/ r.until + Lifetime <= provider.expires[r.got]
             \/ clock = MaxTime /\ MaxTime + Lifetime <= provider.expires[r.got]
          /\ gives_refresh(r) /\ ~Rotates => r.got \in provider.refresh

(***************************************************************************)
(* A login and a run save a token.  What add saves has a token too, if the  *)
(* account was signed in when it read the file and no login came between.   *)
(***************************************************************************)
SavesToken(p) ==
    /\ p # "add" /\ At(p, "read") => held[p] # None
    /\ p # "add" /\ At(p, "write") => merged[p].token # None
    /\ p = "add" /\ At(p, "write") /\ signed /\ ~overtaken => merged[p].token # None

ProcInv(p) ==
    /\ At(p, "write") <=> merged[p] # None
    /\ At(p, "request") <=> request[p] # None
    /\ held[p] # None => Known(held[p])
    /\ merged[p] # None /\ merged[p].token # None => Known(merged[p].token)
    /\ At(p, "ready") => held[p] # None
    /\ At(p, "request") => RequestInv(p)
    /\ p \in Runs /\ at[p] \in {"read", "write"} => held[p] # None /\ clock + Margin <= held[p].expires
    /\ SavesToken(p)

MemoryType ==
    /\ at \in [Procs -> Places] /\ held \in [Procs -> Token \cup {None}]
    /\ request \in [Procs -> Request \cup {None}] /\ merged \in [Procs -> Secrets \cup {None}]
SharedInv ==
    /\ clock \in 0 .. MaxTime /\ account \in BOOLEAN
    /\ secrets \in Secrets /\ (secrets.token # None => Known(secrets.token))
    /\ queue \in Seq(Connection) /\ listener \in Listener \cup {None}
    /\ at["login"] \in {"wait", "shutdown"} => listener # None
    /\ signed \in BOOLEAN /\ overtaken \in BOOLEAN /\ (signed => secrets.token # None)

SignInv == ProviderInv /\ MemoryType /\ SharedInv /\ \A p \in Procs : ProcInv(p)

LEMMA InitSignIn == Init => SignInv
<1> SUFFICES ASSUME Init PROVE SignInv
  OBVIOUS
<1>1. ProviderInv
  BY SignInAssumption DEF Init, ProviderInv
<1>2. MemoryType /\ \A p \in Procs : ProcInv(p)
  BY NoneAssumption DEF Init, MemoryType, ProcInv, SavesToken, Places, At
<1>3. SharedInv
  <2>1. secrets \in Secrets /\ secrets.token = None
    BY DEF Init, Secrets, NoSecrets
  <2>2. clock \in 0 .. MaxTime
    BY SignInAssumption DEF Init
  <2>3. account \in BOOLEAN /\ signed \in BOOLEAN /\ overtaken \in BOOLEAN
    BY Zenon DEF Init
  <2>4. queue \in Seq(Connection) /\ listener \in Listener \cup {None}
    BY DEF Init
  <2>5. at["login"] \notin {"wait", "shutdown"} /\ ~signed
    BY DEF Init, Procs
  <2> QED BY <2>1, <2>2, <2>3, <2>4, <2>5 DEF SharedInv
<1> QED BY <1>1, <1>2, <1>3 DEF SignInv

(***************************************************************************)
(* What every step leaves as it was: an access token stays good as long as *)
(* it was, and without rotation no refresh token is taken back.            *)
(***************************************************************************)
Grows ==
    /\ \A i \in DOMAIN provider.expires :
          i \in DOMAIN provider'.expires /\ provider'.expires[i] = provider.expires[i]
    /\ ~Rotates => provider.refresh \subseteq provider'.refresh
(* Nobody's login is saved but by the step of p. *)
HistoryKeeps == signed' /\ ~overtaken' => signed /\ ~overtaken
Others(p) == \A q \in Procs \ {p} : UNCHANGED <<at[q], held[q], request[q], merged[q]>>

LEMMA ProcKeeps ==
    ASSUME SignInv, NEW p \in Procs, clock' = clock, Grows, Others(p), p = "add" \/ HistoryKeeps,
           MemoryType', ProviderInv', SharedInv', ProcInv(p)'
    PROVE  SignInv'
<1>1. ASSUME NEW q \in Procs \ {p} PROVE ProcInv(q)'
  <2>1. ProcInv(q) /\ UNCHANGED <<at[q], held[q], request[q], merged[q]>>
    BY DEF SignInv, Others
  <2>2. (held[q] # None => Known(held[q]))'
    BY <2>1 DEF ProcInv, Known, Grows
  <2>3. (merged[q] # None /\ merged[q].token # None => Known(merged[q].token))'
    BY <2>1 DEF ProcInv, Known, Grows
  <2>4. (At(q, "request") => RequestInv(q))'
    BY <2>1 DEF ProcInv, RequestInv, GotToken, gives_refresh, Grows, At
  <2>5. SavesToken(q)'
    BY <2>1 DEF ProcInv, SavesToken, HistoryKeeps, At
  <2> QED BY <2>1, <2>2, <2>3, <2>4, <2>5 DEF ProcInv, At
<1> QED BY <1>1 DEF SignInv

(* Steps that leave every process's memory and the provider's answers alone. *)
LEMMA SharedKeeps ==
    ASSUME SignInv, clock' = clock, Grows, UNCHANGED <<at, memory, history>>, ProviderInv', SharedInv'
    PROVE  SignInv'
<1>1. ASSUME NEW q \in Procs PROVE ProcInv(q)'
  <2>1. ProcInv(q) /\ UNCHANGED <<at[q], held[q], request[q], merged[q]>> /\ HistoryKeeps
    BY DEF SignInv, memory, history, HistoryKeeps
  <2>2. (held[q] # None => Known(held[q]))'
    BY <2>1 DEF ProcInv, Known, Grows
  <2>3. (merged[q] # None /\ merged[q].token # None => Known(merged[q].token))'
    BY <2>1 DEF ProcInv, Known, Grows
  <2>4. (At(q, "request") => RequestInv(q))'
    BY <2>1 DEF ProcInv, RequestInv, GotToken, gives_refresh, Grows, At
  <2>5. SavesToken(q)'
    BY <2>1 DEF ProcInv, SavesToken, HistoryKeeps, At
  <2> QED BY <2>1, <2>2, <2>3, <2>4, <2>5 DEF ProcInv, At
<1> QED BY <1>1 DEF SignInv, MemoryType, memory

LEMMA SameWeb ==
    ASSUME SignInv, UNCHANGED web
    PROVE  ProviderInv' /\ Grows
BY DEF SignInv, ProviderInv, Grows, web

(* A place that is no part of a run's way to its next request.             *)
LEMMA GoKeeps ==
    ASSUME SignInv, NEW p \in Procs, clock' = clock, UNCHANGED <<web, memory>>, HistoryKeeps, SharedInv',
           At(p, "idle") \/ At(p, "wait") \/ At(p, "shutdown") \/ At(p, "delete"),
           NEW place \in {"idle", "wait", "shutdown", "read", "delete"}, Go(p, place),
           p # "add" => place # "read"
    PROVE  SignInv'
<1>1. MemoryType'
  BY DEF SignInv, MemoryType, memory, Go, Places
<1>2. at'[p] = place /\ Others(p)
  BY DEF SignInv, MemoryType, Go, Others, memory
<1>3. ProcInv(p)
  BY DEF SignInv
<1>4. ProcInv(p)'
  <2>1. request[p] = None /\ merged[p] = None
    BY <1>3 DEF ProcInv, At
  <2> QED BY <1>2, <1>3, <2>1, SignInAssumption DEF ProcInv, SavesToken, At, Known, web, memory
<1> QED BY <1>1, <1>2, <1>4, SameWeb, ProcKeeps

-----------------------------------------------------------------------------
(* The listener *)

LEMMA StartListenerKeeps == SignInv /\ start_listener => SignInv'
<1> SUFFICES ASSUME SignInv, start_listener PROVE SignInv'
  OBVIOUS
<1>1. listener' \in Listener
  <2>1. clock + Timeout \in Nat
    BY SignInAssumption DEF SignInv, SharedInv
  <2> QED BY <2>1 DEF start_listener, Listener
<1>2. "login" \in Procs /\ "login" \notin Runs
  BY SignInAssumption DEF Procs
<1>3. SharedInv'
  BY <1>1, NoneAssumption DEF start_listener, SignInv, SharedInv, web, history, Known
<1> QED BY <1>2, <1>3, GoKeeps DEF start_listener, HistoryKeeps, history

LEMMA ConnectsKeeps ==
    ASSUME SignInv, NEW c \in Connection, Connects(c), ProviderInv', Grows
    PROVE  SignInv'
<1>1. queue' \in Seq(Connection)
  BY DEF Connects, SignInv, SharedInv
<1>2. SharedInv'
  BY <1>1 DEF Connects, SignInv, SharedInv, Known, Grows, history
<1> QED BY <1>2, SharedKeeps DEF Connects

LEMMA RedirectKeeps == SignInv /\ Redirect => SignInv'
<1> SUFFICES ASSUME SignInv, Redirect PROVE SignInv'
  OBVIOUS
<1>1. CASE Connects([kind |-> "redirect", code |-> None]) /\ UNCHANGED web
  BY <1>1, ConnectsKeeps, SameWeb DEF Connection
<1>2. CASE /\ issued < MaxGrants /\ issued' = issued + 1
           /\ provider' = [provider EXCEPT !.codes = @ \cup {issued'}]
           /\ Connects([kind |-> "redirect", code |-> issued'])
  <2>1. issued' \in Ids /\ MaxGrants \in Nat
    BY <1>2, SignInAssumption DEF SignInv, ProviderInv, Ids
  <2>2. /\ provider'.codes = provider.codes \cup {issued'} /\ provider'.refresh = provider.refresh
        /\ provider'.expires = provider.expires /\ DOMAIN provider' = DOMAIN provider
    BY <1>2 DEF SignInv, ProviderInv
  <2>3. ProviderInv' /\ Grows
    BY <1>2, <2>1, <2>2 DEF SignInv, ProviderInv, Grows, Ids
  <2> QED BY <1>2, <2>1, <2>3, ConnectsKeeps DEF Connection
<1> QED BY <1>1, <1>2 DEF Redirect

LEMMA StrayKeeps == SignInv /\ Stray => SignInv'
BY ConnectsKeeps, SameWeb DEF Stray, Connection

LEMMA ListenerKeeps ==
    ASSUME SignInv, UNCHANGED <<clock, web, account, secrets, at, memory, history>>,
           queue' \in Seq(Connection), listener' \in Listener
    PROVE  SignInv'
<1>1. SharedInv'
  BY NoneAssumption DEF SignInv, SharedInv, web, history, Known
<1> QED BY <1>1, SharedKeeps, SameWeb

LEMMA AcceptKeeps == SignInv /\ accept => SignInv'
<1> SUFFICES ASSUME SignInv, accept PROVE SignInv'
  OBVIOUS
<1>1. queue \in Seq(Connection) /\ queue # <<>>
  BY DEF accept, SignInv, SharedInv
<1>2. Head(queue) \in Connection /\ Tail(queue) \in Seq(Connection)
  BY <1>1
<1>3. listener \in Listener
  BY DEF accept, At, SignInv, SharedInv
<1>4. listener' \in Listener
  BY <1>2, <1>3 DEF accept, Listener
<1> QED BY <1>2, <1>4, ListenerKeeps DEF accept

LEMMA DoGetKeeps == SignInv /\ do_GET => SignInv'
<1> SUFFICES ASSUME SignInv, do_GET PROVE SignInv'
  OBVIOUS
<1>1. listener \in Listener /\ listener.busy \in Connection /\ queue \in Seq(Connection)
  BY DEF do_GET, SignInv, SharedInv, Listener
<1>2. captured(listener, listener.busy) \in Listener
  BY <1>1 DEF captured, Listener, Connection
<1>3. listener' \in Listener
  BY <1>2 DEF do_GET, Listener
<1> QED BY <1>1, <1>3, ListenerKeeps DEF do_GET

LEMMA BrowserClosesKeeps == SignInv /\ BrowserCloses => SignInv'
<1> SUFFICES ASSUME SignInv, BrowserCloses PROVE SignInv'
  OBVIOUS
<1>1. listener \in Listener /\ queue \in Seq(Connection)
  BY DEF BrowserCloses, SignInv, SharedInv
<1>2. listener' \in Listener
  BY <1>1 DEF BrowserCloses, Listener
<1> QED BY <1>1, <1>2, ListenerKeeps DEF BrowserCloses

LEMMA WaitKeeps == SignInv /\ wait_for_code => SignInv'
<1> SUFFICES ASSUME SignInv, wait_for_code PROVE SignInv'
  OBVIOUS
<1>1. listener \in Listener
  BY DEF wait_for_code, At, SignInv, SharedInv
<1>2. listener' \in Listener
  BY <1>1 DEF wait_for_code, Listener
<1>3. "login" \in Procs
  BY DEF Procs
<1>4. SharedInv'
  BY <1>2, NoneAssumption DEF wait_for_code, SignInv, SharedInv, web, history, Known
<1> QED BY <1>3, <1>4, GoKeeps DEF wait_for_code, HistoryKeeps, history

-----------------------------------------------------------------------------
(***************************************************************************)
(* The next request: with an access token only if it has the margin left,  *)
(* which covers the sleeps before every further attempt.                   *)
(***************************************************************************)
LEMMA PostKeeps ==
    ASSUME SignInv, NEW p \in Procs, clock' = clock, UNCHANGED <<web, held>>, SharedInv', HistoryKeeps,
           merged' \in [Procs -> Secrets \cup {None}], merged'[p] = None,
           \A q \in Procs \ {p} : merged'[q] = merged[q],
           NEW kind \in {"exchange", "refresh", "api"}, NEW id \in Ids,
           Go(p, "request"), Post(p, kind, id),
           kind # "exchange" => held[p] # None,
           kind = "api" => /\ id \in DOMAIN provider.expires
                           /\ clock + Margin <= provider.expires[id] + AttemptTime
    PROVE  SignInv'
<1> DEFINE r == [kind |-> kind, with |-> id, attempt |-> 0, until |-> clock, got |-> None]
<1>1. clock \in Nat /\ AttemptTime \in Nat /\ Margin \in Nat /\ 2 * AttemptTime <= Margin /\ Retries \in Nat
  BY SignInAssumption DEF SignInv, SharedInv
<1>2. r \in Request /\ r # None
  BY <1>1, NoneAssumption DEF Request
<1>3. at'[p] = "request" /\ request'[p] = r /\ Others(p)
  BY DEF SignInv, MemoryType, Go, Post, Others
<1>4. MemoryType'
  BY <1>2 DEF SignInv, MemoryType, Go, Post, Places
<1>5. RequestInv(p)'
  <2>1. r.until = clock /\ r.kind = kind /\ r.with = id /\ r.attempt = 0 /\ ~GotToken(r)
    BY NoneAssumption DEF GotToken
  <2> HIDE DEF r
  <2>2. kind = "api" => clock + AttemptTime <= provider.expires[id]
    <3>1. ASSUME kind = "api" PROVE provider.expires[id] \in Nat
      BY <3>1 DEF SignInv, ProviderInv
    <3> QED BY <1>1, <3>1
  <2> QED BY <1>1, <1>3, <2>1, <2>2 DEF RequestInv, web
<1>6. ProcInv(p)'
  BY <1>2, <1>3, <1>5 DEF ProcInv, SavesToken, At, SignInv, Known, web
<1> QED BY <1>3, <1>4, <1>6, SameWeb, ProcKeeps

LEMMA ExchangeKeeps == SignInv /\ exchange_code => SignInv'
<1> SUFFICES ASSUME SignInv, exchange_code PROVE SignInv'
  OBVIOUS
<1>1. "login" \in Procs /\ "login" \notin Runs /\ At("login", "shutdown") /\ at \in [Procs -> Places]
  BY SignInAssumption DEF Procs, exchange_code, SignInv, MemoryType
<1>2. listener \in Listener
  BY <1>1 DEF At, SignInv, SharedInv
<1>3. <<>> \in Seq(Connection)
  OBVIOUS
<1>4. CASE Go("login", "idle") /\ UNCHANGED request
  <2>1. SharedInv'
    BY <1>1, <1>3, <1>4 DEF exchange_code, Go, SignInv, SharedInv, web, history, Known
  <2> QED BY <1>1, <1>4, <2>1, GoKeeps DEF exchange_code, memory, HistoryKeeps, history
<1>5. CASE /\ listener.code # None
           /\ Go("login", "request") /\ Post("login", "exchange", listener.code)
  <2>1. SharedInv'
    BY <1>1, <1>3, <1>5 DEF exchange_code, Go, SignInv, SharedInv, web, history, Known
  <2>2. listener.code \in Ids
    BY <1>2, <1>5 DEF Listener
  <2>3. merged' = merged /\ merged["login"] = None /\ merged \in [Procs -> Secrets \cup {None}]
    BY <1>1 DEF exchange_code, SignInv, ProcInv, At, MemoryType
  <2> QED BY <1>1, <1>5, <2>1, <2>2, <2>3, PostKeeps DEF exchange_code, HistoryKeeps, history
<1> QED BY <1>4, <1>5 DEF exchange_code

LEMMA CmdRunKeeps == ASSUME SignInv, NEW p \in Runs, cmd_run(p) PROVE SignInv'
<1>1. p \in Procs /\ p # "login"
  BY SignInAssumption DEF Procs
<1>2. secrets.token \in Token /\ Known(secrets.token)
  BY DEF cmd_run, SignInv, SharedInv, Secrets
<1>3. at'[p] = "ready" /\ held'[p] = secrets.token /\ Others(p) /\ UNCHANGED <<request, merged>>
  BY <1>1 DEF cmd_run, Go, SignInv, MemoryType, Others
<1>4. MemoryType'
  BY <1>1, <1>2 DEF cmd_run, Go, SignInv, MemoryType, Places
<1>5. SharedInv'
  BY <1>1 DEF cmd_run, Go, SignInv, MemoryType, SharedInv, web, history, Known
<1>6. ProcInv(p)'
  <2>1. ProcInv(p) /\ At(p, "idle")
    BY <1>1 DEF SignInv, cmd_run
  <2>2. held'[p] # None /\ Known(held[p])'
    BY <1>2, <1>3, NoneAssumption DEF Known, cmd_run, web
  <2> QED BY <1>3, <2>1, <2>2 DEF ProcInv, SavesToken, At, Known, cmd_run, web
<1> QED BY <1>1, <1>3, <1>4, <1>5, <1>6, SameWeb, ProcKeeps DEF cmd_run, HistoryKeeps, history

(* A process ends, or is killed: it forgets what it had in memory.         *)
LEMMA ForgetsKeeps ==
    ASSUME SignInv, NEW p \in Procs, clock' = clock, Grows, ProviderInv', SharedInv',
           Go(p, "idle"), Forgets(p), Others(p), MemoryType', HistoryKeeps,
           request'[p] = None, merged'[p] = None
    PROVE  SignInv'
<1>1. at'[p] = "idle" /\ held'[p] = None
  BY DEF SignInv, MemoryType, Go, Forgets
<1>2. ProcInv(p)'
  BY <1>1 DEF ProcInv, SavesToken, At
<1> QED BY <1>2, ProcKeeps

LEMMA AuthorizationKeeps == ASSUME SignInv, NEW p \in Runs, authorization(p) PROVE SignInv'
<1> USE DEF authorization, ensure_fresh
<1>1. p \in Procs /\ p # "login"
  BY SignInAssumption DEF Procs
<1>2. /\ ProcInv(p) /\ At(p, "ready") /\ held[p] # None /\ held[p] \in Token /\ Known(held[p])
      /\ request[p] = None /\ merged[p] = None
  <2>1. ProcInv(p) /\ held[p] \in Token \cup {None}
    BY <1>1 DEF SignInv, MemoryType
  <2> QED BY <2>1 DEF ProcInv, At
<1>3. merged' = merged /\ merged \in [Procs -> Secrets \cup {None}]
  BY DEF SignInv, MemoryType
<1>4. ASSUME NEW place, Go(p, place) PROVE SharedInv'
  BY <1>1, <1>4 DEF Go, SignInv, MemoryType, SharedInv, web, history, Known
<1>5. CASE Go(p, "idle") /\ Forgets(p) /\ UNCHANGED request
  <2>1. MemoryType' /\ Others(p) /\ request'[p] = None /\ merged'[p] = None
    BY <1>1, <1>2, <1>5 DEF Go, Forgets, SignInv, MemoryType, Others, Places
  <2> QED BY <1>1, <1>4, <1>5, <2>1, SameWeb, ForgetsKeeps DEF HistoryKeeps, history
<1>6. CASE /\ held[p].refresh # None
           /\ Go(p, "request") /\ Post(p, "refresh", held[p].refresh) /\ UNCHANGED held
  <2>1. held[p].refresh \in Ids
    BY <1>2, <1>6 DEF Token
  <2> QED BY <1>1, <1>2, <1>3, <1>4, <1>6, <2>1, PostKeeps DEF HistoryKeeps, history
<1>7. CASE /\ ~expires_within(held[p], Margin)
           /\ Go(p, "request") /\ Post(p, "api", held[p].access) /\ UNCHANGED held
  <2>1. /\ held[p].access \in Ids /\ held[p].expires \in Nat /\ clock \in Nat /\ Margin \in Nat
        /\ ~(held[p].expires < clock + Margin)
    BY <1>2, <1>7, SignInAssumption DEF Token, expires_within, SignInv, SharedInv
  <2>2. /\ held[p].access \in DOMAIN provider.expires
        /\ clock + Margin <= provider.expires[held[p].access] + AttemptTime
    <3>1. /\ held[p].access \in DOMAIN provider.expires /\ provider.expires[held[p].access] \in Nat
          /\ held[p].expires <= provider.expires[held[p].access] + AttemptTime /\ AttemptTime \in Nat
      BY <1>2, SignInAssumption DEF Known, SignInv, ProviderInv
    <3> QED BY <2>1, <3>1
  <2> QED BY <1>1, <1>2, <1>3, <1>4, <1>7, <2>1, <2>2, PostKeeps DEF HistoryKeeps, history
<1> QED BY <1>5, <1>6, <1>7

LEMMA RunEndsKeeps == ASSUME SignInv, NEW p \in Runs, run_ends(p) PROVE SignInv'
<1>1. p \in Procs /\ p # "login"
  BY SignInAssumption DEF Procs
<1>2. request[p] = None /\ merged[p] = None
  <2>1. ProcInv(p) /\ At(p, "ready")
    BY <1>1 DEF SignInv, run_ends
  <2> QED BY <2>1 DEF ProcInv, At
<1>3. MemoryType' /\ Others(p) /\ request'[p] = None /\ merged'[p] = None
  BY <1>1, <1>2 DEF run_ends, Go, Forgets, SignInv, MemoryType, Others, Places
<1>4. SharedInv'
  BY <1>1 DEF run_ends, Go, SignInv, MemoryType, SharedInv, web, history, Known
<1> QED BY <1>1, <1>3, <1>4, SameWeb, ForgetsKeeps DEF run_ends, HistoryKeeps, history

LEMMA KilledKeeps == ASSUME SignInv, NEW p \in Procs, Killed(p) PROVE SignInv'
<1>1. MemoryType' /\ Others(p) /\ request'[p] = None /\ merged'[p] = None
  BY DEF Killed, Go, Forgets, SignInv, MemoryType, Others, Places
<1>2. <<>> \in Seq(Connection) /\ "login" \in Procs
  BY DEF Procs
<1>3. at'["login"] \in {"wait", "shutdown"} => p # "login" /\ at["login"] = at'["login"]
  BY <1>2 DEF Killed, Go, SignInv, MemoryType
<1>4. listener' \in Listener \cup {None} /\ queue' \in Seq(Connection)
  BY <1>2 DEF Killed, SignInv, SharedInv
<1>5. at'["login"] \in {"wait", "shutdown"} => listener' # None
  BY <1>3 DEF Killed, SignInv, SharedInv
<1>6. SharedInv'
  BY <1>4, <1>5 DEF Killed, SignInv, SharedInv, web, history, Known
<1> QED BY <1>1, <1>6, SameWeb, ForgetsKeeps DEF Killed, HistoryKeeps, history

-----------------------------------------------------------------------------
(* What a request does at the provider: it gives new numbers, and takes    *)
(* back codes, and with rotation refresh tokens.                           *)
LEMMA TakesKeeps ==
    ASSUME SignInv, NEW r \in Request, Takes(r)
    PROVE  /\ ProviderInv' /\ Grows
           /\ Accepts(r) /\ r.kind # "api" =>
                 /\ issued' \in Ids /\ issued' \in DOMAIN provider'.expires
                 /\ provider'.expires[issued'] = clock + Lifetime
                 /\ gives_refresh(r) /\ ~Rotates => issued' \in provider'.refresh
<1>1. CASE ~Accepts(r) \/ r.kind = "api"
  BY <1>1, SameWeb DEF Takes
<1>2. CASE Accepts(r) /\ r.kind # "api"
  <2>1. r.kind \in {"exchange", "refresh"}
    BY <1>2 DEF Request
  <2>2. issued < MaxGrants
    BY <1>2, <2>1 DEF Accepts
  <2>3. issued' = issued + 1 /\ issued \in Nat /\ MaxGrants \in Nat /\ clock + Lifetime \in Nat
    BY <1>2, SignInAssumption DEF Takes, SignInv, ProviderInv, SharedInv
  <2>4. /\ DOMAIN provider' = {"codes", "refresh", "expires"}
        /\ provider'.codes \subseteq provider.codes
        /\ provider'.refresh \subseteq provider.refresh \cup {issued'}
        /\ ~Rotates => provider.refresh \subseteq provider'.refresh
        /\ gives_refresh(r) /\ ~Rotates => issued' \in provider'.refresh
    BY <1>2 DEF Takes
  <2>5. provider'.expires = [i \in DOMAIN provider.expires \cup {issued'} |->
                               IF i = issued' THEN clock + Lifetime ELSE provider.expires[i]]
    BY <1>2 DEF Takes
  <2>6. DOMAIN provider.expires \subseteq 1 .. issued
    BY DEF SignInv, ProviderInv
  <2>7. issued' \notin DOMAIN provider.expires
    BY <2>3, <2>6
  <2>8. ProviderInv'
    <3>1. \A i \in DOMAIN provider'.expires : provider'.expires[i] \in Nat
      BY <2>3, <2>5 DEF SignInv, ProviderInv
    <3>2. DOMAIN provider'.expires \subseteq 1 .. issued'
      BY <2>3, <2>5, <2>6
    <3>3. provider'.codes \subseteq 1 .. issued' /\ provider'.refresh \subseteq 1 .. issued'
      BY <2>3, <2>4 DEF SignInv, ProviderInv
    <3>4. issued' \in 0 .. MaxGrants
      BY <2>2, <2>3
    <3> QED BY <2>4, <3>1, <3>2, <3>3, <3>4 DEF ProviderInv
  <2>9. Grows
    BY <2>4, <2>5, <2>7 DEF Grows
  <2> QED BY <2>2, <2>3, <2>4, <2>5, <2>8, <2>9 DEF Ids
<1> QED BY <1>1, <1>2

LEMMA RequestAt ==
    ASSUME SignInv, NEW p \in Procs, At(p, "request")
    PROVE  /\ request[p] \in Request /\ RequestInv(p) /\ merged[p] = None
           /\ at["login"] \in Places /\ "login" \in Procs
<1>1. ProcInv(p) /\ request[p] \in Request \cup {None} /\ "login" \in Procs
  BY DEF SignInv, MemoryType, Procs
<1> QED BY <1>1 DEF ProcInv, At, SignInv, MemoryType

(* What the steps of a request have in common.                             *)
LEMMA SentKeepsShared ==
    ASSUME SignInv, NEW p \in Procs, SentBy(p), Grows, NEW place \in {"idle", "ready", "read"},
           Go(p, place) \/ at' = at
    PROVE  SharedInv' /\ "login" \in Procs
<1>1. "login" \in Procs
  BY DEF Procs
<1>2. at'["login"] \in {"wait", "shutdown"} => at["login"] \in {"wait", "shutdown"}
  BY <1>1 DEF Go, SignInv, MemoryType
<1> QED BY <1>1, <1>2 DEF SentBy, SignInv, SharedInv, Known, Grows, history

LEMMA DiesKeeps ==
    ASSUME SignInv, NEW p \in Procs, SentBy(p), Grows, ProviderInv', Dies(p)
    PROVE  SignInv'
<1>1. merged[p] = None
  BY RequestAt DEF SentBy
<1>2. MemoryType' /\ Others(p) /\ request'[p] = None /\ merged'[p] = None
  BY <1>1 DEF SentBy, Dies, Go, Over, Forgets, SignInv, MemoryType, Others, Places
<1>3. SharedInv'
  BY SentKeepsShared DEF Dies
<1> QED BY <1>2, <1>3, ForgetsKeeps DEF SentBy, Dies, HistoryKeeps, history

(* A request under way goes on: it is served, or its next attempt waits.   *)
LEMMA GoesOnKeeps ==
    ASSUME SignInv, NEW p \in Procs, SentBy(p), Grows, ProviderInv', UNCHANGED <<at, held>>,
           NEW s \in Request, request' = [request EXCEPT ![p] = s], RequestInv(p)'
    PROVE  SignInv'
<1>1. /\ At(p, "request") /\ ProcInv(p) /\ merged[p] = None /\ s # None /\ merged' = merged
      /\ clock' = clock
  BY RequestAt, NoneAssumption DEF SentBy, SignInv
<1>2. request'[p] = s /\ Others(p) /\ MemoryType'
  BY <1>1 DEF SignInv, MemoryType, Others
<1>3. SharedInv'
  BY SentKeepsShared
<1>4. ProcInv(p)'
  BY <1>1, <1>2 DEF ProcInv, SavesToken, At, Known, Grows
<1> QED BY <1>1, <1>2, <1>3, <1>4, ProcKeeps DEF SentBy, HistoryKeeps, history

(* The provider serves the attempt before its timeout: a token is good for *)
(* its lifetime from now on.                                               *)
LEMMA ServedKeeps == ASSUME SignInv, NEW p \in Procs, served(p) PROVE SignInv'
<1> DEFINE r == request[p]
           s == [r EXCEPT !.got = Answer(r)]
<1>1. /\ r \in Request /\ RequestInv(p) /\ At(p, "request") /\ clock' = clock /\ Takes(r)
      /\ Due(r.until) /\ SentBy(p) /\ UNCHANGED <<at, held>>
  BY RequestAt DEF served, SentBy, Sending
<1>2. /\ ProviderInv' /\ Grows
      /\ Accepts(r) /\ r.kind # "api" =>
            /\ issued' \in Ids /\ issued' \in DOMAIN provider'.expires
            /\ provider'.expires[issued'] = clock + Lifetime
            /\ gives_refresh(r) /\ ~Rotates => issued' \in provider'.refresh
  <2> HIDE DEF r
  <2> QED BY <1>1, TakesKeeps
<1>3. request' = [request EXCEPT ![p] = s]
  BY DEF served
<1>4. Answer(r) \in Ids \cup {Refused}
  BY <1>1, <1>2 DEF Answer, Request
<1>5. s \in Request /\ s.kind = r.kind /\ s.with = r.with /\ s.attempt = r.attempt
      /\ s.until = r.until /\ s.got = Answer(r)
  <2>1. r \in [kind : {"exchange", "refresh", "api"}, with : Ids, attempt : 0 .. Retries,
               until : Nat, got : Ids \cup {Refused} \cup {None}]
    BY <1>1 DEF Request
  <2> HIDE DEF r
  <2> QED BY <1>4, <2>1 DEF Request
<1> HIDE DEF s
<1>6. ASSUME GotToken(s)
      PROVE  /\ s.got \in DOMAIN provider'.expires
             /\ \/ s.until + Lifetime <= provider'.expires[s.got]
                \/ clock = MaxTime /\ MaxTime + Lifetime <= provider'.expires[s.got]
             /\ gives_refresh(s) /\ ~Rotates => s.got \in provider'.refresh
  <2>1. r.kind # "api" /\ Refused \notin Ids
    BY <1>5, <1>6, SignInAssumption DEF GotToken, Ids, Refused
  <2>2. Accepts(r) /\ s.got = issued'
    BY <1>5, <1>6, <2>1 DEF GotToken, Answer
  <2>3. clock \in Nat /\ r.until \in Nat /\ Lifetime \in Nat /\ MaxTime \in Nat
    BY <1>1, SignInAssumption DEF SignInv, SharedInv, Request
  <2>4. clock >= r.until \/ clock = MaxTime
    BY <1>1 DEF Due
  <2>5. provider'.expires[s.got] = clock + Lifetime
    BY <1>2, <2>1, <2>2
  <2> HIDE DEF r
  <2>6. \/ s.until + Lifetime <= provider'.expires[s.got]
        \/ clock = MaxTime /\ MaxTime + Lifetime <= provider'.expires[s.got]
    BY <1>5, <2>3, <2>4, <2>5
  <2> QED BY <1>2, <1>5, <2>1, <2>2, <2>6 DEF gives_refresh
<1>7. RequestInv(p)'
  <2>1. request'[p] = s
    BY <1>3 DEF SignInv, MemoryType
  <2>2. held' = held /\ clock' = clock
    BY <1>1
  <2>3. /\ clock <= s.until + AttemptTime
        /\ s.kind # "exchange" => held[p] # None
        /\ s.kind = "api" => s.with \in DOMAIN provider.expires
        /\ s.kind = "api" /\ s.attempt = 0 => s.until + AttemptTime <= provider.expires[s.with]
    BY <1>1, <1>5 DEF RequestInv
  <2> QED BY <1>1, <1>2, <1>6, <2>1, <2>2, <2>3 DEF RequestInv, GotToken, gives_refresh, Grows
<1> QED BY <1>1, <1>2, <1>3, <1>5, <1>7, GoesOnKeeps

(* The token made from an answer is one the provider knows, but for the    *)
(* time the answer was under way, and without rotation its refresh token,   *)
(* new or kept, is one the provider accepts.                               *)
LEMMA FromResponse ==
    ASSUME SignInv, NEW p \in Procs, At(p, "request"), GotToken(request[p]),
           NEW t, t = from_response(p, request[p].got)
    PROVE  t \in Token /\ t.expires = clock + Lifetime /\ Known(t)
<1> DEFINE r == request[p]
<1>1. r \in Request /\ RequestInv(p) /\ ProcInv(p) /\ held[p] \in Token \cup {None}
  BY RequestAt DEF SignInv, MemoryType
<1>2. /\ r.got \in Ids /\ r.kind # "api" /\ r.got \in DOMAIN provider.expires
      /\ \/ r.until + Lifetime <= provider.expires[r.got]
         \/ clock = MaxTime /\ MaxTime + Lifetime <= provider.expires[r.got]
      /\ gives_refresh(r) /\ ~Rotates => r.got \in provider.refresh
      /\ clock <= r.until + AttemptTime
  BY <1>1 DEF RequestInv, GotToken
<1>3. /\ clock \in Nat /\ Lifetime \in Nat /\ AttemptTime \in Nat /\ MaxTime \in Nat
      /\ r.until \in Nat /\ provider.expires[r.got] \in Nat
  <2>1. Lifetime \in Nat /\ AttemptTime \in Nat /\ MaxTime \in Nat
    BY SignInAssumption
  <2>2. clock \in Nat
    BY <2>1 DEF SignInv, SharedInv
  <2>3. r.until \in Nat
    BY <1>1 DEF Request
  <2>4. provider.expires[r.got] \in Nat
    BY <1>2 DEF SignInv, ProviderInv
  <2> QED BY <2>1, <2>2, <2>3, <2>4
<1>4. t.access = r.got /\ t.expires = clock + Lifetime /\ clock + Lifetime \in Nat
  BY <1>3 DEF from_response
<1>5. t.expires <= provider.expires[t.access] + AttemptTime
  <2> HIDE DEF r
  <2> QED BY <1>2, <1>3, <1>4
<1>6. CASE gives_refresh(r)
  <2>1. t.refresh = r.got
    BY <1>6 DEF from_response
  <2>2. t \in Token
    BY <1>2, <1>4, <1>6 DEF from_response, Token
  <2> QED BY <1>2, <1>4, <1>5, <1>6, <2>1, <2>2 DEF Known
<1>7. CASE ~gives_refresh(r)
  <2>1. r.kind = "refresh" /\ held[p] # None
    BY <1>1, <1>2, <1>7 DEF gives_refresh, Request, RequestInv
  <2>2. previous_refresh(p) = held[p].refresh /\ held[p] \in Token /\ Known(held[p])
    BY <1>1, <2>1 DEF previous_refresh, ProcInv
  <2>3. t = [access |-> r.got, refresh |-> held[p].refresh, expires |-> clock + Lifetime]
    BY <1>7, <2>2 DEF from_response
  <2>4. t \in Token
    BY <1>2, <1>4, <2>2, <2>3 DEF Token
  <2> QED BY <1>2, <1>4, <1>5, <2>2, <2>3, <2>4 DEF Known
<1> QED BY <1>6, <1>7

LEMMA AnsweredKeeps == ASSUME SignInv, NEW p \in Procs, answered(p) PROVE SignInv'
<1> DEFINE r == request[p]
<1>1. /\ r \in Request /\ merged[p] = None /\ RequestInv(p) /\ At(p, "request") /\ clock' = clock
      /\ ProcInv(p) /\ r.got \in Ids \cup {Refused} /\ UNCHANGED <<web, history>>
  BY RequestAt DEF answered, SentBy, SignInv, Request
<1>2. ProviderInv' /\ Grows /\ HistoryKeeps
  BY <1>1, SameWeb DEF HistoryKeeps, history
<1>3. CASE r.got = Refused
  BY <1>2, <1>3, DiesKeeps DEF answered
<1>4. CASE r.got # Refused /\ r.kind = "api"
  <2>1. /\ at'[p] = "ready" /\ request'[p] = None /\ UNCHANGED <<held, merged>> /\ Others(p) /\ MemoryType'
    BY <1>4 DEF answered, SentBy, Go, Over, SignInv, MemoryType, Others, Places
  <2>2. SharedInv'
    BY <1>2, <1>4, SentKeepsShared DEF answered
  <2>3. held[p] # None
    BY <1>1, <1>4 DEF RequestInv
  <2>4. ProcInv(p)'
    BY <1>1, <1>2, <2>1, <2>3 DEF ProcInv, SavesToken, At, Known, Grows
  <2> QED BY <1>1, <1>2, <2>1, <2>2, <2>4, ProcKeeps
<1>5. CASE r.got # Refused /\ r.kind # "api"
  <2> DEFINE t == from_response(p, r.got)
  <2>1. t \in Token /\ t.expires = clock + Lifetime /\ Known(t)
    <3>1. GotToken(request[p])
      BY <1>1, <1>5 DEF GotToken
    <3> HIDE DEF r
    <3> QED BY <1>1, <3>1, FromResponse DEF r
  <2>2. Go(p, "read") /\ Over(p) /\ held' = [held EXCEPT ![p] = t] /\ merged' = merged
    BY <1>5 DEF answered, SentBy
  <2> HIDE DEF t, r
  <2>3. /\ at'[p] = "read" /\ request'[p] = None /\ held'[p] = t /\ merged'[p] = None /\ Others(p)
    BY <1>1, <2>2 DEF Go, Over, SignInv, MemoryType, Others
  <2>4. MemoryType'
    BY <2>1, <2>2 DEF Go, Over, SignInv, MemoryType, Places
  <2>5. SharedInv'
    BY <1>2, <2>2, SentKeepsShared DEF answered
  <2>6. t # None /\ clock' + Margin <= t.expires
    BY <1>1, <2>1, NoneAssumption, SignInAssumption DEF SignInv, SharedInv
  <2>7. ProcInv(p)'
    BY <1>1, <2>1, <2>3, <2>6 DEF ProcInv, SavesToken, At, Known, web
  <2> QED BY <1>1, <1>2, <2>3, <2>4, <2>5, <2>7, ProcKeeps
<1> QED BY <1>3, <1>4, <1>5

(* Told to come back later: another attempt waits, which is not the first. *)
LEMMA RefusedKeeps == ASSUME SignInv, NEW p \in Procs, refused_for_now(p) PROVE SignInv'
<1> DEFINE r == request[p]
<1>1. /\ r \in Request /\ RequestInv(p) /\ clock' = clock /\ ProviderInv' /\ Grows
      /\ SentBy(p) /\ UNCHANGED web
  BY RequestAt, SameWeb DEF refused_for_now, SentBy
<1>2. CASE last_attempt(p)
  BY <1>1, <1>2, DiesKeeps DEF refused_for_now
<1>3. CASE ~last_attempt(p)
  <2>1. PICK d \in delays :
          request' = [request EXCEPT ![p].attempt = @ + 1, ![p].until = clock + d, ![p].got = None]
    BY <1>3 DEF refused_for_now
  <2> DEFINE s == [r EXCEPT !.attempt = @ + 1, !.until = clock + d, !.got = None]
  <2>2. /\ clock \in Nat /\ AttemptTime \in Nat /\ d \in Nat
        /\ r.attempt \in Nat /\ r.attempt < Retries /\ Retries \in Nat
    BY <1>1, <1>3, SignInAssumption DEF SignInv, SharedInv, delays, last_attempt, Request
  <2>3. /\ s.kind = r.kind /\ s.with = r.with /\ s.attempt = r.attempt + 1 /\ s.until = clock + d
        /\ s.got = None
    BY <1>1 DEF Request
  <2>4. s \in Request
    <3> HIDE DEF r
    <3>1. r.attempt + 1 \in 0 .. Retries /\ clock + d \in Nat
      BY <2>2
    <3>2. r \in [kind : {"exchange", "refresh", "api"}, with : Ids, attempt : 0 .. Retries,
                 until : Nat, got : Ids \cup {Refused} \cup {None}]
      BY <1>1 DEF Request, r
    <3> QED BY <3>1, <3>2 DEF Request
  <2>5. request' = [request EXCEPT ![p] = s] /\ UNCHANGED <<at, held>>
    BY <1>3, <2>1 DEF refused_for_now
  <2> HIDE DEF s
  <2>6. request'[p] = s
    BY <2>5 DEF SignInv, MemoryType
  <2>7. RequestInv(p)'
    <3> HIDE DEF r
    <3>1. r.kind # "exchange" => held[p] # None
      BY <1>1 DEF RequestInv, r
    <3>2. r.kind = "api" => r.with \in DOMAIN provider.expires
      BY <1>1 DEF RequestInv, r
    <3>3. clock' <= s.until + AttemptTime /\ s.attempt # 0 /\ ~GotToken(s)
      BY <1>1, <2>2, <2>3, NoneAssumption DEF GotToken
    <3> QED BY <1>1, <2>3, <2>5, <2>6, <3>1, <3>2, <3>3 DEF RequestInv, GotToken, Grows
  <2> QED BY <1>1, <2>4, <2>5, <2>7, GoesOnKeeps
<1> QED BY <1>2, <1>3

LEMMA LostKeeps == ASSUME SignInv, NEW p \in Procs, connection_lost(p) PROVE SignInv'
BY DiesKeeps, SameWeb DEF connection_lost

-----------------------------------------------------------------------------
(* The secrets file: what a command merges into it, and when it replaces it. *)

LEMMA MergesKeeps ==
    ASSUME SignInv, NEW p \in Procs, At(p, "read"), NEW s \in Secrets, s.token # None => Known(s.token),
           merged' = [merged EXCEPT ![p] = s], Go(p, "write"),
           s.token # None \/ (p = "add" /\ ~signed), signed' = signed, overtaken' \in BOOLEAN,
           (p = "add") \/ (overtaken' = overtaken),
           UNCHANGED <<clock, web, account, secrets, listener, queue, held, request>>
    PROVE  SignInv'
<1>1. ProcInv(p) /\ s # None /\ "login" \in Procs
  BY NoneAssumption DEF SignInv, Procs
<1>2. at'[p] = "write" /\ merged'[p] = s /\ Others(p) /\ MemoryType'
  BY DEF Go, SignInv, MemoryType, Others, Places
<1>3. SharedInv'
  BY <1>1 DEF Go, SignInv, MemoryType, SharedInv, web, history, Known
<1>4. ProcInv(p)'
  BY <1>1, <1>2 DEF ProcInv, SavesToken, At, Known, web
<1> QED BY <1>2, <1>3, <1>4, SameWeb, ProcKeeps DEF HistoryKeeps

LEMMA ReadKeeps == ASSUME SignInv, NEW p \in Procs, update_secret_read(p) PROVE SignInv'
<1> DEFINE s == [secrets EXCEPT !.token = held[p]]
<1>1. /\ secrets \in Secrets /\ held[p] \in Token \cup {None}
      /\ held[p] # None => Known(held[p])
      /\ held[p] # None /\ overtaken \in BOOLEAN /\ UNCHANGED <<signed, overtaken>>
  BY DEF SignInv, SharedInv, MemoryType, ProcInv, SavesToken, update_secret_read, history
<1>2. s \in Secrets /\ s.token = held[p]
  BY <1>1 DEF Secrets
<1>3. merged' = [merged EXCEPT ![p] = s]
  BY DEF update_secret_read
<1> HIDE DEF s
<1> QED BY <1>1, <1>2, <1>3, MergesKeeps DEF update_secret_read

LEMMA AddSecretKeeps == ASSUME SignInv, NEW c \in ClientSecrets, add_secret(c) PROVE SignInv'
<1> DEFINE s == [secrets EXCEPT !.client_secret = c]
<1>1. /\ secrets \in Secrets /\ (secrets.token # None => Known(secrets.token)) /\ "add" \in Procs
      /\ (signed => secrets.token # None) /\ signed \in BOOLEAN
  BY DEF SignInv, SharedInv, Procs
<1>2. s \in Secrets /\ s.token = secrets.token
  BY <1>1 DEF Secrets
<1>3. merged' = [merged EXCEPT !["add"] = s]
  BY DEF add_secret, with_client_secret
<1> HIDE DEF s
<1> QED BY <1>1, <1>2, <1>3, MergesKeeps DEF add_secret

LEMMA WriteKeeps == ASSUME SignInv, NEW p \in Procs, write_secret(p) PROVE SignInv'
<1>1. ProcInv(p) /\ At(p, "write") /\ merged[p] \in Secrets /\ merged[p] # None /\ request[p] = None
  BY DEF write_secret, SignInv, MemoryType, ProcInv, At
<1>2. merged' = [merged EXCEPT ![p] = None] /\ secrets' = merged[p]
  BY DEF write_secret
<1>3. /\ merged' \in [Procs -> Secrets \cup {None}] /\ merged'[p] = None
      /\ \A q \in Procs \ {p} : merged'[q] = merged[q]
  BY <1>2 DEF SignInv, MemoryType
<1>7. "add" \notin Runs /\ "login" \notin Runs /\ "add" # "login"
  BY SignInAssumption
<1>8. signed' \in BOOLEAN /\ overtaken' \in BOOLEAN /\ (signed' => merged[p].token # None)
  BY <1>1, <1>7 DEF write_secret, SignInv, SharedInv, ProcInv, SavesToken
<1>9. HistoryKeeps
  BY <1>7 DEF write_secret, HistoryKeeps
<1>4. ASSUME NEW place \in {"request", "idle"}, Go(p, place) PROVE SharedInv'
  <2>1. at'["login"] \in {"wait", "shutdown"} => at["login"] = at'["login"]
    BY <1>4 DEF Go, SignInv, MemoryType, Procs
  <2> QED BY <1>1, <1>2, <1>8, <2>1 DEF write_secret, SignInv, SharedInv, ProcInv, web, Known
<1>5. CASE p \in Runs
  <2>1. Go(p, "request") /\ Post(p, "api", held[p].access) /\ UNCHANGED held
    BY <1>5 DEF write_secret
  <2>2. /\ held[p] # None /\ clock + Margin <= held[p].expires
        /\ held[p] \in Token /\ Known(held[p])
    BY <1>1, <1>5 DEF ProcInv, At, SignInv, MemoryType
  <2>3. /\ held[p].access \in Ids /\ held[p].access \in DOMAIN provider.expires
        /\ clock + Margin <= provider.expires[held[p].access] + AttemptTime
    <3>1. /\ held[p].access \in DOMAIN provider.expires
          /\ held[p].expires <= provider.expires[held[p].access] + AttemptTime
      BY <2>2 DEF Known
    <3>2. held[p].access \in Ids /\ held[p].expires \in Nat
      BY <2>2 DEF Token
    <3>3. AttemptTime \in Nat /\ Margin \in Nat /\ MaxTime \in Nat
      BY SignInAssumption
    <3>4. clock \in Nat
      BY <3>3 DEF SignInv, SharedInv
    <3>5. provider.expires[held[p].access] \in Nat
      BY <3>1 DEF SignInv, ProviderInv
    <3> QED BY <2>2, <3>1, <3>2, <3>3, <3>4, <3>5
  <2> QED BY <1>9, <1>3, <1>4, <2>1, <2>2, <2>3, PostKeeps DEF write_secret
<1>6. CASE p \notin Runs
  <2>1. Go(p, "idle") /\ Forgets(p) /\ UNCHANGED request
    BY <1>6 DEF write_secret
  <2>2. MemoryType' /\ Others(p) /\ request'[p] = None
    BY <1>1, <1>3, <2>1 DEF Go, Forgets, SignInv, MemoryType, Others, Places
  <2> QED BY <1>3, <1>4, <1>9, <2>1, <2>2, SameWeb, ForgetsKeeps DEF write_secret
<1> QED BY <1>5, <1>6

LEMMA AccountsKeeps == SignInv /\ Accounts => SignInv'
<1> SUFFICES ASSUME SignInv, Accounts PROVE SignInv'
  OBVIOUS
<1>1. {"add", "remove", "login"} \subseteq Procs /\ "add" \notin Runs /\ "remove" \notin Runs
  BY SignInAssumption DEF Procs
<1>2. CASE cmd_account_add
  <2>1. SharedInv'
    BY <1>1, <1>2 DEF cmd_account_add, Go, SignInv, MemoryType, SharedInv, web, history, Known
  <2> QED BY <1>1, <1>2, <2>1, GoKeeps DEF cmd_account_add, HistoryKeeps, history
<1>3. CASE cmd_account_remove
  <2>1. SharedInv'
    BY <1>1, <1>3 DEF cmd_account_remove, Go, SignInv, MemoryType, SharedInv, web, history, Known
  <2> QED BY <1>1, <1>3, <2>1, GoKeeps DEF cmd_account_remove, HistoryKeeps, history
<1>4. CASE delete_secret
  <2>1. NoSecrets \in Secrets /\ NoSecrets.token = None
    BY DEF NoSecrets, Secrets
  <2>2. SharedInv'
    BY <1>1, <1>4, <2>1 DEF delete_secret, Go, SignInv, MemoryType, SharedInv, web, history
  <2> QED BY <1>1, <1>4, <2>2, GoKeeps DEF delete_secret, HistoryKeeps, history
<1> QED BY <1>2, <1>3, <1>4, AddSecretKeeps DEF Accounts

-----------------------------------------------------------------------------
(* Time passes only while nobody has anything to do, and no attempt is at  *)
(* its timeout.                                                            *)
LEMMA TickKeeps == SignInv /\ Tick => SignInv'
<1> SUFFICES ASSUME SignInv, Tick PROVE SignInv'
  OBVIOUS
<1>1. clock \in Nat /\ clock' = clock + 1 /\ clock < MaxTime /\ UNCHANGED <<web, at, held, request, merged, history>>
  BY SignInAssumption DEF Tick, SignInv, SharedInv, memory
<1>2. ProviderInv' /\ Grows
  BY <1>1, SameWeb
<1>3. MemoryType'
  BY <1>1 DEF SignInv, MemoryType
<1>4. SharedInv'
  BY <1>1, SignInAssumption DEF Tick, SignInv, SharedInv, Known, web, history
<1>5. ASSUME NEW p \in Procs PROVE ProcInv(p)'
  <2>1. ProcInv(p) /\ Waiting(p)
    BY DEF SignInv, Tick
  <2>2. at[p] \notin {"read", "write"}
    BY <2>1 DEF Waiting, At
  <2>3. ASSUME At(p, "request") PROVE RequestInv(p)'
    <3>1. clock < request[p].until + AttemptTime
      BY <2>1, <2>3 DEF Waiting, At
    <3>2. request[p] \in Request /\ RequestInv(p)
      BY <2>3, RequestAt
    <3>3. request[p].until \in Nat /\ AttemptTime \in Nat /\ MaxTime \in Nat
      BY <3>2, SignInAssumption DEF Request
    <3>4. clock' <= request[p].until + AttemptTime /\ clock # MaxTime
      BY <1>1, <3>1, <3>3
    <3> QED BY <1>1, <3>2, <3>4 DEF RequestInv, GotToken, gives_refresh, web
  <2> QED BY <1>1, <2>1, <2>2, <2>3 DEF ProcInv, SavesToken, At, Known, web
<1> QED BY <1>2, <1>3, <1>4, <1>5 DEF SignInv

LEMMA StepSignIn == SignInv /\ [Next]_vars => SignInv'
<1> SUFFICES ASSUME SignInv, [Next]_vars PROVE SignInv'
  OBVIOUS
<1>1. CASE Listening
  BY <1>1, StartListenerKeeps, AcceptKeeps, DoGetKeeps, WaitKeeps, ExchangeKeeps DEF Listening
<1>2. ASSUME NEW p \in Procs, Requesting(p) \/ Saving(p) \/ Killed(p) PROVE SignInv'
  BY <1>2, ServedKeeps, AnsweredKeeps, RefusedKeeps, LostKeeps, ReadKeeps, WriteKeeps, KilledKeeps DEF Requesting, Saving
<1>3. ASSUME NEW p \in Runs, Running(p) PROVE SignInv'
  BY <1>3, CmdRunKeeps, AuthorizationKeeps, RunEndsKeeps DEF Running
<1>4. CASE UNCHANGED vars
  <2>1. SharedInv'
    BY <1>4 DEF vars, web, history, SignInv, SharedInv, Known
  <2> QED BY <1>4, <2>1, SharedKeeps, SameWeb DEF vars
<1> QED BY <1>1, <1>2, <1>3, <1>4, RedirectKeeps, StrayKeeps, BrowserClosesKeeps, TickKeeps, AccountsKeeps DEF Next

(* What SignInv says of tokens, files and processes holds in every state.  *)
THEOREM SignInSafe == Spec => []SignInv
<1> QED BY InitSignIn, StepSignIn, PTL DEF Spec

(* Every variable keeps its type, and every process has the data its stage *)
(* works on.                                                               *)
THEOREM SignInTypeOK == Spec => []TypeOK
<1>1. SignInv => TypeOK
  <2> SUFFICES ASSUME SignInv PROVE TypeOK
    OBVIOUS
  <2>1. /\ issued \in 0 .. MaxGrants /\ provider.codes \subseteq Ids /\ provider.refresh \subseteq Ids
        /\ DOMAIN provider.expires \subseteq Ids
    BY SignInAssumption DEF SignInv, ProviderInv, Ids
  <2>2. \A i \in DOMAIN queue : queue[i] \in Connection
    BY DEF SignInv, SharedInv
  <2> QED BY <2>1, <2>2 DEF SignInv, SharedInv, MemoryType, ProcInv, TypeOK
<1> QED BY <1>1, SignInSafe, PTL

(* The first attempt of a request reaches the service with an access token *)
(* it accepts, however long the token's own answer and the request are      *)
(* under way: the margin covers two attempts (oauth.py:186, http.py:95).    *)
THEOREM FirstAttemptsAreFresh == Spec => []FirstAttemptIsFresh
<1>1. SignInv => FirstAttemptIsFresh
  <2> SUFFICES ASSUME SignInv, NEW p \in Procs, Sending(p), request[p].kind = "api", request[p].attempt = 0
               PROVE  clock <= provider.expires[request[p].with]
    BY DEF FirstAttemptIsFresh, Accepts
  <2> DEFINE r == request[p]
  <2>1. r \in Request /\ RequestInv(p)
    BY RequestAt DEF Sending
  <2>2. /\ clock <= r.until + AttemptTime /\ r.until + AttemptTime <= provider.expires[r.with]
        /\ provider.expires[r.with] \in Nat
    BY <2>1 DEF RequestInv, SignInv, ProviderInv
  <2>3. r.until \in Nat /\ clock \in Nat /\ AttemptTime \in Nat
    BY <2>1, SignInAssumption DEF Request, SignInv, SharedInv
  <2> HIDE DEF r
  <2> QED BY <2>2, <2>3 DEF r
<1> QED BY <1>1, SignInSafe, PTL

(* With a provider that does not spend refresh tokens, an account that has *)
(* signed in keeps a stored token that can be refreshed, through retries,   *)
(* kills and all the commands' writes, until it is removed or an add that   *)
(* read the file before the login's write replaces it.                     *)
THEOREM TokensStayRefreshable == ~Rotates => (Spec => []StaysSignedIn)
<1> SUFFICES ASSUME ~Rotates PROVE Spec => []StaysSignedIn
  OBVIOUS
<1>1. SignInv => StaysSignedIn
  BY DEF SignInv, SharedInv, Known, StaysSignedIn
<1> QED BY <1>1, SignInSafe, PTL
=============================================================================
