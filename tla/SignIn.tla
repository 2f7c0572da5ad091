------------------------------- MODULE SignIn -------------------------------
(***************************************************************************)
(* Signing in to a web service and staying signed in: the one-shot listener *)
(* and token requests of webapi/oauth.py, the Authorization provider of     *)
(* webapi/oauth_accounts.py, the retries of webapi/http.py, the secrets     *)
(* file of sync/accounts.py and the commands of sync_cli.py around them.    *)
(*                                                                         *)
(* One account.  Commands are processes that share the secrets file and    *)
(* the provider, and nothing else: there is no lock.  Tokens and codes are *)
(* numbers the provider hands out; a unit of time is what an attempt of a   *)
(* request may take, and the longest sleep before the next (30 s each).     *)
(* Reading and writing the secrets file takes no time against it.           *)
(***************************************************************************)
EXTENDS Naturals, Sequences

CONSTANTS
    Runs,       \* the sync runs there may be at once
    Lifetime,   \* how long an access token is good for
    Margin,     \* ensure_fresh: a token is replaced when it has less than this left
    Retries, MaxDelay,  \* _send_with_retries
    AttemptTime,        \* urllib_transport: the longest an attempt is under way
    Timeout,    \* how long login waits for the browser
    Rotates,    \* the provider spends a refresh token when it is used
    ClientSecrets, None,
    MaxTime, MaxGrants, MaxFaults,
    MaxEvents   \* commands given, connections made, requests of a run

Procs == Runs \cup {"login", "add", "remove"}
ASSUME SignInAssumption ==
    /\ Runs \cap {"login", "add", "remove"} = {} /\ Rotates \in BOOLEAN
    /\ {Lifetime, Margin, Retries, MaxDelay, AttemptTime, Timeout} \subseteq Nat
    /\ {MaxTime, MaxGrants, MaxEvents, MaxFaults} \subseteq Nat
    /\ 2 * AttemptTime <= Margin /\ Margin <= Lifetime  \* twice 30 s, 60 s, an hour

VARIABLES
    clock,
    provider,   \* the codes and refresh tokens it accepts, until when each access token is good
    issued,     \* how many it has handed out
    account,    \* the account is in accounts.json
    secrets,    \* its secrets file
    listener,   \* the redirect listener with what it captured, or None
    queue,      \* connections to it that are not accepted yet
    at,         \* where each process is
    held,       \* the token each process has in memory
    request,    \* the HTTP request under way, with the attempts made
    merged,     \* the secrets about to be written
    signed,     \* history: a login was saved, and no removal or lost update has undone it
    overtaken,  \* history: a login was saved since add read the file
    events, faults

history == <<signed, overtaken>>
memory == <<held, request, merged>>
web == <<provider, issued>>
bounds == <<events, faults>>
vars == <<clock, web, account, secrets, listener, queue, at, memory, history, bounds>>

Ids == 1 .. MaxGrants
Token == [access : Ids, refresh : Ids \cup {None}, expires : Nat]
Secrets == [token : Token \cup {None}, client_secret : ClientSecrets \cup {None}]
NoSecrets == [token |-> None, client_secret |-> None]  \* also: no such file
Connection == [kind : {"redirect", "stray", "idle"}, code : Ids \cup {None}]
Listener == [code : Ids \cup {None}, error : BOOLEAN, done : BOOLEAN,
             given_up : BOOLEAN, deadline : Nat, busy : Connection \cup {None}]
Refused == 0
Request == [kind : {"exchange", "refresh", "api"}, with : Ids, attempt : 0 .. Retries,
            until : Nat,                          \* when this attempt is sent
            got : Ids \cup {Refused} \cup {None}]  \* the answer under way, once the provider gave it
Places == {"idle", "wait", "shutdown", "ready", "request", "read", "write", "delete"}
ASSUME NoneAssumption ==
    None \notin Ids \cup Token \cup Secrets \cup Connection \cup Listener \cup Request

Due(t) == clock >= t \/ clock = MaxTime  \* bound: the last instant is as late as any
(* Mutant: a token is good to the end. *)
expires_within_NoMargin(t, margin) == t.expires < clock
expires_within(t, margin) == t.expires < clock + margin

Init ==
    /\ clock = 0
    /\ provider = [codes |-> {}, refresh |-> {}, expires |-> <<>>] /\ issued = 0
    /\ account = TRUE /\ secrets = NoSecrets  \* just added
    /\ listener = None /\ queue = <<>>
    /\ at = [p \in Procs |-> "idle"]
    /\ held = [p \in Procs |-> None] /\ request = [p \in Procs |-> None] /\ merged = [p \in Procs |-> None]
    /\ signed = FALSE /\ overtaken = FALSE
    /\ events = 0 /\ faults = 0

At(p, place) == at[p] = place
Go(p, place) == at' = [at EXCEPT ![p] = place]
Fault == faults < MaxFaults /\ faults' = faults + 1 /\ UNCHANGED events
Event == events < MaxEvents /\ events' = events + 1 /\ UNCHANGED faults

-----------------------------------------------------------------------------
(* login: the listener *)

start_listener ==
    /\ At("login", "idle") /\ account /\ Event
    /\ listener' = [code |-> None, error |-> FALSE, done |-> FALSE, given_up |-> FALSE,
                    deadline |-> clock + Timeout, busy |-> None]
    /\ Go("login", "wait")
    /\ UNCHANGED <<clock, web, account, secrets, queue, memory, history>>

Connects(c) ==
    /\ listener # None /\ Event
    /\ queue' = Append(queue, c)
    /\ UNCHANGED <<clock, account, secrets, listener, at, memory, history>>
(* The user signs in or declines; the browser asks for an icon, or opens a
   connection in advance and sends nothing on it. *)
Redirect ==
    \/ /\ issued < MaxGrants /\ issued' = issued + 1
       /\ provider' = [provider EXCEPT !.codes = @ \cup {issued'}]
       /\ Connects([kind |-> "redirect", code |-> issued'])
    \/ Connects([kind |-> "redirect", code |-> None]) /\ UNCHANGED web
Stray == \E kind \in {"stray", "idle"} : Connects([kind |-> kind, code |-> None]) /\ UNCHANGED web

(* The server has one thread, and shutdown waits for the request it is at. *)
accept ==
    /\ At("login", "wait") /\ listener.busy = None /\ queue # <<>>
    /\ listener' = [listener EXCEPT !.busy = Head(queue)] /\ queue' = Tail(queue)
    /\ UNCHANGED <<clock, web, account, secrets, at, memory, bounds, history>>

captured(l, c) ==  \* a request without the state, a refusal, a code
    IF c.kind = "redirect" /\ c.code # None THEN [l EXCEPT !.code = c.code] ELSE [l EXCEPT !.error = TRUE]
do_GET ==
    /\ listener # None /\ listener.busy # None /\ listener.busy.kind # "idle"
    /\ listener' = [captured(listener, listener.busy) EXCEPT !.done = TRUE, !.busy = None]
    /\ UNCHANGED <<clock, web, account, secrets, queue, at, memory, bounds, history>>
BrowserCloses ==
    /\ listener # None /\ listener.busy # None /\ listener.busy.kind = "idle"
    /\ listener' = [listener EXCEPT !.busy = None]
    /\ UNCHANGED <<clock, web, account, secrets, queue, at, memory, bounds, history>>

(* Mutant: done.wait without a timeout. *)
wait_over_Never == listener.done
wait_over == listener.done \/ Due(listener.deadline)
wait_for_code ==
    /\ At("login", "wait") /\ wait_over
    /\ listener' = [listener EXCEPT !.given_up = ~listener.done] /\ Go("login", "shutdown")
    /\ UNCHANGED <<clock, web, account, secrets, queue, memory, bounds, history>>

Post(p, kind, id) == request' = [request EXCEPT ![p] =
    [kind |-> kind, with |-> id, attempt |-> 0, until |-> clock, got |-> None]]
exchange_code ==
    /\ At("login", "shutdown") /\ listener.busy = None
    /\ listener' = None /\ queue' = <<>>
    /\ IF listener.given_up \/ listener.error \/ listener.code = None
         THEN Go("login", "idle") /\ UNCHANGED request
         ELSE Go("login", "request") /\ Post("login", "exchange", listener.code)
    /\ UNCHANGED <<clock, web, account, secrets, held, merged, bounds, history>>

-----------------------------------------------------------------------------
(* One attempt of a request: sent, served by the provider, answered *)

(* Bound: a provider that has run out of numbers refuses. *)
Accepts(r) == CASE r.kind = "exchange" -> r.with \in provider.codes /\ issued < MaxGrants
                [] r.kind = "refresh" -> r.with \in provider.refresh /\ issued < MaxGrants
                [] r.kind = "api" -> clock <= provider.expires[r.with]
gives_refresh(r) == r.kind = "exchange" \/ Rotates

(* What the request does at the provider. *)
Takes(r) ==
    IF ~Accepts(r) \/ r.kind = "api" THEN UNCHANGED web
    ELSE /\ issued' = issued + 1
         /\ provider' = [codes |-> IF r.kind = "exchange" THEN provider.codes \ {r.with} ELSE provider.codes,
                         refresh |-> (IF gives_refresh(r) THEN provider.refresh \cup {issued'} ELSE provider.refresh)
                                       \ (IF Rotates /\ r.kind = "refresh" THEN {r.with} ELSE {}),
                         expires |-> [i \in DOMAIN provider.expires \cup {issued'} |->
                                        IF i = issued' THEN clock + Lifetime ELSE provider.expires[i]]]

(* Mutant: only what the answer brings is kept. *)
previous_refresh_Dropped(p) == None
previous_refresh(p) == IF held[p] = None THEN None ELSE held[p].refresh
(* The client counts the lifetime from the instant the answer arrives. *)
from_response(p, id) ==
    [access |-> id, refresh |-> IF gives_refresh(request[p]) THEN id ELSE previous_refresh(p),
     expires |-> clock + Lifetime]

Sending(p) == At(p, "request") /\ Due(request[p].until) /\ request[p].got = None
SentBy(p) == /\ At(p, "request") /\ Due(request[p].until)
             /\ UNCHANGED <<clock, account, secrets, listener, queue, merged, history>>
Over(p) == request' = [request EXCEPT ![p] = None]
Forgets(p) == held' = [held EXCEPT ![p] = None]
Dies(p) == Go(p, "idle") /\ Over(p) /\ Forgets(p)

Answer(r) == IF ~Accepts(r) THEN Refused ELSE IF r.kind = "api" THEN r.with ELSE issued'
served(p) ==
    /\ SentBy(p) /\ Sending(p)
    /\ Takes(request[p])
    /\ request' = [request EXCEPT ![p].got = Answer(request[p])]
    /\ UNCHANGED <<at, held, bounds>>

answered(p) ==
    /\ SentBy(p) /\ request[p].got # None
    /\ IF request[p].got = Refused THEN Dies(p)
       ELSE /\ Over(p)
            /\ IF request[p].kind = "api" THEN Go(p, "ready") /\ UNCHANGED held
               ELSE Go(p, "read") /\ held' = [held EXCEPT ![p] = from_response(p, request[p].got)]
    /\ UNCHANGED <<web, bounds>>

last_attempt(p) == request[p].attempt >= Retries
delays == 0 .. MaxDelay  \* min(delay, 30.0)
refused_for_now(p) ==  \* 429 or 5xx, from the service or from something before it, served or not
    /\ SentBy(p) /\ Fault
    /\ IF last_attempt(p) THEN Dies(p)
       ELSE /\ \E d \in delays :
                 request' = [request EXCEPT ![p].attempt = @ + 1, ![p].until = clock + d, ![p].got = None]
            /\ UNCHANGED <<at, held>>
    /\ UNCHANGED web
connection_lost(p) ==  \* HttpError(0), served or not: no retry
    /\ SentBy(p) /\ Fault
    /\ Dies(p)
    /\ UNCHANGED web

-----------------------------------------------------------------------------
(* A sync run, which asks the service as often as it likes *)

cmd_run(p) ==
    /\ At(p, "idle") /\ account /\ secrets.token # None /\ Event
    /\ held' = [held EXCEPT ![p] = secrets.token] /\ Go(p, "ready")
    /\ UNCHANGED <<clock, web, account, secrets, listener, queue, request, merged, history>>

ensure_fresh(p) ==
    IF expires_within(held[p], Margin)
      THEN IF held[p].refresh = None THEN Go(p, "idle") /\ Forgets(p) /\ UNCHANGED request
           ELSE Go(p, "request") /\ Post(p, "refresh", held[p].refresh) /\ UNCHANGED held
      ELSE Go(p, "request") /\ Post(p, "api", held[p].access) /\ UNCHANGED held
authorization(p) ==
    /\ At(p, "ready") /\ Event
    /\ ensure_fresh(p)
    /\ UNCHANGED <<clock, web, account, secrets, listener, queue, merged, history>>
run_ends(p) ==
    /\ At(p, "ready") /\ Go(p, "idle") /\ Forgets(p)
    /\ UNCHANGED <<clock, web, account, secrets, listener, queue, request, merged, bounds, history>>

-----------------------------------------------------------------------------
(* update_secret: read, merge, replace the file *)

update_secret_read(p) ==
    /\ At(p, "read") /\ p # "add"
    /\ merged' = [merged EXCEPT ![p] = [secrets EXCEPT !.token = held[p]]] /\ Go(p, "write")
    /\ UNCHANGED <<clock, web, account, secrets, listener, queue, held, request, bounds, history>>
write_secret(p) ==
    /\ At(p, "write")
    /\ secrets' = merged[p] /\ merged' = [merged EXCEPT ![p] = None]
    /\ IF p \in Runs THEN Go(p, "request") /\ Post(p, "api", held[p].access) /\ UNCHANGED held
       ELSE Go(p, "idle") /\ Forgets(p) /\ UNCHANGED request
    /\ signed' = (p = "login" \/ (signed /\ ~(p = "add" /\ overtaken)))  \* add's copy replaces the login's
    /\ overtaken' = (overtaken \/ p = "login")
    /\ UNCHANGED <<clock, web, account, listener, queue, bounds>>

(* cmd_account_add saves the account, then merges the secrets given with it. *)
cmd_account_add ==
    /\ At("add", "idle") /\ Event
    /\ account' = TRUE /\ Go("add", "read")
    /\ UNCHANGED <<clock, web, secrets, listener, queue, memory, history>>
with_client_secret(s) == [secrets EXCEPT !.client_secret = s]
add_secret(s) ==
    /\ At("add", "read")
    /\ merged' = [merged EXCEPT !["add"] = with_client_secret(s)] /\ Go("add", "write")
    /\ overtaken' = FALSE /\ UNCHANGED signed
    /\ UNCHANGED <<clock, web, account, secrets, listener, queue, held, request, bounds>>

cmd_account_remove ==
    /\ At("remove", "idle") /\ account /\ Event
    /\ account' = FALSE /\ Go("remove", "delete")
    /\ UNCHANGED <<clock, web, secrets, listener, queue, memory, history>>
delete_secret ==
    /\ At("remove", "delete") /\ secrets' = NoSecrets /\ Go("remove", "idle")
    /\ signed' = FALSE /\ UNCHANGED overtaken
    /\ UNCHANGED <<clock, web, account, listener, queue, memory, bounds>>

-----------------------------------------------------------------------------
Killed(p) ==
    /\ ~At(p, "idle") /\ Fault /\ Go(p, "idle")
    /\ IF p = "login" THEN listener' = None /\ queue' = <<>> ELSE UNCHANGED <<listener, queue>>
    /\ request' = [request EXCEPT ![p] = None] /\ merged' = [merged EXCEPT ![p] = None]
    /\ Forgets(p)
    /\ UNCHANGED <<clock, web, account, secrets, history>>

Waiting(p) == \/ At(p, "idle")
              \/ At(p, "request") /\ clock < request[p].until + AttemptTime  \* asleep, or the attempt under way
              \/ p = "login" /\ At(p, "wait") /\ ~wait_over
              \/ p = "login" /\ At(p, "shutdown") /\ listener.busy # None /\ listener.busy.kind = "idle"
              \/ p \in Runs /\ At(p, "ready")  \* the work between two requests takes time
Tick == /\ clock < MaxTime /\ clock' = clock + 1 /\ \A p \in Procs : Waiting(p)
        /\ UNCHANGED <<web, account, secrets, listener, queue, at, memory, history, bounds>>

Listening == start_listener \/ accept \/ do_GET \/ wait_for_code \/ exchange_code
Requesting(p) == served(p) \/ answered(p) \/ refused_for_now(p) \/ connection_lost(p)
Running(p) == cmd_run(p) \/ authorization(p) \/ run_ends(p)
Accounts == cmd_account_add \/ (\E s \in ClientSecrets : add_secret(s)) \/ cmd_account_remove \/ delete_secret
Saving(p) == update_secret_read(p) \/ write_secret(p)
Next == \/ Redirect \/ Stray \/ BrowserCloses \/ Tick \/ Listening \/ Accounts
        \/ \E p \in Procs : Requesting(p) \/ Saving(p) \/ Killed(p)
        \/ \E p \in Runs : Running(p)

(* Each process is scheduled, timers go off, and the browser closes idle
   connections some time. *)
Fairness ==
    /\ WF_vars(Tick) /\ WF_vars(BrowserCloses)
    /\ WF_vars(do_GET) /\ WF_vars(wait_for_code) /\ WF_vars(exchange_code)
    /\ \A p \in Procs : /\ WF_vars(served(p)) /\ WF_vars(answered(p))
                        /\ WF_vars(update_secret_read(p)) /\ WF_vars(write_secret(p))
    /\ \A p \in Runs : WF_vars(authorization(p) \/ run_ends(p))
    /\ WF_vars(\E s \in ClientSecrets : add_secret(s)) /\ WF_vars(delete_secret)
Spec == Init /\ [][Next]_vars /\ Fairness

-----------------------------------------------------------------------------
TypeOK ==
    /\ clock \in 0 .. MaxTime /\ issued \in 0 .. MaxGrants
    /\ {provider.codes, provider.refresh, DOMAIN provider.expires} \subseteq SUBSET Ids
    /\ {account, signed, overtaken} \subseteq BOOLEAN /\ secrets \in Secrets
    /\ listener \in Listener \cup {None} /\ \A i \in DOMAIN queue : queue[i] \in Connection
    /\ at \in [Procs -> Places]
    /\ \A p \in Procs : /\ held[p] \in Token \cup {None} /\ request[p] \in Request \cup {None}
                        /\ merged[p] \in Secrets \cup {None} /\ (At(p, "write") <=> merged[p] # None)
                        /\ At(p, "request") <=> request[p] # None

(* The first attempt of a request reaches the service with an access token it
   still accepts: what ensure_fresh leaves a token (oauth.py:186, margin=60)
   covers both the time the token's own answer was under way, which the client
   takes for lifetime, and the time the request is (http.py:95, 30 s each). *)
FirstAttemptIsFresh ==
    \A p \in Procs : Sending(p) /\ request[p].kind = "api" /\ request[p].attempt = 0 => Accepts(request[p])

(* An account that has signed in stays so, with a token that can be refreshed,
   through refreshes, retries, kills and whatever other commands write; only a
   removal, or an add that read the file before the login wrote it
   (accounts.py:140-143), signs it out. *)
StaysSignedIn ==
    signed => secrets.token # None /\ secrets.token.refresh \in provider.refresh

(* Every command ends, whatever the browser sends or leaves unsent and whatever
   the service answers. *)
EveryCommandEnds == \A p \in Procs : ~At(p, "idle") ~> At(p, "idle")
=============================================================================
