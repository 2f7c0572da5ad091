--------------------------------- MODULE Dav ---------------------------------
(***************************************************************************)
(* The CalDAV client (jornada/webapi/dav.py): requests with redirects, the *)
(* discovery of calendars, and the calls with which a caller keeps a copy  *)
(* of a collection that other clients change at the same time.             *)
(*                                                                         *)
(* A resource is known by its etag; the server stamps every change with    *)
(* the next revision, which serves as etag and as sync token.  The caller  *)
(* follows the docstrings: it pulls with sync_collection and multiget,     *)
(* falls back to list_items, and writes with the etag it has seen.         *)
(***************************************************************************)
EXTENDS Naturals, FiniteSets

CONSTANTS
    Hosts, Secure,   \* scheme and host of a URL; those with https
    Members,         \* the resources the collection may have
    InitThere,       \* the members there may be at the start
    Layouts,         \* what servers say about their resources and where they redirect
    Base,            \* the URL the client was given
    SearchPaths,     \* "" (the base), the well-known paths and "/": an ordering 1 .. n
    MaxRedirects,    \* 5
    MaxCalls, MaxChanges, MaxFaults,
    None

Methods == {"PROPFIND", "REPORT", "GET", "PUT", "DELETE"}
Codes == {301, 302, 303, 307, 308}
Unsafe == {"PUT", "DELETE"}
Safe(url) == url[1] \in Secure
urljoin(url, href) == IF href[1] = None THEN <<url[1], href[2]>> ELSE href

(* Of a layout: `moved' and what PROPFIND says of a URL, as partial functions. *)
IsHref(href) == href[1] \in Hosts \cup {None}
IsLayout(l) ==
    /\ \A u \in DOMAIN l.moved : l.moved[u].code \in Codes /\ IsHref(l.moved[u].to)
    /\ \A u \in DOMAIN l.principal : IsHref(l.principal[u])
    /\ \A u \in DOMAIN l.home : IsHref(l.home[u])
    /\ \A u \in DOMAIN l.calendars : \A c \in l.calendars[u] : IsHref(c)
    /\ \A u \in l.isCalendar : u[1] \in Hosts

ASSUME DavAssumption ==
    /\ Secure \subseteq Hosts /\ InitThere \subseteq SUBSET Members /\ None \notin Hosts \cup Nat
    /\ Base[1] \in Hosts
    /\ \A l \in Layouts : IsLayout(l)
    /\ 1 \in DOMAIN SearchPaths
    /\ \A i \in DOMAIN SearchPaths : i \in Nat \ {0} /\ 1 .. i \subseteq DOMAIN SearchPaths /\ IsHref(SearchPaths[i])
    /\ {MaxRedirects, MaxCalls, MaxChanges, MaxFaults} \subseteq Nat

VARIABLES
    layout,
    rev,         \* the revision of the last change of each member, 0 for never
    there,       \* the members there are
    clock,       \* the last revision given
    call,        \* the request under way, or None
    late,        \* writes the client has given up but the server may still carry out
    find,        \* the discovery: its stage, the path being tried, what was found
    col,         \* the collection in use, or None
    cache,       \* the caller's copy: the etag of each member, 0 for none
    token,       \* the sync token, or None
    todo,        \* what a pull has still to fetch and to drop, and its token
    asOf,        \* the revision the caller takes its copy to reflect
    failed,      \* the discovery's requests that failed: their stage and search path
    calls, changes, faults

serverVars == <<rev, there, clock>>
copyVars == <<cache, token, todo, asOf>>
findVars == <<find, failed, col>>
vars == <<layout, serverVars, call, late, findVars, copyVars, calls, changes, faults>>

Stages == {"principal", "home", "collections", "base", "items", "error"}
Kinds == Stages \cup {"sync", "list", "query", "multiget", "get", "put", "delete"}
NoTodo == [fetch |-> {}, drop |-> {}, token |-> None, asOf |-> 0]

Request(kind, method, url) ==
    [kind |-> kind, method |-> method, url |-> url, sends |-> 1, member |-> None,
     match |-> None, forced |-> FALSE, known |-> 0]
Lookup(stage, url) == Request(stage, "PROPFIND", url)

Init ==
    /\ layout \in Layouts
    /\ there \in InitThere /\ rev = [h \in Members |-> IF h \in there THEN 1 ELSE 0] /\ clock = 1
    /\ call = Lookup("principal", urljoin(Base, SearchPaths[1])) /\ late = {}
    /\ find = [stage |-> "principal", tried |-> 1, home |-> None, result |-> {}]
    /\ failed = {} /\ col = None
    /\ cache = [h \in Members |-> 0] /\ token = None /\ todo = NoTodo /\ asOf = 0
    /\ calls = 0 /\ changes = 0 /\ faults = 0

-----------------------------------------------------------------------------
(* DavClient.request: the next request after a redirect.  With http after https it
   is refused, like one whose method has effects. *)

redirect_target(c, m) ==
    LET target == urljoin(c.url, m.to)
    IN  IF c.method \in Unsafe /\ m.code \in {301, 302, 303} THEN None
        ELSE IF Safe(c.url) /\ ~Safe(target) THEN None
        ELSE target

Redirected == call # None /\ call.url \in DOMAIN layout.moved
Location == layout.moved[call.url]
follows == redirect_target(call, Location) # None /\ call.sends <= MaxRedirects
(* Mutant: the headers of the call are not sent again. *)
Hop_NoHeaders(c, target) == [c EXCEPT !.url = target, !.sends = @ + 1, !.match = None]
(* Mutant: redirects are not counted. *)
Hop_Uncounted(c, target) == [c EXCEPT !.url = target]
Hop(c, target) == [c EXCEPT !.url = target, !.sends = @ + 1]
Follow ==
    /\ Redirected /\ follows
    /\ call' = Hop(call, redirect_target(call, Location))
    /\ UNCHANGED <<layout, serverVars, late, findVars, copyVars, calls, changes, faults>>

Called(kinds) == call # None /\ call.kind \in kinds
Fault == faults < MaxFaults /\ faults' = faults + 1
(* A request that ends in a DavError: redirects that lead nowhere, a status that is
   not expected, a connection that breaks or times out. *)
Errs == IF Redirected THEN ~follows /\ UNCHANGED faults ELSE Fault
Answered(kinds) == Called(kinds) /\ ~Redirected /\ UNCHANGED faults

-----------------------------------------------------------------------------
(* Discovery: discover_principal, _find_home, _collections_in, _base_as_collection *)

Says(f, url) == IF url \in DOMAIN f THEN f[url] ELSE None
Discovering(stage, request) == find' = [find EXCEPT !.stage = stage] /\ call' = request /\ UNCHANGED col
AskBase == Discovering("base", Lookup("base", Base))
Ends(stage, result) ==
    /\ find' = [find EXCEPT !.stage = stage, !.result = result]
    /\ call' = None
    /\ IF result = {} THEN UNCHANGED col ELSE col' \in result

(* Mutant: the search stops at the first path that fails. *)
TryNext_GivesUp == AskBase
TryNext ==
    IF find.tried + 1 \in DOMAIN SearchPaths
      THEN /\ find' = [find EXCEPT !.tried = @ + 1]
           /\ call' = Lookup("principal", urljoin(Base, SearchPaths[find.tried + 1]))
           /\ UNCHANGED col
      ELSE AskBase

discover_principal ==
    /\ Called({"principal"})
    /\ \/ Errs /\ failed' = failed \cup {<<"principal", find.tried>>} /\ TryNext
       \/ /\ Answered({"principal"}) /\ UNCHANGED failed
          /\ LET href == Says(layout.principal, call.url)
             IN  IF href = None THEN TryNext
                 ELSE Discovering("home", Lookup("home", urljoin(call.url, href)))
    /\ UNCHANGED <<layout, serverVars, late, copyVars, calls, changes>>

find_home ==
    /\ Called({"home"})
    /\ \/ Errs /\ failed' = failed \cup {<<"home", 1>>} /\ AskBase
       \/ /\ Answered({"home"}) /\ UNCHANGED failed
          /\ LET href == Says(layout.home, call.url)
                 home == urljoin(call.url, href)
             IN  IF href = None THEN AskBase
                 ELSE /\ find' = [find EXCEPT !.stage = "collections", !.home = home]
                      /\ call' = Lookup("collections", home) /\ UNCHANGED col
    /\ UNCHANGED <<layout, serverVars, late, copyVars, calls, changes>>

collections_in ==
    /\ Called({"collections"})
    /\ \/ Errs /\ failed' = failed \cup {<<"collections", 1>>} /\ Ends("error", {})
       \/ /\ Answered({"collections"}) /\ UNCHANGED failed
          /\ LET listed == IF call.url \in DOMAIN layout.calendars THEN layout.calendars[call.url] ELSE {}
                 found == {urljoin(call.url, href) : href \in listed}
             IN  IF found # {} THEN Ends("items", found) ELSE AskBase
    /\ UNCHANGED <<layout, serverVars, late, copyVars, calls, changes>>

base_as_collection ==
    /\ Called({"base"})
    /\ LET nothing == Ends(IF find.home = None THEN "error" ELSE "items", {}) IN
       \/ Errs /\ failed' = failed \cup {<<"base", 1>>} /\ nothing
       \/ /\ Answered({"base"}) /\ UNCHANGED failed
          /\ IF call.url \in layout.isCalendar THEN Ends("items", {call.url}) ELSE nothing
    /\ UNCHANGED <<layout, serverVars, late, copyVars, calls, changes>>

-----------------------------------------------------------------------------
(* The collection.  The caller starts its next call when the last one has ended. *)

Etags == [h \in Members |-> IF h \in there THEN rev[h] ELSE 0]
Idle == col # None /\ call = None
Starts(c) == Idle /\ calls < MaxCalls /\ calls' = calls + 1 /\ call' = c
Quiet == UNCHANGED <<layout, serverVars, late, findVars, changes>>

Pull(kind) ==
    /\ IF kind = "sync" THEN token # None \/ \A h \in Members : cache[h] = 0
                        ELSE token = None
    /\ Starts(Request(kind, IF kind = "list" THEN "PROPFIND" ELSE "REPORT", col))
    /\ todo' = NoTodo
    /\ Quiet /\ UNCHANGED <<cache, token, asOf, faults>>

(* Fetching nothing sends nothing: the multiget functions return at once. *)
Copied(todo1, fetched) ==
    /\ cache' = [h \in Members |-> IF h \in todo1.drop THEN 0
                                   ELSE IF h \in fetched THEN Etags[h] ELSE cache[h]]
    /\ token' = todo1.token /\ asOf' = todo1.asOf /\ todo' = NoTodo /\ call' = None
Fetches(todo1) ==
    IF todo1.fetch = {} THEN Copied(todo1, {})
    ELSE /\ todo' = todo1 /\ call' = Request("multiget", "REPORT", col)
         /\ UNCHANGED <<cache, token, asOf>>

(* The members a sync report names, up to a revision; a server may cut it short with
   a 507 entry for the collection itself, which the client drops with the path. *)
Reported(upto) ==
    {h \in Members : rev[h] <= upto /\ IF token = None THEN h \in there ELSE rev[h] > token}
Status(h) == IF h \in there THEN 200 ELSE 404
(* Mutant: members that are gone are taken for changed ones. *)
deleted_None(responses) == {}
deleted(responses) == {h \in responses : Status(h) = 404}

sync_collection ==
    /\ Called({"sync"})
    /\ \/ /\ Errs  \* the caller falls back to list_items
          /\ call' = Request("list", "PROPFIND", col) /\ token' = None
          /\ UNCHANGED <<cache, todo, asOf>>
       \/ /\ Answered({"sync"})
          /\ \E upto \in {clock} \cup {rev[h] : h \in Members} :
               /\ token # None => upto >= token
               /\ upto > 0
               /\ LET gone == deleted(Reported(upto))
                  IN  Fetches([fetch |-> Reported(upto) \ gone, drop |-> gone, token |-> upto, asOf |-> upto])
    /\ Quiet /\ UNCHANGED calls

list_items ==
    /\ Called({"list"})
    /\ \/ Errs /\ call' = None /\ UNCHANGED copyVars
       \/ /\ Answered({"list"})
          /\ Fetches([fetch |-> {h \in there : Etags[h] # cache[h]}, drop |-> Members \ there,
                      token |-> None, asOf |-> clock])
    /\ Quiet /\ UNCHANGED calls

(* calendar_query: every item with its data *)
calendar_query ==
    /\ Called({"query"})
    /\ \/ Errs /\ call' = None /\ UNCHANGED copyVars
       \/ /\ Answered({"query"}) /\ Copied([NoTodo EXCEPT !.drop = Members \ there, !.asOf = clock], there)
    /\ Quiet /\ UNCHANGED calls

(* Items the server has no more come with status 404 and are left out; a pull that
   fails here keeps the old token. *)
calendar_multiget ==
    /\ Called({"multiget"})
    /\ \/ Errs /\ call' = None /\ todo' = NoTodo /\ UNCHANGED <<cache, token, asOf>>
       \/ Answered({"multiget"}) /\ Copied(todo, todo.fetch \cap there)
    /\ Quiet /\ UNCHANGED calls

StartGet(h) ==
    /\ Starts([Request("get", "GET", col) EXCEPT !.member = h])
    /\ Quiet /\ UNCHANGED <<copyVars, faults>>
get ==
    /\ Called({"get"})
    /\ call' = None
    /\ \/ Errs /\ UNCHANGED cache
       \/ Answered({"get"}) /\ cache' = [cache EXCEPT ![call.member] = Etags[call.member]]
    /\ Quiet /\ UNCHANGED <<token, todo, asOf, calls>>

-----------------------------------------------------------------------------
(* put with If-Match, with If-None-Match: *, or with neither; delete with If-Match *)

Absent == 0
StartWrite(kind, h, forced) ==
    /\ kind = "delete" => cache[h] # Absent /\ ~forced
    /\ Starts([Request(kind, IF kind = "put" THEN "PUT" ELSE "DELETE", col) EXCEPT
                 !.member = h, !.match = IF forced THEN None ELSE cache[h],
                 !.forced = forced, !.known = cache[h]])
    /\ Quiet /\ UNCHANGED <<copyVars, faults>>

(* The server carries a write out when its condition holds. *)
Holds(c) == c.match = None \/ c.match = Etags[c.member]
Carried(c) ==
    /\ clock' = clock + 1 /\ rev' = [rev EXCEPT ![c.member] = clock + 1]
    /\ there' = IF c.kind = "put" THEN there \cup {c.member} ELSE there \ {c.member}

(* Refused with 412, or lost on the way: an error to the caller. *)
WriteFails ==
    /\ Called({"put", "delete"})
    /\ call' = None
    /\ \/ Redirected /\ Errs /\ UNCHANGED late
       \/ Answered({"put", "delete"}) /\ ~Holds(call) /\ UNCHANGED late
       \/ ~Redirected /\ Fault /\ late' \in {late, late \cup {call}}
    /\ UNCHANGED <<layout, serverVars, findVars, copyVars, calls, changes>>

(* Carried out: a 2xx with or without an ETag, an answer that is lost, or a redirect
   to see the result elsewhere. *)
WriteWorks ==
    /\ Called({"put", "delete"}) /\ ~Redirected /\ Holds(call)
    /\ Carried(call)
    /\ LET h == call.member
           new == IF call.kind = "put" THEN clock + 1 ELSE 0
           see_other == redirect_target(call, [code |-> 303, to |-> col])
       IN  \/ call' = None /\ cache' = [cache EXCEPT ![h] = new] /\ UNCHANGED faults
           \/ call' = None /\ call.kind = "put" /\ UNCHANGED <<cache, faults>>
           \/ call' = None /\ Fault /\ UNCHANGED cache
           \/ /\ call' = IF see_other = None THEN None ELSE [call EXCEPT !.url = see_other]
              /\ UNCHANGED <<cache, faults>>
    /\ UNCHANGED <<layout, late, findVars, token, todo, asOf, calls, changes>>

WriteLate(c) ==
    /\ c \in late /\ late' = late \ {c}
    /\ IF Holds(c) THEN Carried(c) ELSE UNCHANGED serverVars
    /\ UNCHANGED <<layout, call, findVars, copyVars, calls, changes, faults>>

OtherClient(h) ==
    /\ col # None /\ changes < MaxChanges /\ changes' = changes + 1
    /\ clock' = clock + 1 /\ rev' = [rev EXCEPT ![h] = clock + 1]
    /\ there' \in (IF h \in there THEN {there, there \ {h}} ELSE {there \cup {h}})
    /\ UNCHANGED <<layout, call, late, findVars, copyVars, calls, faults>>

ClientStep ==
    \/ Follow \/ discover_principal \/ find_home \/ collections_in \/ base_as_collection
    \/ sync_collection \/ list_items \/ calendar_query \/ calendar_multiget \/ get
    \/ WriteFails \/ WriteWorks
Caller ==
    \/ \E k \in {"sync", "list", "query"} : Pull(k)
    \/ \E h \in Members : StartGet(h) \/ \E k \in {"put", "delete"}, f \in BOOLEAN : StartWrite(k, h, f)
Environment == (\E c \in late : WriteLate(c)) \/ \E h \in Members : OtherClient(h)
Next == ClientStep \/ Caller \/ Environment
(* The transport answers every request or gives it up after its timeout. *)
Spec == Init /\ [][Next]_vars /\ WF_vars(ClientStep)

-----------------------------------------------------------------------------
TypeOK ==
    /\ layout \in Layouts /\ there \subseteq Members
    /\ rev \in [Members -> 0 .. clock] /\ cache \in [Members -> 0 .. clock]
    /\ call # None => /\ call.kind \in Kinds /\ call.method \in Methods /\ call.url[1] \in Hosts
                      /\ call.sends \in 1 .. MaxRedirects + 1
    /\ \A c \in late : c.kind \in {"put", "delete"} /\ c.member \in Members
    /\ find.stage \in Stages /\ find.tried \in DOMAIN SearchPaths
    /\ token \in {None} \cup 1 .. clock /\ asOf \in 0 .. clock
    /\ {todo.fetch, todo.drop} \subseteq SUBSET Members

(* What a pull takes its copy to reflect it does reflect: a member that has not
   changed since is in the copy with its etag, or in neither.  So nothing the server
   reports before a token is missed after it, though the collection changes between
   the report and the multiget, pulls break off in between, the server cuts a report
   short, and the caller writes (dav.py:637-662, 701-707). *)
CacheIsAsOf == \A h \in Members : rev[h] <= asOf => cache[h] = Etags[h]

(* A write of the client replaces another version only if the caller had seen it, or
   asked for an unconditional write: also after redirects, and when the request
   arrives after the client has given it up (dav.py:305-327). *)
NoBlindOverwrite ==
    [][\A h \in Members :
        rev'[h] # rev[h] /\ h \in there /\ changes' = changes
        => \E c \in late \cup {call} : c # None /\ c.member = h /\ (c.forced \/ c.known = rev[h])]_vars

(* Every call comes to an end, and with the first one the discovery: redirects
   that go in circles, paths that fail or lead nowhere, a sync that falls back to
   a listing and the fetches that follow keep no caller waiting for ever
   (dav.py:257-263, 500-562). *)
EveryCallEnds == call # None ~> call = None

(* Where a request to a URL ends: at one URL, or nowhere if the redirects lead on
   for too long or where the client does not follow. *)
Onward(url) ==
    IF url \in DOMAIN layout.moved
    THEN {redirect_target([method |-> "PROPFIND", url |-> url], layout.moved[url])} \ {None}
    ELSE {url}
Trail(url) ==
    LET after[n \in 0 .. MaxRedirects] == IF n = 0 THEN {url} ELSE UNION {Onward(u) : u \in after[n - 1]}
    IN  after
Lands(url) == Trail(url)[MaxRedirects] \ DOMAIN layout.moved
Told(f, url) == {urljoin(u, f[u]) : u \in {v \in Lands(url) : Says(f, v) # None}}

(* What a discovery without any failure but on the search paths is to find. *)
SearchUrl(i) == urljoin(Base, SearchPaths[i])
Leads == {i \in DOMAIN SearchPaths : <<"principal", i>> \notin failed /\ Told(layout.principal, SearchUrl(i)) # {}}
First == CHOOSE i \in Leads : \A j \in Leads : i <= j
Homes == UNION {Told(layout.home, principal) : principal \in Told(layout.principal, SearchUrl(First))}
Lists == (UNION {Lands(home) : home \in Homes}) \cap DOMAIN layout.calendars
Calendars == UNION {{urljoin(list, href) : href \in layout.calendars[list]} : list \in Lists}
OnlyPathsFailed == failed \subseteq {<<"principal", i>> : i \in DOMAIN SearchPaths}

(* The discovery finds exactly the calendars of the home set, or the base URL when
   there are none and it is itself a calendar, if only one of the search paths leads
   to the principal and no request after that one fails, whatever happens on the
   other paths (dav.py:501, 517). *)
DiscoveryIsComplete ==
    find.stage \in {"items", "error"} /\ OnlyPathsFailed /\ Leads # {} /\ Lists # {}
    => find.result = IF Calendars # {} THEN Calendars ELSE Lands(Base) \cap layout.isCalendar
=============================================================================
