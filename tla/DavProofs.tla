------------------------------ MODULE DavProofs ------------------------------
(* Safety of the CalDAV client, for any servers, collections and bounds.   *)
EXTENDS Dav, WellFoundedInduction, TLAPS

(***************************************************************************)
(* What a request carries through its redirects: a write keeps the method  *)
(* that forbids following a 303, and the condition it was started with.    *)
(***************************************************************************)
IsRequest(c) ==
    DOMAIN c = {"kind", "method", "url", "sends", "member", "match", "forced", "known"}
IsWrite(c) ==
    /\ c.kind \in {"put", "delete"} /\ c.method \in Unsafe /\ c.member \in Members
    /\ c.known \in Nat /\ c.match = IF c.forced THEN None ELSE c.known
RequestOK(c) ==
    /\ IsRequest(c)
    /\ c.kind \in Kinds /\ c.method \in Methods /\ c.url[1] \in Hosts /\ c.sends \in 1 .. MaxRedirects + 1
    /\ c.kind \in {"put", "delete"} => IsWrite(c)
    /\ c.kind = "get" => c.member \in Members
CallInv ==
    /\ call # None => RequestOK(call) /\ (call.kind \in Stages \/ col # None)
    /\ \A c \in late : c # None /\ IsWrite(c)

FindInv ==
    /\ layout \in Layouts /\ changes \in Nat
    /\ DOMAIN find = {"stage", "tried", "home", "result"}
    /\ find.stage \in Stages /\ find.tried \in DOMAIN SearchPaths
    /\ col # None => col[1] \in Hosts

ServerInv ==
    /\ there \subseteq Members /\ clock \in Nat \ {0}
    /\ rev \in [Members -> Nat] /\ \A h \in Members : rev[h] <= clock

(***************************************************************************)
(* What a pull has still to do keeps the promise of its revision: a member *)
(* that has not changed since the report will be dropped, will be fetched, *)
(* or is in the copy as the server has it.  A first sync starts from an    *)
(* empty copy.                                                             *)
(***************************************************************************)
Promises(t) ==
    /\ t.asOf \in 0 .. clock /\ t.token \in {None} \cup 1 .. t.asOf
    /\ \A h \in Members : rev[h] <= t.asOf =>
          IF h \in t.drop THEN h \notin there
          ELSE IF h \in t.fetch THEN h \in there ELSE cache[h] = Etags[h]
CopyInv ==
    /\ cache \in [Members -> Nat] /\ \A h \in Members : cache[h] <= clock
    /\ asOf \in 0 .. clock /\ token \in {None} \cup 1 .. asOf
    /\ todo.fetch \subseteq Members /\ todo.drop \subseteq Members
    /\ CacheIsAsOf
    /\ Called({"sync"}) /\ token = None => \A h \in Members : cache[h] = 0
    /\ Called({"multiget"}) => Promises(todo)

DavInv == CallInv /\ FindInv /\ ServerInv /\ CopyInv

(* A reference resolves to a URL of one of the hosts.                      *)
LEMMA UrlHost ==
    ASSUME NEW url, url[1] \in Hosts, NEW href, IsHref(href)
    PROVE  urljoin(url, href)[1] \in Hosts
BY DEF urljoin, IsHref

LEMMA LookupOK ==
    ASSUME NEW stage \in Stages, NEW url, url[1] \in Hosts
    PROVE  RequestOK(Lookup(stage, url)) /\ Lookup(stage, url).kind = stage
<1>1. MaxRedirects \in Nat
  BY DavAssumption
<1> QED BY <1>1 DEF Lookup, Request, RequestOK, IsRequest, Stages, Kinds, Methods

(* A redirect that is followed leads to one of the hosts, and changes      *)
(* nothing of the request but its URL and the count of redirects.          *)
LEMMA HopOK ==
    ASSUME NEW c, RequestOK(c), c.sends <= MaxRedirects, NEW url, url[1] \in Hosts
    PROVE  RequestOK(Hop(c, url)) /\ Hop(c, url).kind = c.kind
<1>1. MaxRedirects \in Nat
  BY DavAssumption
<1> DEFINE d == Hop(c, url)
<1>2. d.sends = c.sends + 1 /\ d.url = url
  BY DEF Hop, RequestOK, IsRequest
<1>3. IsRequest(d)
  BY DEF Hop, RequestOK, IsRequest
<1>4. /\ d.kind = c.kind /\ d.method = c.method /\ d.member = c.member
      /\ d.match = c.match /\ d.forced = c.forced /\ d.known = c.known
  BY DEF Hop, RequestOK, IsRequest
<1> HIDE DEF d
<1>5. d.sends \in 1 .. MaxRedirects + 1
  BY <1>1, <1>2 DEF RequestOK
<1> QED BY <1>2, <1>3, <1>4, <1>5 DEF RequestOK, IsWrite, d

(* A write is not sent on to see its result elsewhere.                     *)
LEMMA WriteIsNotRedirected ==
    ASSUME NEW c, IsWrite(c), NEW to
    PROVE  redirect_target(c, [code |-> 303, to |-> to]) = None
BY DEF IsWrite, redirect_target

LEMMA InitDav == Init => DavInv
<1> SUFFICES ASSUME Init PROVE DavInv
  OBVIOUS
<1>1. call.kind = "principal" /\ RequestOK(call)
  <2>1. urljoin(Base, SearchPaths[1])[1] \in Hosts
    BY UrlHost, DavAssumption
  <2> QED BY <2>1, LookupOK DEF Init, Stages
<1>2. CallInv
  BY <1>1 DEF Init, CallInv, Stages
<1>3. FindInv
  BY DavAssumption DEF Init, FindInv, Stages
<1>4. ServerInv
  BY DavAssumption DEF Init, ServerInv
<1>5. CopyInv
  <2>1. CacheIsAsOf
    BY DEF Init, CacheIsAsOf, Etags
  <2> QED BY <1>1, <2>1 DEF Init, CopyInv, Called, NoTodo
<1> QED BY <1>2, <1>3, <1>4, <1>5 DEF DavInv

-----------------------------------------------------------------------------
(* What leaves the copy and the collection alone keeps the copy's promises, *)
(* if a call that depends on them was under way before.                    *)
LEMMA CopyStays ==
    ASSUME CopyInv, ServerInv, UNCHANGED <<serverVars, copyVars>>,
           Called({"sync"})' => Called({"sync"}), Called({"multiget"})' => Called({"multiget"})
    PROVE  CopyInv' /\ ServerInv'
<1>1. Etags' = Etags
  BY DEF Etags, serverVars
<1> QED BY <1>1 DEF CopyInv, ServerInv, CacheIsAsOf, Promises, serverVars, copyVars

LEMMA FollowKeeps == DavInv /\ Follow => DavInv'
<1> SUFFICES ASSUME DavInv, Follow PROVE DavInv'
  OBVIOUS
<1> DEFINE url == redirect_target(call, Location)
<1>1. call # None /\ RequestOK(call) /\ call.sends <= MaxRedirects
  BY DEF DavInv, CallInv, Follow, Redirected, follows
<1>2. url[1] \in Hosts
  <2>1. url = urljoin(call.url, Location.to)
    BY DEF Follow, follows, redirect_target
  <2>2. IsLayout(layout) /\ call.url \in DOMAIN layout.moved
    BY DavAssumption DEF DavInv, FindInv, Follow, Redirected
  <2>3. IsHref(Location.to)
    BY <2>2 DEF IsLayout, Location
  <2> QED BY <1>1, <2>1, <2>3, UrlHost DEF RequestOK
<1>3. RequestOK(call') /\ call'.kind = call.kind
  <2> HIDE DEF url
  <2>1. RequestOK(Hop(call, url)) /\ Hop(call, url).kind = call.kind
    BY <1>1, <1>2, HopOK
  <2> QED BY <2>1 DEF Follow, url
<1>4. CallInv'
  BY <1>1, <1>3 DEF Follow, DavInv, CallInv, findVars
<1>5. FindInv'
  BY DEF Follow, DavInv, FindInv, findVars
<1>6. CopyInv' /\ ServerInv'
  <2>1. (Called({"sync"})' => Called({"sync"})) /\ (Called({"multiget"})' => Called({"multiget"}))
    BY <1>1, <1>3 DEF Called
  <2> QED BY <2>1, CopyStays DEF DavInv, Follow
<1> QED BY <1>4, <1>5, <1>6 DEF DavInv

(* A step of the discovery: it asks another question or ends, and what it  *)
(* finds are URLs of the hosts.                                            *)
LEMMA DiscoveryKeeps ==
    ASSUME DavInv, UNCHANGED <<layout, serverVars, late, copyVars, changes>>,
           call' # None => RequestOK(call') /\ call'.kind \in Stages,
           col' # None => col'[1] \in Hosts,
           DOMAIN find' = DOMAIN find, find'.stage \in Stages, find'.tried \in DOMAIN SearchPaths
    PROVE  DavInv'
<1>1. CallInv' /\ FindInv'
  BY DEF DavInv, CallInv, FindInv
<1>2. CopyInv' /\ ServerInv'
  <2>1. ~Called({"sync"})' /\ ~Called({"multiget"})'
    BY DEF Called, Stages
  <2> QED BY <2>1, CopyStays DEF DavInv
<1> QED BY <1>1, <1>2 DEF DavInv

LEMMA AsksKeeps ==
    ASSUME DavInv, UNCHANGED <<layout, serverVars, late, copyVars, changes, col>>,
           NEW stage \in Stages, NEW url, url[1] \in Hosts, call' = Lookup(stage, url),
           DOMAIN find' = DOMAIN find, find'.stage \in Stages, find'.tried \in DOMAIN SearchPaths
    PROVE  DavInv'
<1>1. RequestOK(call') /\ call'.kind \in Stages
  BY LookupOK
<1>2. col' # None => col'[1] \in Hosts
  BY DEF DavInv, FindInv
<1> QED BY <1>1, <1>2, DiscoveryKeeps

LEMMA EndsKeeps ==
    ASSUME DavInv, UNCHANGED <<layout, serverVars, late, copyVars, changes>>,
           NEW stage \in Stages, NEW result, \A url \in result : url[1] \in Hosts, Ends(stage, result)
    PROVE  DavInv'
<1>1. call' = None /\ (col' = col \/ col' \in result)
  BY DEF Ends
<1>2. col' # None => col'[1] \in Hosts
  BY <1>1 DEF DavInv, FindInv
<1>3. DOMAIN find' = DOMAIN find /\ find'.stage \in Stages /\ find'.tried \in DOMAIN SearchPaths
  BY DEF Ends, DavInv, FindInv
<1> QED BY <1>1, <1>2, <1>3, DiscoveryKeeps

LEMMA AskBaseKeeps ==
    ASSUME DavInv, UNCHANGED <<layout, serverVars, late, copyVars, changes>>, AskBase
    PROVE  DavInv'
<1>1. DOMAIN find' = DOMAIN find /\ find'.stage \in Stages /\ find'.tried \in DOMAIN SearchPaths
  BY DEF AskBase, Discovering, DavInv, FindInv, Stages
<1> QED BY <1>1, DavAssumption, AsksKeeps DEF AskBase, Discovering, Stages

LEMMA TryNextKeeps ==
    ASSUME DavInv, UNCHANGED <<layout, serverVars, late, copyVars, changes>>, TryNext
    PROVE  DavInv'
<1>1. CASE find.tried + 1 \in DOMAIN SearchPaths
  <2>1. DOMAIN find' = DOMAIN find /\ find'.stage \in Stages /\ find'.tried \in DOMAIN SearchPaths
    BY <1>1 DEF TryNext, DavInv, FindInv
  <2>2. urljoin(Base, SearchPaths[find.tried + 1])[1] \in Hosts
    BY <1>1, UrlHost, DavAssumption
  <2> QED BY <1>1, <2>1, <2>2, AsksKeeps DEF TryNext, Stages
<1>2. CASE find.tried + 1 \notin DOMAIN SearchPaths
  BY <1>2, AskBaseKeeps DEF TryNext
<1> QED BY <1>1, <1>2

LEMMA PrincipalKeeps == DavInv /\ discover_principal => DavInv'
<1> SUFFICES ASSUME DavInv, discover_principal PROVE DavInv'
  OBVIOUS
<1> USE DEF discover_principal
<1>1. CASE TryNext
  BY <1>1, TryNextKeeps
<1>2. CASE /\ Says(layout.principal, call.url) # None
           /\ Discovering("home", Lookup("home", urljoin(call.url, Says(layout.principal, call.url))))
  <2>1. IsHref(Says(layout.principal, call.url))
    BY <1>2, DavAssumption DEF DavInv, FindInv, IsLayout, Says
  <2>2. call.url[1] \in Hosts
    BY DEF Called, DavInv, CallInv, RequestOK
  <2>3. urljoin(call.url, Says(layout.principal, call.url))[1] \in Hosts
    BY <2>1, <2>2, UrlHost
  <2>4. DOMAIN find' = DOMAIN find /\ find'.stage \in Stages /\ find'.tried \in DOMAIN SearchPaths
    BY <1>2 DEF Discovering, DavInv, FindInv, Stages
  <2> QED BY <1>2, <2>3, <2>4, AsksKeeps DEF Discovering, Stages
<1> QED BY <1>1, <1>2

LEMMA HomeKeeps == DavInv /\ find_home => DavInv'
<1> SUFFICES ASSUME DavInv, find_home PROVE DavInv'
  OBVIOUS
<1> DEFINE href == Says(layout.home, call.url)
<1> USE DEF find_home
<1>1. CASE AskBase
  BY <1>1, AskBaseKeeps
<1>2. CASE /\ href # None
           /\ find' = [find EXCEPT !.stage = "collections", !.home = urljoin(call.url, href)]
           /\ call' = Lookup("collections", urljoin(call.url, href)) /\ UNCHANGED col
  <2>1. IsHref(href)
    BY <1>2, DavAssumption DEF DavInv, FindInv, IsLayout, Says
  <2>2. call.url[1] \in Hosts
    BY DEF Called, DavInv, CallInv, RequestOK
  <2>3. urljoin(call.url, href)[1] \in Hosts
    BY <2>1, <2>2, UrlHost
  <2>4. DOMAIN find' = DOMAIN find /\ find'.stage \in Stages /\ find'.tried \in DOMAIN SearchPaths
    BY <1>2 DEF DavInv, FindInv, Stages
  <2> QED BY <1>2, <2>3, <2>4, AsksKeeps DEF Stages
<1> QED BY <1>1, <1>2

LEMMA CollectionsKeeps == DavInv /\ collections_in => DavInv'
<1> SUFFICES ASSUME DavInv, collections_in PROVE DavInv'
  OBVIOUS
<1> DEFINE listed == IF call.url \in DOMAIN layout.calendars THEN layout.calendars[call.url] ELSE {}
           found == {urljoin(call.url, href) : href \in listed}
<1> USE DEF collections_in
<1>1. CASE AskBase
  BY <1>1, AskBaseKeeps
<1>2. CASE Ends("error", {})
  BY <1>2, EndsKeeps DEF Stages
<1>3. CASE Ends("items", found)
  <2>1. \A href \in listed : IsHref(href)
    BY DavAssumption DEF DavInv, FindInv, IsLayout
  <2>2. call.url[1] \in Hosts
    BY DEF Called, DavInv, CallInv, RequestOK
  <2>3. \A url \in found : url[1] \in Hosts
    BY <2>1, <2>2, UrlHost
  <2> HIDE DEF found
  <2> QED BY <1>3, <2>3, EndsKeeps DEF Stages
<1> QED BY <1>1, <1>2, <1>3

LEMMA BaseKeeps == DavInv /\ base_as_collection => DavInv'
<1> SUFFICES ASSUME DavInv, base_as_collection PROVE DavInv'
  OBVIOUS
<1> USE DEF base_as_collection
<1>1. CASE \E stage \in {"error", "items"} : Ends(stage, {})
  BY <1>1, EndsKeeps DEF Stages
<1>2. CASE Ends("items", {call.url})
  <2>1. call.url[1] \in Hosts
    BY DEF Called, DavInv, CallInv, RequestOK
  <2> QED BY <1>2, <2>1, EndsKeeps DEF Stages
<1> QED BY <1>1, <1>2

-----------------------------------------------------------------------------
(* A request about the collection, as the caller starts it.                *)
LEMMA RequestIsOK ==
    ASSUME DavInv, col # None, NEW kind \in {"sync", "list", "query", "multiget"},
           NEW method \in {"PROPFIND", "REPORT"}
    PROVE  RequestOK(Request(kind, method, col)) /\ Request(kind, method, col).kind = kind
<1>1. MaxRedirects \in Nat /\ col[1] \in Hosts
  BY DavAssumption DEF DavInv, FindInv
<1> QED BY <1>1 DEF Request, RequestOK, IsRequest, Kinds, Methods

(* The pull is done: the copy reflects the revision it promised.           *)
LEMMA CopiedKeeps ==
    ASSUME CopyInv, ServerInv, UNCHANGED serverVars, NEW t, NEW fetched,
           t.drop \subseteq Members, Copied(t, fetched),
           t.asOf \in 0 .. clock, t.token \in {None} \cup 1 .. t.asOf,
           \A h \in Members : rev[h] <= t.asOf =>
              IF h \in t.drop THEN h \notin there
              ELSE IF h \in fetched THEN h \in there ELSE cache[h] = Etags[h]
    PROVE  CopyInv' /\ ServerInv'
<1>1. Etags' = Etags /\ Etags \in [Members -> Nat] /\ \A h \in Members : Etags[h] <= clock
  BY DEF Etags, serverVars, ServerInv
<1>2. ServerInv'
  BY DEF ServerInv, serverVars
<1>3. /\ cache' = [h \in Members |-> IF h \in t.drop THEN 0 ELSE IF h \in fetched THEN Etags[h] ELSE cache[h]]
      /\ token' = t.token /\ asOf' = t.asOf /\ todo' = NoTodo /\ call' = None
  BY DEF Copied
<1>4. cache' \in [Members -> Nat] /\ \A h \in Members : cache'[h] <= clock'
  BY <1>1, <1>3 DEF CopyInv, ServerInv, serverVars
<1>5. CacheIsAsOf'
  <2> SUFFICES ASSUME NEW h \in Members, rev[h] <= t.asOf PROVE cache'[h] = Etags[h]
    BY <1>1, <1>3 DEF CacheIsAsOf, serverVars
  <2>1. h \notin there => Etags[h] = 0
    BY DEF Etags
  <2> QED BY <1>3, <2>1
<1>6. asOf' \in 0 .. clock' /\ token' \in {None} \cup 1 .. asOf'
  BY <1>3 DEF serverVars
<1> QED BY <1>2, <1>3, <1>4, <1>5, <1>6 DEF CopyInv, Called, NoTodo

(* The report is in: the pull fetches what it has to, or is done.          *)
LEMMA FetchesKeeps ==
    ASSUME DavInv, col # None, UNCHANGED <<layout, serverVars, late, findVars, changes>>,
           NEW t, t.fetch \subseteq Members, t.drop \subseteq Members, Promises(t), Fetches(t)
    PROVE  DavInv'
<1>1. FindInv'
  BY DEF DavInv, FindInv, findVars
<1>2. CASE t.fetch = {}
  <2>1. Copied(t, {})
    BY <1>2 DEF Fetches
  <2>2. call' = None
    BY <2>1 DEF Copied
  <2>3. CallInv'
    BY <2>2 DEF DavInv, CallInv
  <2>4. CopyInv' /\ ServerInv'
    BY <1>2, <2>1, CopiedKeeps DEF Promises, DavInv
  <2> QED BY <1>1, <2>3, <2>4 DEF DavInv
<1>3. CASE t.fetch # {}
  <2>1. todo' = t /\ call' = Request("multiget", "REPORT", col) /\ UNCHANGED <<cache, token, asOf>>
    BY <1>3 DEF Fetches
  <2>2. RequestOK(call') /\ call'.kind = "multiget"
    BY <2>1, RequestIsOK
  <2>3. CallInv'
    BY <2>2 DEF DavInv, CallInv, findVars
  <2>4. Etags' = Etags
    BY DEF Etags, serverVars
  <2>5. CopyInv' /\ ServerInv'
    BY <2>1, <2>2, <2>4 DEF DavInv, CopyInv, ServerInv, CacheIsAsOf, Promises, Called, serverVars
  <2> QED BY <1>1, <2>3, <2>5 DEF DavInv
<1> QED BY <1>2, <1>3

(* A call ends, or the next one starts, without a change of the copy.      *)
LEMMA CallKeeps ==
    ASSUME DavInv, UNCHANGED <<layout, serverVars, findVars, changes, cache, asOf>>,
           token' \in {token, None}, todo' \in {todo, NoTodo},
           \A c \in late' : c # None /\ IsWrite(c),
           call' # None => /\ RequestOK(call') /\ col # None /\ call'.kind # "multiget"
                           /\ call'.kind = "sync" => token' # None \/ \A h \in Members : cache[h] = 0
    PROVE  DavInv'
<1>1. CallInv' /\ FindInv' /\ ServerInv'
  BY DEF DavInv, CallInv, FindInv, ServerInv, findVars, serverVars
<1>2. Etags' = Etags
  BY DEF Etags, serverVars
<1>3. CopyInv'
  BY <1>2 DEF DavInv, CopyInv, CacheIsAsOf, Called, serverVars, NoTodo
<1> QED BY <1>1, <1>3 DEF DavInv

LEMMA PullKeeps == ASSUME DavInv, NEW k \in {"sync", "list", "query"}, Pull(k) PROVE DavInv'
<1> DEFINE method == IF k = "list" THEN "PROPFIND" ELSE "REPORT"
<1>1. col # None /\ call' = Request(k, method, col)
  BY DEF Pull, Starts, Idle
<1>2. RequestOK(call') /\ call'.kind = k
  <2>1. method \in {"PROPFIND", "REPORT"}
    OBVIOUS
  <2> HIDE DEF method
  <2> QED BY <1>1, <2>1, RequestIsOK
<1>3. k = "sync" => token' # None \/ \A h \in Members : cache[h] = 0
  BY DEF Pull
<1> QED BY <1>1, <1>2, <1>3, CallKeeps DEF Pull, Quiet, DavInv, CallInv

(* Nothing that was in the collection before a token is missed after it.   *)
LEMMA SyncPromises ==
    ASSUME DavInv, Called({"sync"}), NEW upto \in {clock} \cup {rev[h] : h \in Members},
           upto > 0, token # None => upto >= token,
           NEW t, t = [fetch |-> Reported(upto) \ deleted(Reported(upto)), drop |-> deleted(Reported(upto)),
                       token |-> upto, asOf |-> upto]
    PROVE  Promises(t) /\ t.fetch \subseteq Members /\ t.drop \subseteq Members
<1>1. upto \in 1 .. clock
  BY DEF DavInv, ServerInv
<1>2. t.fetch \subseteq Members /\ t.drop \subseteq Members
  BY DEF Reported, deleted
<1>3. ASSUME NEW h \in Members, rev[h] <= upto
      PROVE  IF h \in t.drop THEN h \notin there ELSE IF h \in t.fetch THEN h \in there ELSE cache[h] = Etags[h]
  <2>1. CASE h \in Reported(upto)
    <3>1. h \in t.drop <=> h \notin there
      BY <2>1 DEF deleted, Status
    <3> QED BY <2>1, <3>1
  <2>2. CASE h \notin Reported(upto)
    <3>1. h \notin t.drop /\ h \notin t.fetch
      BY <2>2 DEF deleted
    <3>2. CASE token = None
      <4>1. h \notin there
        BY <1>3, <2>2, <3>2 DEF Reported
      <4>2. cache[h] = 0
        BY <3>2 DEF DavInv, CopyInv
      <4> QED BY <3>1, <4>1, <4>2 DEF Etags
    <3>3. CASE token # None
      <4>1. ~(rev[h] > token)
        BY <1>3, <2>2, <3>3 DEF Reported
      <4>2. rev[h] <= asOf
        BY <3>3, <4>1 DEF DavInv, CopyInv, ServerInv
      <4> QED BY <3>1, <4>2 DEF DavInv, CopyInv, CacheIsAsOf
    <3> QED BY <3>2, <3>3
  <2> QED BY <2>1, <2>2
<1> QED BY <1>1, <1>2, <1>3 DEF Promises

LEMMA SyncKeeps == DavInv /\ sync_collection => DavInv'
<1> SUFFICES ASSUME DavInv, sync_collection PROVE DavInv'
  OBVIOUS
<1>1. col # None /\ Called({"sync"})
  BY DEF sync_collection, Called, Stages, DavInv, CallInv
<1>2. CASE /\ call' = Request("list", "PROPFIND", col) /\ token' = None
           /\ UNCHANGED <<cache, todo, asOf>>
  <2>1. RequestOK(call') /\ call'.kind = "list"
    BY <1>1, <1>2, RequestIsOK
  <2> QED BY <1>1, <1>2, <2>1, CallKeeps DEF sync_collection, Quiet, DavInv, CallInv
<1>3. ASSUME NEW upto \in {clock} \cup {rev[h] : h \in Members}, token # None => upto >= token, upto > 0,
             Fetches([fetch |-> Reported(upto) \ deleted(Reported(upto)), drop |-> deleted(Reported(upto)),
                      token |-> upto, asOf |-> upto])
      PROVE  DavInv'
  <2> DEFINE t == [fetch |-> Reported(upto) \ deleted(Reported(upto)), drop |-> deleted(Reported(upto)),
                   token |-> upto, asOf |-> upto]
  <2>1. Promises(t) /\ t.fetch \subseteq Members /\ t.drop \subseteq Members
    BY <1>1, <1>3, SyncPromises
  <2>2. Fetches(t)
    BY <1>3
  <2> HIDE DEF t
  <2> QED BY <1>1, <2>1, <2>2, FetchesKeeps DEF sync_collection, Quiet
<1> QED BY <1>2, <1>3 DEF sync_collection

LEMMA ListKeeps == DavInv /\ list_items => DavInv'
<1> SUFFICES ASSUME DavInv, list_items PROVE DavInv'
  OBVIOUS
<1>1. col # None
  BY DEF list_items, Called, Stages, DavInv, CallInv
<1>2. CASE call' = None /\ UNCHANGED copyVars
  BY <1>2, CallKeeps DEF list_items, Quiet, DavInv, CallInv, copyVars
<1>3. CASE Fetches([fetch |-> {h \in there : Etags[h] # cache[h]}, drop |-> Members \ there,
                    token |-> None, asOf |-> clock])
  <2> DEFINE t == [fetch |-> {h \in there : Etags[h] # cache[h]}, drop |-> Members \ there,
                   token |-> None, asOf |-> clock]
  <2>1. Promises(t)
    BY DEF Promises, DavInv, ServerInv
  <2>2. t.fetch \subseteq Members /\ t.drop \subseteq Members
    BY DEF DavInv, ServerInv
  <2>3. Fetches(t)
    BY <1>3
  <2> HIDE DEF t
  <2> QED BY <1>1, <2>1, <2>2, <2>3, FetchesKeeps DEF list_items, Quiet
<1> QED BY <1>2, <1>3 DEF list_items

LEMMA QueryKeeps == DavInv /\ calendar_query => DavInv'
<1> SUFFICES ASSUME DavInv, calendar_query PROVE DavInv'
  OBVIOUS
<1>1. CASE call' = None /\ UNCHANGED copyVars
  BY <1>1, CallKeeps DEF calendar_query, Quiet, DavInv, CallInv, copyVars
<1>2. CASE Copied([NoTodo EXCEPT !.drop = Members \ there, !.asOf = clock], there)
  <2> DEFINE t == [NoTodo EXCEPT !.drop = Members \ there, !.asOf = clock]
  <2>1. t.drop = Members \ there /\ t.asOf = clock /\ t.token = None
    BY DEF NoTodo
  <2>2. Copied(t, there) /\ clock \in Nat
    BY <1>2 DEF DavInv, ServerInv
  <2> HIDE DEF t
  <2>3. CopyInv' /\ ServerInv'
    BY <2>1, <2>2, CopiedKeeps DEF calendar_query, Quiet, DavInv
  <2>4. CallInv' /\ FindInv'
    BY <2>2 DEF calendar_query, Quiet, Copied, findVars, DavInv, CallInv, FindInv
  <2> QED BY <2>3, <2>4 DEF DavInv
<1> QED BY <1>1, <1>2 DEF calendar_query

LEMMA MultigetKeeps == DavInv /\ calendar_multiget => DavInv'
<1> SUFFICES ASSUME DavInv, calendar_multiget PROVE DavInv'
  OBVIOUS
<1>1. CASE call' = None /\ todo' = NoTodo /\ UNCHANGED <<cache, token, asOf>>
  BY <1>1, CallKeeps DEF calendar_multiget, Quiet, DavInv, CallInv
<1>2. CASE Copied(todo, todo.fetch \cap there)
  <2>1. Promises(todo) /\ todo.drop \subseteq Members
    BY DEF calendar_multiget, DavInv, CopyInv
  <2>2. CopyInv' /\ ServerInv'
    BY <1>2, <2>1, CopiedKeeps DEF calendar_multiget, Quiet, DavInv, Promises
  <2>3. CallInv' /\ FindInv'
    BY <1>2 DEF calendar_multiget, Quiet, Copied, findVars, DavInv, CallInv, FindInv
  <2> QED BY <2>2, <2>3 DEF DavInv
<1> QED BY <1>1, <1>2 DEF calendar_multiget

-----------------------------------------------------------------------------
(* A change of one member's etag in the copy to what the server has now.   *)
LEMMA GetKeeps == DavInv /\ get => DavInv'
<1> SUFFICES ASSUME DavInv, get PROVE DavInv'
  OBVIOUS
<1>1. call.kind = "get" /\ call.member \in Members /\ call' = None
  BY DEF get, Called, DavInv, CallInv, RequestOK
<1>2. CallInv' /\ FindInv' /\ ServerInv'
  BY <1>1 DEF get, Quiet, DavInv, CallInv, FindInv, ServerInv, findVars, serverVars
<1>3. Etags' = Etags /\ Etags \in [Members -> Nat] /\ \A h \in Members : Etags[h] <= clock
  BY DEF get, Quiet, Etags, serverVars, DavInv, ServerInv
<1>4. \A h \in Members : cache'[h] = cache[h] \/ cache'[h] = Etags[h]
  BY <1>1 DEF get, DavInv, CopyInv
<1>5. cache' \in [Members -> Nat]
  BY <1>1, <1>3 DEF get, DavInv, CopyInv
<1>6. CopyInv'
  BY <1>1, <1>3, <1>4, <1>5 DEF get, Quiet, DavInv, CopyInv, CacheIsAsOf, Called, serverVars
<1> QED BY <1>2, <1>6 DEF DavInv

LEMMA StartGetKeeps == ASSUME DavInv, NEW h \in Members, StartGet(h) PROVE DavInv'
<1>1. col # None /\ call' = [Request("get", "GET", col) EXCEPT !.member = h]
  BY DEF StartGet, Starts, Idle
<1>2. MaxRedirects \in Nat /\ col[1] \in Hosts
  BY <1>1, DavAssumption DEF DavInv, FindInv
<1>3. RequestOK(call') /\ call'.kind = "get"
  BY <1>1, <1>2 DEF Request, RequestOK, IsRequest, Kinds, Methods
<1> QED BY <1>1, <1>3, CallKeeps DEF StartGet, Quiet, DavInv, CallInv, copyVars

LEMMA StartWriteKeeps ==
    ASSUME DavInv, NEW k \in {"put", "delete"}, NEW h \in Members, NEW f \in BOOLEAN, StartWrite(k, h, f)
    PROVE  DavInv'
<1>1. col # None
  BY DEF StartWrite, Starts, Idle
<1>2. MaxRedirects \in Nat /\ col[1] \in Hosts /\ cache[h] \in Nat
  BY <1>1, DavAssumption DEF DavInv, FindInv, CopyInv
<1>3. call' = [Request(k, IF k = "put" THEN "PUT" ELSE "DELETE", col) EXCEPT
                 !.member = h, !.match = IF f THEN None ELSE cache[h], !.forced = f, !.known = cache[h]]
  BY DEF StartWrite, Starts
<1>4. RequestOK(call') /\ call'.kind = k
  BY <1>2, <1>3 DEF Request, RequestOK, IsRequest, IsWrite, Kinds, Methods, Unsafe
<1> QED BY <1>1, <1>4, CallKeeps DEF StartWrite, Quiet, DavInv, CallInv, copyVars

LEMMA WriteFailsKeeps == DavInv /\ WriteFails => DavInv'
<1> SUFFICES ASSUME DavInv, WriteFails PROVE DavInv'
  OBVIOUS
<1>1. \A c \in late' : c # None /\ IsWrite(c)
  BY DEF WriteFails, Called, DavInv, CallInv, RequestOK
<1> QED BY <1>1, CallKeeps DEF WriteFails, copyVars

(* A new revision is later than anything a pull has reported.              *)
LEMMA ChangeKeeps ==
    ASSUME CopyInv, ServerInv, NEW m \in Members, UNCHANGED <<token, todo, asOf>>,
           clock' = clock + 1, rev' = [rev EXCEPT ![m] = clock + 1],
           there' \subseteq Members, \A h \in Members : h # m => (h \in there' <=> h \in there),
           cache' \in [Members -> Nat],
           \A h \in Members : (h # m => cache'[h] = cache[h]) /\ cache'[h] <= clock + 1,
           Called({"sync"})' => Called({"sync"}) /\ cache' = cache,
           Called({"multiget"})' => Called({"multiget"})
    PROVE  CopyInv' /\ ServerInv'
<1>1. ServerInv'
  BY DEF ServerInv
<1>2. \A h \in Members : h # m => rev'[h] = rev[h] /\ Etags'[h] = Etags[h]
  BY DEF Etags, ServerInv
<1>3. rev'[m] = clock + 1
  BY DEF ServerInv
<1>4. CacheIsAsOf'
  BY <1>2, <1>3 DEF CopyInv, ServerInv, CacheIsAsOf
<1>5. Called({"multiget"})' => Promises(todo)'
  BY <1>2, <1>3 DEF CopyInv, ServerInv, Promises
<1>6. asOf' \in 0 .. clock' /\ token' \in {None} \cup 1 .. asOf'
  BY DEF CopyInv, ServerInv
<1> QED BY <1>1, <1>4, <1>5, <1>6 DEF CopyInv

LEMMA WriteWorksKeeps == DavInv /\ WriteWorks => DavInv'
<1> SUFFICES ASSUME DavInv, WriteWorks PROVE DavInv'
  OBVIOUS
<1> DEFINE m == call.member
<1>1. call # None /\ RequestOK(call) /\ IsWrite(call) /\ m \in Members
  BY DEF WriteWorks, Called, DavInv, CallInv, RequestOK, IsWrite
<1>2. call' = None
  <2>1. redirect_target(call, [code |-> 303, to |-> col]) = None
    BY <1>1, WriteIsNotRedirected
  <2> QED BY <2>1 DEF WriteWorks
<1>3. cache' = cache \/ cache' = [cache EXCEPT ![m] = clock + 1] \/ cache' = [cache EXCEPT ![m] = 0]
  BY DEF WriteWorks
<1>4. /\ cache' \in [Members -> Nat]
      /\ \A h \in Members : (h # m => cache'[h] = cache[h]) /\ cache'[h] <= clock + 1
  BY <1>1, <1>3 DEF DavInv, CopyInv, ServerInv
<1>5. /\ clock' = clock + 1 /\ rev' = [rev EXCEPT ![m] = clock + 1] /\ there' \subseteq Members
      /\ \A h \in Members : h # m => (h \in there' <=> h \in there)
  BY <1>1 DEF WriteWorks, Carried, DavInv, ServerInv
<1>6. CopyInv' /\ ServerInv'
  <2> HIDE DEF m
  <2>1. ~Called({"sync"})' /\ ~Called({"multiget"})'
    BY <1>2 DEF Called
  <2> QED BY <1>1, <1>4, <1>5, <2>1, ChangeKeeps DEF WriteWorks, DavInv
<1>7. CallInv' /\ FindInv'
  BY <1>2 DEF WriteWorks, DavInv, CallInv, FindInv, findVars
<1> QED BY <1>6, <1>7 DEF DavInv

LEMMA WriteLateKeeps == ASSUME DavInv, NEW c \in late, WriteLate(c) PROVE DavInv'
<1>1. IsWrite(c) /\ c.member \in Members
  BY DEF DavInv, CallInv, IsWrite
<1>2. CallInv' /\ FindInv'
  BY DEF WriteLate, DavInv, CallInv, FindInv, findVars
<1>3. (Called({"sync"})' => Called({"sync"})) /\ (Called({"multiget"})' => Called({"multiget"}))
  BY DEF WriteLate, Called
<1>4. CASE UNCHANGED serverVars
  BY <1>2, <1>3, <1>4, CopyStays DEF WriteLate, DavInv
<1>5. CASE Carried(c)
  <2>1. /\ clock' = clock + 1 /\ rev' = [rev EXCEPT ![c.member] = clock + 1] /\ there' \subseteq Members
        /\ \A h \in Members : h # c.member => (h \in there' <=> h \in there)
    BY <1>1, <1>5 DEF Carried, DavInv, ServerInv
  <2>2. /\ cache' = cache /\ cache' \in [Members -> Nat]
        /\ \A h \in Members : (h # c.member => cache'[h] = cache[h]) /\ cache'[h] <= clock + 1
    BY DEF WriteLate, copyVars, DavInv, CopyInv, ServerInv
  <2>3. UNCHANGED <<token, todo, asOf>>
    BY DEF WriteLate, copyVars
  <2> QED BY <1>1, <1>2, <1>3, <2>1, <2>2, <2>3, ChangeKeeps DEF DavInv
<1> QED BY <1>4, <1>5 DEF WriteLate

LEMMA OtherClientKeeps == ASSUME DavInv, NEW h \in Members, OtherClient(h) PROVE DavInv'
<1>1. CallInv' /\ FindInv'
  BY DEF OtherClient, DavInv, CallInv, FindInv, findVars
<1>2. (Called({"sync"})' => Called({"sync"})) /\ (Called({"multiget"})' => Called({"multiget"}))
  BY DEF OtherClient, Called
<1>3. /\ clock' = clock + 1 /\ rev' = [rev EXCEPT ![h] = clock + 1] /\ there' \subseteq Members
      /\ \A g \in Members : g # h => (g \in there' <=> g \in there)
  BY DEF OtherClient, DavInv, ServerInv
<1>4. /\ cache' = cache /\ cache' \in [Members -> Nat]
      /\ \A g \in Members : (g # h => cache'[g] = cache[g]) /\ cache'[g] <= clock + 1
  BY DEF OtherClient, copyVars, DavInv, CopyInv, ServerInv
<1>5. UNCHANGED <<token, todo, asOf>>
  BY DEF OtherClient, copyVars
<1> QED BY <1>1, <1>2, <1>3, <1>4, <1>5, ChangeKeeps DEF DavInv

-----------------------------------------------------------------------------
LEMMA StepDav == DavInv /\ [Next]_vars => DavInv'
<1> SUFFICES ASSUME DavInv, [Next]_vars PROVE DavInv'
  OBVIOUS
<1>1. CASE ClientStep
  BY <1>1, FollowKeeps, PrincipalKeeps, HomeKeeps, CollectionsKeeps, BaseKeeps, SyncKeeps, ListKeeps,
     QueryKeeps, MultigetKeeps, GetKeeps, WriteFailsKeeps, WriteWorksKeeps DEF ClientStep
<1>2. CASE Caller
  BY <1>2, PullKeeps, StartGetKeeps, StartWriteKeeps DEF Caller
<1>3. CASE Environment
  BY <1>3, WriteLateKeeps, OtherClientKeeps DEF Environment
<1>4. CASE UNCHANGED vars
  <2>1. CallInv' /\ FindInv' /\ UNCHANGED <<serverVars, copyVars>> /\ call' = call
    BY <1>4 DEF vars, DavInv, CallInv, FindInv, findVars
  <2> QED BY <2>1, CopyStays DEF DavInv, Called
<1> QED BY <1>1, <1>2, <1>3, <1>4 DEF Next


(* What the parts of DavInv say of the call, the copy, the server and the *)
(* search holds in every state.                                            *)
THEOREM DavSafe == Spec => []DavInv
<1> QED BY InitDav, StepDav, PTL DEF Spec

(* Every variable keeps its type: the client stays with hosts the layout   *)
(* knows, sends a request at most once per redirect it may follow, and     *)
(* keeps no etag or token later than the server's clock.                   *)
THEOREM DavTypeOK == Spec => []TypeOK
<1>1. DavInv => TypeOK
  <2>1. ServerInv => rev \in [Members -> 0 .. clock]
    BY DEF ServerInv
  <2>2. ServerInv /\ CopyInv => cache \in [Members -> 0 .. clock]
    BY DEF ServerInv, CopyInv
  <2> QED BY <2>1, <2>2 DEF DavInv, TypeOK, CallInv, FindInv, ServerInv, CopyInv, RequestOK, IsWrite
<1> QED BY <1>1, DavSafe, PTL

(* What a pull takes its copy to reflect it does reflect, for any order of *)
(* reports, fetches, failures, writes and changes by others.               *)
THEOREM CopyIsAsOf == Spec => []CacheIsAsOf
<1>1. DavInv => CacheIsAsOf
  BY DEF DavInv, CopyInv
<1> QED BY <1>1, DavSafe, PTL

(***************************************************************************)
(* The server changes a member in a step of the client, or of a write the  *)
(* client has given up, only if the write's condition holds; the condition *)
(* it was started with has come through every redirect.                    *)
(***************************************************************************)
LEMMA HoldsForTheSeen ==
    ASSUME DavInv, NEW c, IsWrite(c), Holds(c), NEW h \in there, c.member = h
    PROVE  c.forced \/ c.known = rev[h]
<1>1. h \in Members /\ Etags[h] = rev[h]
  BY DEF DavInv, ServerInv, Etags
<1>2. CASE c.match = None
  <2>1. c.known # None
    BY DavAssumption DEF IsWrite
  <2> QED BY <1>2, <2>1 DEF IsWrite
<1>3. CASE c.match = Etags[h]
  BY <1>1, <1>3 DEF IsWrite
<1> QED BY <1>2, <1>3 DEF Holds

LEMMA StepIsNotBlind ==
    ASSUME DavInv, [Next]_vars, NEW h \in Members, rev'[h] # rev[h], h \in there, changes' = changes
    PROVE  \E c \in late \cup {call} : c # None /\ c.member = h /\ (c.forced \/ c.known = rev[h])
<1>1. ASSUME NEW c, IsWrite(c), Carried(c) PROVE c.member = h
  BY <1>1 DEF Carried, DavInv, ServerInv
<1>2. CASE WriteWorks
  <2>1. IsWrite(call) /\ call # None
    BY <1>2 DEF WriteWorks, Called, DavInv, CallInv, RequestOK
  <2>2. call.member = h /\ Holds(call)
    BY <1>1, <1>2, <2>1 DEF WriteWorks
  <2> QED BY <2>1, <2>2, HoldsForTheSeen
<1>3. ASSUME NEW c \in late, WriteLate(c)
      PROVE  \E d \in late \cup {call} : d # None /\ d.member = h /\ (d.forced \/ d.known = rev[h])
  <2>1. IsWrite(c) /\ c # None
    BY DEF DavInv, CallInv
  <2>2. Holds(c) /\ c.member = h
    BY <1>1, <1>3, <2>1 DEF WriteLate, serverVars
  <2> QED BY <2>1, <2>2, HoldsForTheSeen
<1>4. ~\E g \in Members : OtherClient(g)
  BY DEF OtherClient, DavInv, FindInv
<1>5. \/ WriteWorks
      \/ \E c \in late : WriteLate(c)
      \/ UNCHANGED serverVars
  BY <1>4 DEF Next, ClientStep, Caller, Environment, vars, Follow, discover_principal, find_home,
     collections_in, base_as_collection, sync_collection, list_items, calendar_query, calendar_multiget,
     get, WriteFails, Pull, StartGet, StartWrite, Quiet
<1> QED BY <1>2, <1>3, <1>5 DEF serverVars

(* No write of the client replaces a version the caller had not seen,      *)
(* unless it was asked for without a condition.                            *)
THEOREM NoWriteIsBlind == Spec => NoBlindOverwrite
<1>1. DavInv /\ [Next]_vars =>
        [\A h \in Members : rev'[h] # rev[h] /\ h \in there /\ changes' = changes
           => \E c \in late \cup {call} : c # None /\ c.member = h /\ (c.forced \/ c.known = rev[h])]_vars
  BY StepIsNotBlind
<1> QED BY <1>1, DavSafe, PTL DEF Spec, NoBlindOverwrite

-----------------------------------------------------------------------------
(***************************************************************************)
(* The discovery.  The trail of a URL is defined by recursion on the       *)
(* number of redirects, and what is known of it by looking at the least    *)
(* number for which it fails.                                              *)
(***************************************************************************)
LEMMA LeastNumber ==
    ASSUME NEW S \in SUBSET Nat, S # {}
    PROVE  \E n \in S : \A m \in S : n <= m
<1>1. PICK n \in S : \A m \in S : ~(<<m, n>> \in OpToRel(<, Nat))
  BY NatLessThanWellFounded, WFMin
<1>2. \A m \in S : ~(m < n)
  BY <1>1 DEF OpToRel
<1> QED BY <1>2

LEMMA TrailIs ==
    ASSUME NEW url
    PROVE  Trail(url) = [n \in 0 .. MaxRedirects |->
                           IF n = 0 THEN {url} ELSE UNION {Onward(u) : u \in Trail(url)[n - 1]}]
<1> DEFINE IsTrail(f, m) ==
             f = [n \in 0 .. m |-> IF n = 0 THEN {url} ELSE UNION {Onward(u) : u \in f[n - 1]}]
           bad == {m \in Nat : ~\E f : IsTrail(f, m)}
<1>1. MaxRedirects \in Nat
  BY DavAssumption
<1>2. bad = {}
  <2> SUFFICES ASSUME bad # {} PROVE FALSE
    OBVIOUS
  <2>1. PICK m \in bad : \A k \in bad : m <= k
    BY LeastNumber
  <2>2. CASE m = 0
    <3> DEFINE f == [n \in 0 .. 0 |-> {url}]
    <3>1. IsTrail(f, 0)
      OBVIOUS
    <3> QED BY <2>1, <2>2, <3>1
  <2>3. CASE m # 0
    <3>1. m - 1 \in Nat /\ m - 1 \notin bad
      <4>1. m \in Nat
        OBVIOUS
      <4> HIDE DEF bad
      <4> QED BY <2>1, <2>3, <4>1
    <3>2. PICK f : IsTrail(f, m - 1)
      BY <3>1
    <3> DEFINE g == [n \in 0 .. m |-> IF n = m THEN UNION {Onward(u) : u \in f[m - 1]} ELSE f[n]]
    <3>3. \A n \in 0 .. m : g[n] = IF n = 0 THEN {url} ELSE UNION {Onward(u) : u \in g[n - 1]}
      <4> SUFFICES ASSUME NEW n \in 0 .. m
                   PROVE  g[n] = IF n = 0 THEN {url} ELSE UNION {Onward(u) : u \in g[n - 1]}
        OBVIOUS
      <4>1. CASE n = m
        <5>1. g[n - 1] = f[n - 1]
          BY <4>1, <3>1
        <5> QED BY <4>1, <5>1, <2>3
      <4>2. CASE n # m
        <5>1. n \in 0 .. m - 1 /\ g[n] = f[n]
          BY <4>2, <3>1
        <5>2. n # 0 => g[n - 1] = f[n - 1]
          BY <4>2, <3>1
        <5>3. f[n] = IF n = 0 THEN {url} ELSE UNION {Onward(u) : u \in f[n - 1]}
          <6> HIDE DEF g
          <6> QED BY <3>2, <5>1
        <5> HIDE DEF g
        <5> QED BY <5>1, <5>2, <5>3
      <4> QED BY <4>1, <4>2
    <3>4. IsTrail(g, m)
      <4>1. g = [n \in 0 .. m |-> g[n]]
        OBVIOUS
      <4> HIDE DEF g
      <4> QED BY <3>3, <4>1
    <3> HIDE DEF g, IsTrail
    <3> QED BY <2>1, <3>4
  <2> HIDE DEF bad
  <2> QED BY <2>2, <2>3, <2>1
<1>3. \E f : IsTrail(f, MaxRedirects)
  BY <1>1, <1>2
<1>4. IsTrail(CHOOSE f : IsTrail(f, MaxRedirects), MaxRedirects)
  <2> HIDE DEF IsTrail
  <2> QED BY <1>3
<1>5. Trail(url) = CHOOSE f : IsTrail(f, MaxRedirects)
  BY DEF Trail
<1> QED BY <1>4, <1>5

LEMMA TrailStarts ==
    ASSUME NEW url
    PROVE  Trail(url)[0] = {url}
<1>1. MaxRedirects \in Nat /\ 0 \in 0 .. MaxRedirects
  BY DavAssumption
<1> QED BY <1>1, TrailIs

LEMMA TrailGoesOn ==
    ASSUME NEW url, NEW n \in 1 .. MaxRedirects
    PROVE  Trail(url)[n] = UNION {Onward(u) : u \in Trail(url)[n - 1]}
<1>1. MaxRedirects \in Nat /\ n \in 0 .. MaxRedirects /\ n # 0
  BY DavAssumption
<1> DEFINE T == Trail(url)
<1>2. T = [k \in 0 .. MaxRedirects |-> IF k = 0 THEN {url} ELSE UNION {Onward(u) : u \in T[k - 1]}]
  BY TrailIs
<1> HIDE DEF T
<1>3. T[n] = IF n = 0 THEN {url} ELSE UNION {Onward(u) : u \in T[n - 1]}
  BY <1>1, <1>2
<1> QED BY <1>1, <1>3 DEF T

(* A URL on the trail that does not redirect is where the trail ends.      *)
LEMMA TrailEnds ==
    ASSUME NEW url, NEW k \in 0 .. MaxRedirects, NEW end, Trail(url)[k] = {end}, end \notin DOMAIN layout.moved
    PROVE  Lands(url) = {end}
<1> DEFINE T == Trail(url)
           bad == {n \in Nat : n \in k .. MaxRedirects /\ T[n] # {end}}
<1>1. MaxRedirects \in Nat
  BY DavAssumption
<1>2. bad = {}
  <2> SUFFICES ASSUME bad # {} PROVE FALSE
    OBVIOUS
  <2>1. PICK n \in bad : \A m \in bad : n <= m
    BY LeastNumber
  <2>2. n # k
    BY <2>1
  <2>3. n \in 1 .. MaxRedirects /\ n - 1 \in k .. MaxRedirects /\ n - 1 \in Nat
    BY <1>1, <2>1, <2>2
  <2>4. T[n - 1] = {end}
    <3> HIDE DEF T
    <3> QED BY <2>1, <2>3
  <2>5. T[n] = UNION {Onward(u) : u \in T[n - 1]}
    BY <2>3, TrailGoesOn
  <2>6. Onward(end) = {end}
    BY DEF Onward
  <2> HIDE DEF T
  <2> QED BY <2>1, <2>4, <2>5, <2>6
<1>3. T[MaxRedirects] = {end}
  <2> HIDE DEF T
  <2> QED BY <1>1, <1>2
<1> QED BY <1>3 DEF Lands

(***************************************************************************)
(* The request under way is on the trail of the URL it was started with.   *)
(***************************************************************************)
OnTrail(c, url) ==
    /\ c.method = "PROPFIND" /\ c.sends \in 1 .. MaxRedirects + 1
    /\ Trail(url)[c.sends - 1] = {c.url}

LEMMA LookupOnTrail ==
    ASSUME NEW stage, NEW url
    PROVE  OnTrail(Lookup(stage, url), url)
<1>1. MaxRedirects \in Nat
  BY DavAssumption
<1> QED BY <1>1, TrailStarts DEF OnTrail, Lookup, Request

LEMMA AnswerLands ==
    ASSUME NEW url, OnTrail(call, url), ~Redirected, call # None
    PROVE  Lands(url) = {call.url}
<1>1. MaxRedirects \in Nat /\ call.sends - 1 \in 0 .. MaxRedirects
  BY DavAssumption DEF OnTrail
<1>2. Trail(url)[call.sends - 1] = {call.url} /\ call.url \notin DOMAIN layout.moved
  BY DEF OnTrail, Redirected
<1> QED BY <1>1, <1>2, TrailEnds

LEMMA FollowOnTrail ==
    ASSUME NEW url, OnTrail(call, url), Follow, RequestOK(call)
    PROVE  OnTrail(call, url)'
<1> DEFINE target == redirect_target(call, Location)
<1>1. MaxRedirects \in Nat /\ call.sends \in 1 .. MaxRedirects
  BY DavAssumption DEF OnTrail, Follow, follows
<1>2. call'.method = "PROPFIND" /\ call'.sends = call.sends + 1 /\ call'.url = target
  BY DEF Follow, Hop, RequestOK, IsRequest, OnTrail
<1>3. target = redirect_target([method |-> "PROPFIND", url |-> call.url], layout.moved[call.url])
  BY DEF redirect_target, Location, OnTrail
<1>4. Onward(call.url) = {target}
  <2>1. call.url \in DOMAIN layout.moved /\ target # None
    BY DEF Follow, Redirected, follows
  <2> HIDE DEF target
  <2> QED BY <1>3, <2>1 DEF Onward
<1>5. Trail(url)[call.sends] = UNION {Onward(u) : u \in {call.url}}
  BY <1>1, TrailGoesOn DEF OnTrail
<1>6. Trail(url)' = Trail(url)
  BY DEF Trail, Onward, Follow
<1> HIDE DEF target
<1> QED BY <1>1, <1>2, <1>4, <1>5, <1>6 DEF OnTrail

(***************************************************************************)
(* Where the search is.  No path before the one being tried leads to the   *)
(* principal; what is asked now is what the answers so far lead to; and    *)
(* the base URL is only asked when no calendar is due.                     *)
(***************************************************************************)
Searching == {"principal", "home", "collections", "base"}
Due == OnlyPathsFailed /\ Leads # {} /\ Lists # {}
AtPrincipal ==
    <<"principal", find.tried>> \notin failed /\ OnTrail(call, SearchUrl(find.tried))
AtHome ==
    /\ <<"principal", find.tried>> \notin failed
    /\ \E p : Told(layout.principal, SearchUrl(find.tried)) = {p} /\ OnTrail(call, p)
AtCollections ==
    /\ <<"principal", find.tried>> \notin failed
    /\ \E p : /\ Told(layout.principal, SearchUrl(find.tried)) = {p}
              /\ Told(layout.home, p) = {find.home} /\ OnTrail(call, find.home)
AtBase == OnTrail(call, Base) /\ (Due => Calendars = {})
SearchInv ==
    /\ \A i \in DOMAIN SearchPaths : i < find.tried => i \notin Leads
    /\ \A i \in DOMAIN SearchPaths : <<"principal", i>> \in failed => i <= find.tried
    /\ find.stage \in Searching => col = None /\ (call # None => call.kind = find.stage)
    /\ call # None /\ call.kind \in Searching => call.kind = find.stage
    /\ find.stage = "principal" => AtPrincipal
    /\ find.stage = "home" => AtHome
    /\ find.stage = "collections" => AtCollections
    /\ find.stage = "base" => AtBase
    /\ DiscoveryIsComplete

LEMMA SameAnswers ==
    ASSUME layout' = layout
    PROVE  /\ \A url : Lands(url)' = Lands(url) /\ Trail(url)' = Trail(url)
           /\ \A url : Told(layout.principal, url)' = Told(layout.principal, url)
           /\ \A url : Told(layout.home, url)' = Told(layout.home, url)
BY DEF Told, Lands, Trail, Onward

LEMMA LeadsShrink ==
    ASSUME layout' = layout, failed \subseteq failed'
    PROVE  Leads' \subseteq Leads
BY SameAnswers DEF Leads, SearchUrl

LEMMA SameSearch ==
    ASSUME layout' = layout, failed' = failed
    PROVE  /\ Leads' = Leads /\ Lists' = Lists /\ Calendars' = Calendars
           /\ OnlyPathsFailed' = OnlyPathsFailed /\ Due' = Due
<1>1. Leads' = Leads /\ OnlyPathsFailed' = OnlyPathsFailed
  BY SameAnswers DEF Leads, OnlyPathsFailed
<1>2. First' = First
  BY <1>1 DEF First
<1>3. Homes' = Homes
  BY <1>2, SameAnswers DEF Homes
<1>4. Lists' = Lists
  BY <1>3, SameAnswers DEF Lists
<1>5. Calendars' = Calendars
  BY <1>4 DEF Calendars
<1> QED BY <1>1, <1>4, <1>5 DEF Due

(* The path that led to the principal is the first one that leads there.   *)
LEMMA TriedIsFirst ==
    ASSUME DavInv, SearchInv, NEW p, Told(layout.principal, SearchUrl(find.tried)) = {p},
           <<"principal", find.tried>> \notin failed
    PROVE  Leads # {} /\ Homes = Told(layout.home, p)
<1>1. find.tried \in Leads
  BY DEF Leads, DavInv, FindInv
<1>2. Leads \subseteq Nat /\ \A i \in Leads : i \in DOMAIN SearchPaths /\ find.tried <= i
  <2>1. Leads \subseteq DOMAIN SearchPaths /\ DOMAIN SearchPaths \subseteq Nat
    BY DavAssumption DEF Leads
  <2>2. \A i \in Leads : ~(i < find.tried)
    BY <2>1 DEF SearchInv
  <2> QED BY <1>1, <2>1, <2>2
<1>3. First = find.tried
  <2>1. ASSUME NEW i \in Leads, \A j \in Leads : i <= j PROVE i = find.tried
    <3>1. i <= find.tried /\ find.tried <= i /\ i \in Nat /\ find.tried \in Nat
      BY <1>1, <1>2, <2>1
    <3> QED BY <3>1
  <2>2. \A j \in Leads : find.tried <= j
    BY <1>2
  <2> QED BY <1>1, <2>1, <2>2 DEF First
<1>4. Homes = UNION {Told(layout.home, principal) : principal \in {p}}
  BY <1>3 DEF Homes
<1> QED BY <1>1, <1>4

(* What an answer tells of a URL is what the URL is told to lead to.       *)
LEMMA AnswerTells ==
    ASSUME NEW url, OnTrail(call, url), ~Redirected, call # None, NEW f
    PROVE  Told(f, url) = IF Says(f, call.url) = None THEN {} ELSE {urljoin(call.url, Says(f, call.url))}
<1>1. Lands(url) = {call.url}
  BY AnswerLands
<1>2. Says(f, call.url) # None => Says(f, call.url) = f[call.url]
  BY DEF Says
<1> QED BY <1>1, <1>2 DEF Told

LEMMA InitSearch == Init => SearchInv
<1> SUFFICES ASSUME Init PROVE SearchInv
  OBVIOUS
<1>1. find.stage = "principal" /\ find.tried = 1 /\ failed = {} /\ col = None
  BY DEF Init
<1>2. call = Lookup("principal", SearchUrl(1))
  BY DEF Init, SearchUrl
<1>3. call.kind = "principal"
  BY <1>2 DEF Lookup, Request
<1>4. \A i \in DOMAIN SearchPaths : ~(i < 1)
  BY DavAssumption
<1> QED BY <1>1, <1>2, <1>3, <1>4, LookupOnTrail DEF SearchInv, AtPrincipal, DiscoveryIsComplete, Searching

-----------------------------------------------------------------------------
(* A redirect is followed: the request stays on its trail.                 *)
LEMMA SearchFollows == DavInv /\ SearchInv /\ Follow => SearchInv'
<1> SUFFICES ASSUME DavInv, SearchInv, Follow PROVE SearchInv'
  OBVIOUS
<1>1. call # None /\ RequestOK(call)
  BY DEF Follow, Redirected, DavInv, CallInv
<1>2. call'.kind = call.kind
  BY <1>1 DEF Follow, Hop, RequestOK, IsRequest
<1>3. layout' = layout /\ failed' = failed /\ find' = find /\ col' = col
  BY DEF Follow, findVars
<1>4. \A url : OnTrail(call, url) => OnTrail(call, url)'
  BY <1>1, FollowOnTrail
<1>5. SearchUrl(find.tried)' = SearchUrl(find.tried)
  BY <1>3 DEF SearchUrl
<1>6. find.stage = "principal" => AtPrincipal'
  BY <1>3, <1>4, <1>5 DEF SearchInv, AtPrincipal
<1>7. find.stage = "home" => AtHome'
  BY <1>3, <1>4, <1>5, SameAnswers DEF SearchInv, AtHome
<1>8. find.stage = "collections" => AtCollections'
  BY <1>3, <1>4, <1>5, SameAnswers DEF SearchInv, AtCollections
<1>9. find.stage = "base" => AtBase'
  BY <1>3, <1>4, SameSearch DEF SearchInv, AtBase
<1>10. DiscoveryIsComplete'
  BY <1>3, SameSearch, SameAnswers DEF SearchInv, DiscoveryIsComplete
<1> QED BY <1>1, <1>2, <1>3, <1>6, <1>7, <1>8, <1>9, <1>10, SameSearch DEF SearchInv

(* Once the search has ended nothing changes what it found; and before, no *)
(* call but its own is under way.                                          *)
LEMMA SearchStays ==
    ASSUME DavInv, SearchInv, UNCHANGED <<layout, findVars>>,
           \/ call' = call
           \/ find.stage \notin Searching /\ (call' # None => call'.kind \notin Searching)
    PROVE  SearchInv'
<1>1. layout' = layout /\ failed' = failed /\ find' = find /\ col' = col
  BY DEF findVars
<1>2. DiscoveryIsComplete'
  BY <1>1, SameSearch, SameAnswers DEF SearchInv, DiscoveryIsComplete
<1>3. CASE find.stage \notin Searching
  BY <1>1, <1>2, <1>3, SameSearch DEF SearchInv, Searching
<1>4. CASE call' = call
  <2>1. \A url : OnTrail(call, url)' = OnTrail(call, url)
    BY <1>1, <1>4, SameAnswers DEF OnTrail
  <2>2. SearchUrl(find.tried)' = SearchUrl(find.tried)
    BY <1>1 DEF SearchUrl
  <2>3. (AtPrincipal => AtPrincipal') /\ (AtBase => AtBase')
    BY <1>1, <2>1, <2>2, SameSearch DEF AtPrincipal, AtBase
  <2>4. (AtHome => AtHome') /\ (AtCollections => AtCollections')
    BY <1>1, <2>1, <2>2, SameAnswers DEF AtHome, AtCollections
  <2> QED BY <1>1, <1>2, <1>4, <2>3, <2>4, SameSearch DEF SearchInv
<1> QED BY <1>3, <1>4

(* The base URL is asked when no calendar is due.                          *)
LEMMA BaseIsAsked ==
    ASSUME DavInv, SearchInv, layout' = layout, failed \subseteq failed', AskBase,
           \A i \in DOMAIN SearchPaths : <<"principal", i>> \in failed' => i <= find.tried,
           Due' => Calendars' = {}, col = None
    PROVE  SearchInv'
<1>1. find'.stage = "base" /\ find'.tried = find.tried /\ col' = None
  BY DEF AskBase, Discovering, DavInv, FindInv
<1>2. call' = Lookup("base", Base) /\ call'.kind = "base"
  BY DEF AskBase, Discovering, Lookup, Request
<1>3. OnTrail(call, Base)'
  BY <1>2, LookupOnTrail, SameAnswers DEF OnTrail
<1>4. \A i \in DOMAIN SearchPaths : i < find'.tried => i \notin Leads'
  BY <1>1, LeadsShrink DEF SearchInv
<1> QED BY <1>1, <1>2, <1>3, <1>4 DEF SearchInv, AtBase, DiscoveryIsComplete, Searching

(* The path that was tried does not lead to the principal.                 *)
LEMMA NextIsTried ==
    ASSUME DavInv, SearchInv, layout' = layout, failed \subseteq failed', TryNext,
           failed' \subseteq failed \cup {<<"principal", find.tried>>},
           find.stage = "principal", find.tried \notin Leads'
    PROVE  SearchInv'
<1>1. /\ find.tried \in Nat /\ find.tried \in DOMAIN SearchPaths /\ DOMAIN SearchPaths \subseteq Nat
      /\ \A i \in DOMAIN SearchPaths : 1 .. i \subseteq DOMAIN SearchPaths
  BY DavAssumption DEF DavInv, FindInv
<1>2. \A i \in DOMAIN SearchPaths : i < find.tried + 1 => i \notin Leads'
  <2>1. \A i \in DOMAIN SearchPaths : i < find.tried => i \notin Leads'
    BY LeadsShrink DEF SearchInv
  <2>2. \A i \in DOMAIN SearchPaths : i < find.tried + 1 => i < find.tried \/ i = find.tried
    BY <1>1
  <2> QED BY <2>1, <2>2
<1>3. \A i \in DOMAIN SearchPaths : <<"principal", i>> \in failed' => i <= find.tried
  <2>1. \A i \in DOMAIN SearchPaths : <<"principal", i>> \in failed => i <= find.tried
    BY DEF SearchInv
  <2> QED BY <1>1, <2>1
<1>4. col = None
  BY DEF SearchInv, Searching
<1>5. CASE find.tried + 1 \in DOMAIN SearchPaths
  <2>1. find'.stage = "principal" /\ find'.tried = find.tried + 1 /\ col' = None
    BY <1>4, <1>5 DEF TryNext, DavInv, FindInv
  <2>2. call' = Lookup("principal", SearchUrl(find.tried + 1)) /\ call'.kind = "principal"
    BY <1>5 DEF TryNext, SearchUrl, Lookup, Request
  <2>3. OnTrail(call, SearchUrl(find.tried))'
    BY <2>1, <2>2, LookupOnTrail, SameAnswers DEF OnTrail, SearchUrl
  <2>4. \A i \in DOMAIN SearchPaths : <<"principal", i>> \in failed' => i <= find.tried + 1
    BY <1>1, <1>3
  <2>5. <<"principal", find.tried + 1>> \notin failed'
    BY <1>1, <1>3, <1>5
  <2> QED BY <1>2, <2>1, <2>2, <2>3, <2>4, <2>5 DEF SearchInv, AtPrincipal, DiscoveryIsComplete, Searching
<1>6. CASE find.tried + 1 \notin DOMAIN SearchPaths
  <2>1. \A i \in DOMAIN SearchPaths : i < find.tried + 1
    BY <1>1, <1>6
  <2>2. Leads' = {}
    <3>1. Leads' \subseteq DOMAIN SearchPaths
      BY DEF Leads
    <3> QED BY <1>2, <2>1, <3>1
  <2>3. ~Due'
    BY <2>2 DEF Due
  <2> QED BY <1>3, <1>4, <1>6, <2>3, BaseIsAsked DEF TryNext
<1> QED BY <1>5, <1>6

LEMMA PrincipalSearch == DavInv /\ SearchInv /\ discover_principal => SearchInv'
<1> SUFFICES ASSUME DavInv, SearchInv, discover_principal PROVE SearchInv'
  OBVIOUS
<1> DEFINE href == Says(layout.principal, call.url)
           path == SearchUrl(find.tried)
<1>1. /\ layout' = layout /\ call # None
      /\ find.stage = "principal" /\ AtPrincipal /\ col = None
  BY DEF discover_principal, Called, SearchInv, Searching
<1>2. find.tried \in DOMAIN SearchPaths
  BY DEF DavInv, FindInv
<1>3. CASE failed' = failed \cup {<<"principal", find.tried>>} /\ TryNext
  <2>1. find.tried \notin Leads'
    BY <1>3 DEF Leads
  <2> QED BY <1>1, <1>3, <2>1, NextIsTried
<1>4. CASE ~Redirected /\ failed' = failed /\ href = None /\ TryNext
  <2>1. Told(layout.principal, path) = {}
    BY <1>1, <1>4, AnswerTells DEF AtPrincipal
  <2>2. find.tried \notin Leads'
    BY <1>1, <2>1, <1>4, SameSearch DEF Leads
  <2> QED BY <1>1, <1>4, <2>2, NextIsTried
<1>5. CASE /\ ~Redirected /\ failed' = failed /\ href # None
           /\ Discovering("home", Lookup("home", urljoin(call.url, href)))
  <2>0. PICK p : p = urljoin(call.url, href)
    OBVIOUS
  <2>1. Told(layout.principal, path) = {p}
    BY <1>1, <1>5, <2>0, AnswerTells DEF AtPrincipal
  <2>2. /\ find'.stage = "home" /\ find'.tried = find.tried /\ col' = None
        /\ call' = Lookup("home", p) /\ call'.kind = "home"
    BY <1>1, <1>5, <2>0 DEF Discovering, Lookup, Request, DavInv, FindInv
  <2>3. OnTrail(call, p)'
    BY <1>1, <2>2, LookupOnTrail, SameAnswers DEF OnTrail
  <2>4. Told(layout.principal, SearchUrl(find.tried))' = {p}
    BY <1>1, <2>1, <2>2, SameAnswers DEF SearchUrl
  <2> HIDE DEF path
  <2>5. AtHome'
    BY <1>1, <1>5, <2>2, <2>3, <2>4 DEF AtHome, AtPrincipal
  <2> QED BY <1>1, <1>5, <2>2, <2>5, SameSearch DEF SearchInv, DiscoveryIsComplete, Searching
<1> QED BY <1>3, <1>4, <1>5 DEF discover_principal, Answered

LEMMA HomeSearch == DavInv /\ SearchInv /\ find_home => SearchInv'
<1> SUFFICES ASSUME DavInv, SearchInv, find_home PROVE SearchInv'
  OBVIOUS
<1> DEFINE href == Says(layout.home, call.url)
<1>1. /\ layout' = layout /\ call # None
      /\ find.stage = "home" /\ AtHome /\ col = None
  BY DEF find_home, Called, SearchInv, Searching
<1>2. PICK p : Told(layout.principal, SearchUrl(find.tried)) = {p} /\ OnTrail(call, p)
  BY <1>1 DEF AtHome
<1>3. \A i \in DOMAIN SearchPaths : <<"principal", i>> \in failed => i <= find.tried
  BY DEF SearchInv
<1>4. CASE failed' = failed \cup {<<"home", 1>>} /\ AskBase
  <2>1. ~OnlyPathsFailed'
    BY <1>4 DEF OnlyPathsFailed
  <2> QED BY <1>1, <1>3, <1>4, <2>1, BaseIsAsked DEF Due
<1>5. CASE ~Redirected /\ failed' = failed /\ href = None /\ AskBase
  <2>1. Told(layout.home, p) = {}
    BY <1>1, <1>2, <1>5, AnswerTells
  <2>2. Homes = {}
    BY <1>1, <1>2, <2>1, TriedIsFirst DEF AtHome
  <2>3. ~Due
    BY <2>2 DEF Due, Lists
  <2> QED BY <1>1, <1>3, <1>5, <2>3, SameSearch, BaseIsAsked
<1>6. CASE /\ ~Redirected /\ failed' = failed /\ href # None
           /\ find' = [find EXCEPT !.stage = "collections", !.home = urljoin(call.url, href)]
           /\ call' = Lookup("collections", urljoin(call.url, href)) /\ UNCHANGED col
  <2>0. PICK home : home = urljoin(call.url, href)
    OBVIOUS
  <2>1. Told(layout.home, p) = {home}
    BY <1>1, <1>2, <1>6, <2>0, AnswerTells
  <2>2. /\ find'.stage = "collections" /\ find'.tried = find.tried /\ col' = None /\ find'.home = home
        /\ call' = Lookup("collections", home) /\ call'.kind = "collections"
    BY <1>1, <1>6, <2>0 DEF Lookup, Request, DavInv, FindInv
  <2>3. OnTrail(call, home)'
    <3>1. OnTrail(Lookup("collections", home), home)
      BY LookupOnTrail
    <3>2. call' = Lookup("collections", home) /\ Trail(home)' = Trail(home)
      BY <1>1, <2>2, SameAnswers
    <3> QED BY <3>1, <3>2 DEF OnTrail
  <2>4. Told(layout.principal, SearchUrl(find.tried))' = {p} /\ Told(layout.home, p)' = {home}
    BY <1>1, <1>2, <2>1, <2>2, SameAnswers DEF SearchUrl
  <2>5. AtCollections'
    BY <1>1, <1>6, <2>2, <2>3, <2>4 DEF AtHome, AtCollections
  <2> QED BY <1>1, <1>6, <2>2, <2>5, SameSearch DEF SearchInv, DiscoveryIsComplete, Searching
<1> QED BY <1>4, <1>5, <1>6 DEF find_home, Answered

LEMMA CollectionsSearch == DavInv /\ SearchInv /\ collections_in => SearchInv'
<1> SUFFICES ASSUME DavInv, SearchInv, collections_in PROVE SearchInv'
  OBVIOUS
<1> DEFINE listed == IF call.url \in DOMAIN layout.calendars THEN layout.calendars[call.url] ELSE {}
           found == {urljoin(call.url, href) : href \in listed}
<1>1. /\ layout' = layout /\ call # None
      /\ find.stage = "collections" /\ AtCollections /\ col = None
  BY DEF collections_in, Called, SearchInv, Searching
<1>2. PICK p : /\ Told(layout.principal, SearchUrl(find.tried)) = {p}
               /\ Told(layout.home, p) = {find.home} /\ OnTrail(call, find.home)
  BY <1>1 DEF AtCollections
<1>3. \A i \in DOMAIN SearchPaths : <<"principal", i>> \in failed => i <= find.tried
  BY DEF SearchInv
<1>4. ~Redirected => Lists = {call.url} \cap DOMAIN layout.calendars
  <2>1. Homes = {find.home}
    BY <1>1, <1>2, TriedIsFirst DEF AtCollections
  <2>2. ~Redirected => Lands(find.home) = {call.url}
    BY <1>1, <1>2, AnswerLands
  <2>3. UNION {Lands(home) : home \in Homes} = Lands(find.home)
    <3> DEFINE L == Lands(find.home)
    <3>1. \A home \in Homes : Lands(home) = L
      BY <2>1
    <3> HIDE DEF L
    <3>2. UNION {Lands(home) : home \in Homes} = L
      BY <2>1, <3>1
    <3> QED BY <3>2 DEF L
  <2> QED BY <2>2, <2>3 DEF Lists
<1>5. ~Redirected /\ Lists # {} => Calendars = found
  BY <1>4 DEF Calendars
<1>6. CASE failed' = failed \cup {<<"collections", 1>>} /\ Ends("error", {})
  <2>1. ~OnlyPathsFailed'
    BY <1>6 DEF OnlyPathsFailed
  <2>2. find'.stage = "error" /\ find'.tried = find.tried /\ call' = None
    BY <1>6 DEF Ends, DavInv, FindInv
  <2>3. \A i \in DOMAIN SearchPaths : <<"principal", i>> \in failed' => i <= find'.tried
    BY <1>3, <1>6, <2>2
  <2>4. \A i \in DOMAIN SearchPaths : i < find'.tried => i \notin Leads'
    BY <1>1, <1>6, <2>2, LeadsShrink DEF SearchInv
  <2> QED BY <2>1, <2>2, <2>3, <2>4 DEF SearchInv, DiscoveryIsComplete, Searching
<1>7. CASE ~Redirected /\ failed' = failed /\ found # {} /\ Ends("items", found)
  <2>1. find'.stage = "items" /\ find'.tried = find.tried /\ find'.result = found /\ call' = None
    BY <1>7 DEF Ends, DavInv, FindInv
  <2>2. Lists' # {} => Calendars' = found
    BY <1>1, <1>5, <1>7, SameSearch
  <2> HIDE DEF found
  <2>3. DiscoveryIsComplete'
    BY <1>7, <2>1, <2>2 DEF DiscoveryIsComplete
  <2>4. \A i \in DOMAIN SearchPaths : i < find'.tried => i \notin Leads'
    BY <1>1, <1>7, <2>1, LeadsShrink DEF SearchInv
  <2> QED BY <1>3, <1>7, <2>1, <2>3, <2>4 DEF SearchInv, Searching
<1>8. CASE ~Redirected /\ failed' = failed /\ found = {} /\ AskBase
  <2>1. Due => Calendars = {}
    BY <1>5, <1>8 DEF Due
  <2> QED BY <1>1, <1>3, <1>8, <2>1, SameSearch, BaseIsAsked
<1> QED BY <1>6, <1>7, <1>8 DEF collections_in, Answered

LEMMA BaseSearch == DavInv /\ SearchInv /\ base_as_collection => SearchInv'
<1> SUFFICES ASSUME DavInv, SearchInv, base_as_collection PROVE SearchInv'
  OBVIOUS
<1>1. /\ layout' = layout /\ call # None
      /\ find.stage = "base" /\ AtBase /\ col = None
  BY DEF base_as_collection, Called, SearchInv, Searching
<1>2. ASSUME NEW stage \in {"items", "error"}, NEW result, Ends(stage, result),
             \/ failed' = failed \cup {<<"base", 1>>}
             \/ failed' = failed /\ ~Redirected /\ result = {call.url} \cap layout.isCalendar
      PROVE  SearchInv'
  <2>1. find'.stage = stage /\ find'.tried = find.tried /\ find'.result = result /\ call' = None
    BY <1>2 DEF Ends, DavInv, FindInv
  <2>2. \A i \in DOMAIN SearchPaths : i < find'.tried => i \notin Leads'
    BY <1>1, <1>2, <2>1, LeadsShrink DEF SearchInv
  <2>3. \A i \in DOMAIN SearchPaths : <<"principal", i>> \in failed' => i <= find'.tried
    BY <1>2, <2>1 DEF SearchInv
  <2>4. DiscoveryIsComplete'
    <3>1. CASE failed' = failed \cup {<<"base", 1>>}
      BY <3>1 DEF DiscoveryIsComplete, OnlyPathsFailed
    <3>2. CASE failed' = failed /\ ~Redirected /\ result = {call.url} \cap layout.isCalendar
      <4>1. Lands(Base) = {call.url}
        BY <1>1, <3>2, AnswerLands DEF AtBase
      <4> QED BY <1>1, <2>1, <3>2, <4>1, SameSearch, SameAnswers DEF DiscoveryIsComplete, AtBase, Due
    <3> QED BY <1>2, <3>1, <3>2
  <2> QED BY <2>1, <2>2, <2>3, <2>4 DEF SearchInv, Searching
<1>3. CASE \E stage \in {"items", "error"} : Ends(stage, {}) /\ failed' = failed \cup {<<"base", 1>>}
  BY <1>2, <1>3
<1>4. CASE /\ \E stage \in {"items", "error"} : Ends(stage, {})
           /\ failed' = failed /\ ~Redirected /\ call.url \notin layout.isCalendar
  <2>1. {} = {call.url} \cap layout.isCalendar
    BY <1>4
  <2> QED BY <1>2, <1>4, <2>1
<1>5. CASE Ends("items", {call.url}) /\ failed' = failed /\ ~Redirected /\ call.url \in layout.isCalendar
  <2>1. {call.url} = {call.url} \cap layout.isCalendar
    BY <1>5
  <2> QED BY <1>2, <1>5, <2>1
<1> QED BY <1>3, <1>4, <1>5 DEF base_as_collection, Answered

-----------------------------------------------------------------------------
(* A call about the collection is only made when the search has ended, and *)
(* leads to no question of the search.                                     *)
LEMMA CallsSpareTheSearch ==
    ASSUME DavInv, SearchInv,
           \/ Caller \/ Environment \/ sync_collection \/ list_items \/ calendar_query
           \/ calendar_multiget \/ get \/ WriteFails \/ WriteWorks
    PROVE  SearchInv'
<1>1. layout' = layout /\ UNCHANGED findVars
  BY DEF Caller, Environment, Pull, StartGet, StartWrite, WriteLate, OtherClient, sync_collection, list_items,
         calendar_query, calendar_multiget, get, WriteFails, WriteWorks, Quiet
<1>2. CASE Environment
  BY <1>1, <1>2, SearchStays DEF Environment, WriteLate, OtherClient
<1>3. CASE Caller
  <2>1. find.stage \notin Searching
    BY <1>3 DEF Caller, Pull, StartGet, StartWrite, Starts, Idle, SearchInv
  <2>2. call'.kind \notin Searching
    <3>1. CASE \E k \in {"sync", "list", "query"} : Pull(k)
      BY <3>1 DEF Pull, Starts, Request, Searching
    <3>2. CASE \E h \in Members : StartGet(h)
      BY <3>2 DEF StartGet, Starts, Request, Searching
    <3>3. CASE \E h \in Members, k \in {"put", "delete"}, f \in BOOLEAN : StartWrite(k, h, f)
      BY <3>3 DEF StartWrite, Starts, Request, Searching
    <3> QED BY <1>3, <3>1, <3>2, <3>3 DEF Caller
  <2> QED BY <1>1, <2>1, <2>2, SearchStays
<1>4. CASE sync_collection \/ list_items \/ calendar_query \/ calendar_multiget \/ get \/ WriteFails \/ WriteWorks
  <2>1. find.stage \notin Searching
    BY <1>4 DEF sync_collection, list_items, calendar_query, calendar_multiget, get, WriteFails, WriteWorks,
                Called, SearchInv, Searching
  <2>2. CASE sync_collection \/ list_items \/ calendar_query \/ calendar_multiget \/ get
    <3>1. call' # None => call'.kind \notin Searching
      BY <2>2 DEF sync_collection, list_items, calendar_query, calendar_multiget, get, Fetches, Copied, Request, Searching
    <3> QED BY <1>1, <2>1, <3>1, SearchStays
  <2>3. CASE WriteFails \/ WriteWorks
    <3>1. call' # None => call'.kind \notin Searching
      BY <2>3, WriteIsNotRedirected DEF WriteFails, WriteWorks, DavInv, CallInv, RequestOK, Called
    <3> QED BY <1>1, <2>1, <3>1, SearchStays
  <2> QED BY <1>4, <2>2, <2>3
<1> QED BY <1>2, <1>3, <1>4

LEMMA StepSearch == DavInv /\ SearchInv /\ [Next]_vars => SearchInv'
<1> SUFFICES ASSUME DavInv, SearchInv, [Next]_vars PROVE SearchInv'
  OBVIOUS
<1>1. CASE UNCHANGED vars
  BY <1>1, SearchStays DEF vars, findVars
<1> QED BY <1>1, SearchFollows, PrincipalSearch, HomeSearch, CollectionsSearch, BaseSearch, CallsSpareTheSearch
        DEF Next, ClientStep

(* The discovery misses no calendar of the home set and invents none,      *)
(* wherever the servers redirect, whichever paths lead nowhere, loop or    *)
(* fail, and however many there are (dav.py, discover_principal to         *)
(* _base_as_collection).                                                   *)
THEOREM DiscoveryFindsAll == Spec => []DiscoveryIsComplete
<1>1. Init => DavInv /\ SearchInv
  BY InitDav, InitSearch
<1>2. DavInv /\ SearchInv /\ [Next]_vars => (DavInv /\ SearchInv)'
  BY StepDav, StepSearch
<1>3. SearchInv => DiscoveryIsComplete
  BY DEF SearchInv
<1> QED BY <1>1, <1>2, <1>3, PTL DEF Spec
==============================================================================
