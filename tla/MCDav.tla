-------------------------------- MODULE MCDav --------------------------------
(* Four servers' answers to the discovery: calendars beside the base; a      *)
(* well-known path that leads to another host, whose collection has moved    *)
(* again; a base that is itself a calendar, next to a redirect loop and an   *)
(* empty home set; a home set that redirects from https to http.             *)
EXTENDS Dav, TLC

MCBase == <<"s", "dav">>
MCSearchPaths == <<<<None, "dav">>, <<None, "wk">>, <<None, "root">>>>
At(h, p) == <<h, p>>
Moves(c, h, p) == [code |-> c, to |-> <<h, p>>]
Plain == [moved |-> <<>>, isCalendar |-> {},
          principal |-> (At("s", "dav") :> At(None, "me")) @@ (At("s", "root") :> At(None, "me")),
          home |-> (At("s", "me") :> At(None, "home")),
          calendars |-> (At("s", "home") :> {At(None, "cal")})]
Moved == [moved |-> (At("s", "wk") :> Moves(301, "t", "dav")) @@ (At("t", "cal") :> Moves(307, None, "new")),
          isCalendar |-> {},
          principal |-> (At("t", "dav") :> At(None, "me")),
          home |-> (At("t", "me") :> At(None, "home")),
          calendars |-> (At("t", "home") :> {At(None, "cal")})]
Itself == [moved |-> (At("s", "wk") :> Moves(302, None, "root")) @@ (At("s", "root") :> Moves(308, None, "wk")),
           isCalendar |-> {At("s", "dav")},
           principal |-> (At("s", "dav") :> At(None, "me")),
           home |-> (At("s", "me") :> At(None, "home")),
           calendars |-> (At("s", "home") :> {})]
Refused == [Plain EXCEPT !.moved = (At("s", "home") :> Moves(301, "plain", "home")) @@ (At("s", "dav") :> Moves(301, None, "x"))]
MCLayouts == {Plain, Moved, Itself, Refused}
=============================================================================
