------------------------------ MODULE MCCodecs ------------------------------
(* Small inputs for Codecs. *)
EXTENDS Codecs, TLC

SeqsUpTo(S, n) == UNION {[1..k -> S] : k \in 0..n}

(* "wide" takes three octets, and so does a word. *)
MCOctets(c) == IF c \in {"wide", "abc", "NOTE", "TYPE", "DESCRIPTION"} THEN 3 ELSE 1
MCCapitals == [home |-> "HOME", work |-> "WORK", text |-> "TEXT", note |-> "NOTE", etc |-> "ETC"]
MCDays == 0..6
Quarter == 21600
MCClocks == {0, Quarter, 2 * Quarter, 3 * Quarter}
MCZones == (<<"Europe", "Oslo">> :> Quarter) @@ (<<"America", "Indiana", "Knox">> :> -Quarter)
MCNumbers == 0..60 \cup {90}
MCPlain == ("=3D" :> <<"=">>) @@ ("=0D=0A" :> <<"\r", "\n">>) @@ ("=E6" :> <<"wide">>)

------------------------------------------------------------------------------
Awkward == {"\\", ";", ",", ":", "\"", "\n", "\r", " ", "n", "abc", "wide"}
OneLine == Awkward \ {"\n", "\r"}
ParamAtoms == {"\"", ";", ",", ":", " ", "\n", "abc", "work"}
Line(g, n, ps, v) == [group |-> g, name |-> n, params |-> ps, value |-> v]
MCLines ==
    {Line("item1", "NOTE", << <<"TYPE", <<"work">> >> >>, v) : v \in SeqsUpTo(Awkward \ {",", "abc"}, 4)}
    \cup {Line("", "N", <<>>, v) : v \in SeqsUpTo(OneLine, 3)}
    \cup {Line("", n, << <<"VALUE", <<"text">> >> >>, v) : n \in {"N", "note"}, v \in SeqsUpTo(Awkward, 2)}
    \cup {Line("", "NOTE", << <<k, p>>, <<"X", <<"abc">> >> >>, <<"abc">>) : k \in {"TYPE", "X"}, p \in SeqsUpTo(ParamAtoms, 3)}
    \cup {Line("", "DESCRIPTION", <<>>, [i \in 1..n |-> c]) : n \in 1..12, c \in {"wide", " ", ";", "\n"}}
Texts2 == SeqsUpTo({"\\", ";", ",", "\n", "\r", " ", "n"}, 2)
MCLists == SeqsUpTo(Texts2, 2) \cup [1..3 -> {<<>>, <<"\\">>, <<";", ",">>, <<"\\", "n">>}]

------------------------------------------------------------------------------
Prop(n, v) == [group |-> "", name |-> n, params |-> <<>>, value |-> v]
Comp(n, ps, cs) == [name |-> n, properties |-> ps, children |-> cs]
Summary(v) == Prop("SUMMARY", v)
Alarm == Comp("VALARM", <<Prop("TRIGGER", <<"-", "P", "T", "15", "M">>), Summary(<<"abc", "\n">>)>>, <<>>)
MCCalendars ==
    {Comp("VCALENDAR", ps, cs) :
        ps \in {<<>>, <<Prop("VERSION", <<"2.0">>)>>,
                <<Summary(<<"\\">>), Prop("RRULE", <<"abc", ";", "abc">>), Summary(<<";">>)>>},
        cs \in {<<>>, <<Comp("VEVENT", <<Summary(<<"BEGIN", ":", "n">>)>>, <<Alarm, Alarm>>), Comp("VTODO", <<>>, <<>>)>>,
                <<Comp("VEVENT", <<>>, <<Comp("VEVENT", <<Summary(<<"\r", "\n", "END">>)>>, <<>>)>>)>>}}
MCEdits == {Summary(<<",">>), Prop("UID", <<"abc">>), [Prop("RRULE", <<"wide">>) EXCEPT !.params = << <<"X", <<";">> >> >>]}

At2(d, s, z) == [day |-> d, clock |-> s, zone |-> z]
Day(d) == At2(d, -1, <<>>)
UTCZone == <<"UTC">>
Oslo == <<"Europe", "Oslo">>
Starts == {Day(2), At2(2, 0, <<>>), At2(2, 3 * Quarter, Oslo)}
Ends == {<<>>, <<Day(1)>>, <<Day(2)>>, <<Day(4)>>, <<At2(2, 0, UTCZone)>>, <<At2(2, 3 * Quarter, Oslo)>>, <<At2(3, 0, <<>>)>>,
         <<At2(3, Quarter, UTCZone)>>}
MCEvents ==
    {[uid |-> u, summary |-> s, start |-> b, end |-> e, all_day |-> a, location |-> <<"abc">>, description |-> d,
      categories |-> c, alarm |-> m, transparent |-> <<FALSE>>, dtstamp |-> At2(0, 0, <<>>)] :
        u \in {<<"abc">>}, s \in {<<"abc", ",">>}, b \in Starts, e \in Ends, a \in BOOLEAN, d \in {<<>>, <<"\n", ";">>},
        c \in {<<>>, << <<" ">>, <<",", "\\">>, <<"abc", ";">> >>}, m \in {<<>>, <<0>>, <<1>>, <<15>>, <<1440>>, <<10080>>}}
    \cup {[uid |-> u, summary |-> <<>>, start |-> Day(1), end |-> <<>>, all_day |-> TRUE, location |-> <<>>,
           description |-> <<>>, categories |-> <<>>, alarm |-> m, transparent |-> <<>>, dtstamp |-> At2(0, 0, Oslo)] :
            u \in {<<" ">>, <<"abc">>}, m \in {<<-1>>, <<>>}}
MCTasks ==
    {[uid |-> <<"abc">>, summary |-> <<"\r", "abc">>, due |-> d, start |-> <<>>, completed |-> <<At2(1, 0, UTCZone)>>, priority |-> p,
      percent_complete |-> q, status |-> <<" ", "note">>, description |-> <<>>, categories |-> c, dtstamp |-> At2(0, 0, UTCZone)] :
        d \in {<<>>, <<Day(3)>>, <<At2(3, Quarter, Oslo)>>}, p \in {<<>>, <<9>>, <<10>>}, q \in {<<>>, <<90>>, <<101>>},
        c \in {<<>>, << <<"\\", ",">> >>}}
MCMoments ==
    {<<At2(3, s, z), t>> : s \in MCClocks, z \in {<<>>, UTCZone, Oslo},
        t \in {<<>>, <<"Europe", "/", "Oslo">>, <<"/", "abc", "/", "America", "/", "Indiana", "/", "Knox">>,
               <<"etc", "/", "UTC">>, <<"Europe", "/", "abc">>}}
    \cup {<<Day(3), t>> : t \in {<<>>, <<"Europe", "/", "Oslo">>}}
MCDurations ==
    LET lengths == {0, 1, 59, 60, 61, 3599, 3600, 3601, 86399, 86400, 86401, 90061, 6 * 86400, 7 * 86400, 7 * 86400 + 60,
                    8 * 86400, 14 * 86400, 21 * 86400 + 3600}
    IN lengths \cup {-d : d \in lengths}

------------------------------------------------------------------------------
Typed(n, t, v) == [Prop(n, v) EXCEPT !.params = << <<"TYPE", t>> >>]
MCCards ==
    {<<ps, v>> :
        ps \in {<<>>, <<Prop("VERSION", <<"2.1">>), Prop("FN", <<"abc", ",", "abc">>)>>,
                <<Typed("TEL", <<"WORK", ",", "HOME">>, <<"abc">>), Prop("NOTE", <<"\n", "abc", "=">>)>>,
                <<[Prop("PHOTO", <<"abc", "=">>) EXCEPT !.params = << <<"ENCODING", <<"BASE64">> >> >>], Prop("FN", <<"abc">>)>>,
                <<[Prop("X-ABDATE", <<"day3">>) EXCEPT !.group = "item1"],
                  [Prop("X-ABLABEL", <<"_$!<Anniversary>!$_">>) EXCEPT !.group = "item1"]>>},
        v \in {<<"2.1">>, <<"3.0">>, <<"4.0">>, <<"5.0">>}}
MCContacts ==
    {[uid |-> <<"abc">>, name |-> n, fn |-> f, org |-> o, title |-> <<>>, note |-> <<"abc", "\r", "\n", "abc">>, url |-> <<>>,
      nickname |-> k, tels |-> << <<(<<"abc">>), <<(<<"WORK">>), (<<"work">>)>> >> >>,
      emails |-> << <<(<<" ", "abc">>), <<>> >> >>, adrs |-> a, bday |-> b, anniversary |-> x, categories |-> c] :
        n \in {[i \in 1..5 |-> <<>>], << <<";">>, <<"abc", " ">>, <<>>, <<"\\">>, <<",">> >>},
        f \in {<<>>, <<"abc", ";">>}, o \in {<<>>, << <<"abc", ";">>, <<"\\">> >>}, k \in {<<>>, <<"abc", ",", "abc">>},
        a \in {<<>>, << <<(<< <<>>, <<";">>, <<"abc">> >>), <<(<<"HOME">>)>> >> >>},
        b \in {<<>>, <<"day3">>, <<"day-4", "T", "abc">>}, x \in {<<>>, <<"day2">>, <<"abc">>}, c \in {<<>>, << <<",">>, <<" ">>, <<"abc">> >>}}
Card(ls) == FlattenSeq([k \in DOMAIN ls |-> ls[k] \o <<"\r", "\n">>])
MCForeign ==
    {[text |-> Card(<< <<"BEGIN", ":", "VCARD">> >> \o ls \o << <<"END", ":", "VCARD">> >>), value |-> v] : ls \in {
        << <<"NOTE", ";", "QUOTED-PRINTABLE", ";", "CHARSET", "=", "abc", ":", "abc", "=">>, <<"=3D", "=">>, <<"=E6", "abc">> >>},
        v \in {<<"abc", "=", "wide", "abc">>}}
    \cup {[text |-> Card(<< <<"BEGIN", ":", "VCARD">>, <<"TEL", ";", "work", ":", "abc">>, <<"AGENT", ":">>, <<"BEGIN", ":", "VCARD">>,
                            <<"TEL", ":", "wide">>, <<"END", ":", "VCARD">>, <<"END", ":", "VCARD">> >>), value |-> <<"abc">>],
          [text |-> Card(<< <<"BEGIN", ":", "VCARD">>, <<"PHOTO", ";", "BASE64", ":", "abc", "=">>, <<" ", "abc", "=">>,
                            <<"END", ":", "VCARD">> >>), value |-> <<"abc", "=", "abc", "=">>]}

------------------------------------------------------------------------------
(* Registries: a hub with an adapter below it, an adapter with two drivers, *)
(* a bridge in the dock, a handheld, an adapter nobody knows.               *)
MCProfiles == (<<1, 1>> :> [role |-> "serial-bridge", driver |-> "built-in"])
              @@ (<<1, AnyProduct>> :> [role |-> "serial-bridge", driver |-> "vendor-extension"])
              @@ (<<3, 3>> :> [role |-> "wince-usb-sync", driver |-> "none"])
Entry(c, u) == [class |-> c, usb |-> u, driver |-> "none", path |-> 0, access |-> FALSE, marked |-> FALSE, usb_class |-> 0, location |-> 0]
Device(u, l, m) == [Entry("device", u) EXCEPT !.location = l, !.marked = m]
Interface(u, drv) == [Entry("interface", u) EXCEPT !.driver = drv]
Tty(p, a) == [Entry("serial", <<0, 0>>) EXCEPT !.path = p, !.access = a, !.driver = "client"]
Registry(roots, entries, children) == [roots |-> roots, entry |-> entries, children |-> children]
HubAt(l) == [Device(<<9, 9>>, l, FALSE) EXCEPT !.usb_class = 9]
MCBuses ==
    {Registry(<<>>, <<>>, <<>>)}
    \cup {Registry(<<1, 2, 5>>,  \* printed once more below the hub
        <<HubAt(1), Device(<<1, 1>>, 2, FALSE), Interface(<<255, 0>>, "apple"), Tty(2, a),
          Device(<<1, 2>>, 3, m), Interface(<<255, 0>>, "vendor"), Tty(1, b)>>,
        << <<2, 5>>, <<3>>, <<4>>, <<>>, <<6>>, <<7>>, <<>> >>) : a, b, m \in BOOLEAN}
    \cup {Registry(<<1, 6>>,     \* one adapter with two nodes, behind a hub no driver marks as one; a handheld
        <<Device(<<1, 1>>, 1, m), Interface(<<255, 0>>, "apple"), Tty(3, a), Interface(<<255, 1>>, "vendor"), Tty(4, b),
          [Device(<<8, 8>>, 2, FALSE) EXCEPT !.usb_class = 0], Interface(<<9, 0>>, "none"), Device(<<3, 3>>, 3, FALSE)>>,
        << <<2, 4>>, <<3>>, <<>>, <<5>>, <<>>, <<7, 8>>, <<>>, <<>> >>) : a, b, m \in BOOLEAN}
    \cup {Registry(<<1, 4>>,     \* a class-compliant adapter, and one without a node that another is plugged into
        <<Device(<<7, 7>>, 2, m), Interface(<<2, 2>>, "apple"), Tty(5, a), Device(<<1, 5>>, 1, FALSE), Interface(<<255, 0>>, "none"),
          Device(<<1, 1>>, 3, m), Interface(<<255, 0>>, "vendor"), Tty(1, b)>>,
        << <<2>>, <<3>>, <<>>, <<5, 6>>, <<>>, <<7>>, <<8>>, <<>> >>) : a, b, m \in BOOLEAN}
    \cup {Registry(<<1>>, <<Device(<<6, 6>>, 1, FALSE), Tty(p, a)>>, << <<2>>, <<>> >>) : p \in {2, 3}, a \in BOOLEAN}
MCPins == 1..5
MCHandhelds == {<<"none", [jornada |-> FALSE, holds |-> {}, ends |-> {}]>>, <<"ARM", [jornada |-> FALSE, holds |-> {}, ends |-> {}]>>,
                <<"SH3", [jornada |-> TRUE, holds |-> {"690e", "690"}, ends |-> {"690e"}]>>}
MCUsbSerial == {1, 3}

------------------------------------------------------------------------------
(* Records of the databases: what the user may leave on the device, and     *)
(* what the sync may write there.                                           *)
Str(id, t) == pim!PropVal(id, "string", t)
Blob(t) == pim!PropVal("NOTES", "blob", t)
Num(id, kind, n) == pim!PropVal(id, kind, n)
Filetime(id, d, s) == pim!PropVal(id, "filetime", [day |-> d, clock |-> s])
T(d, s) == [day |-> d, clock |-> s]
Basic(minutes, type) ==
    <<Str("SUBJECT", <<"abc">>), Filetime("START", 7, 3600), Num("DURATION", "i4", minutes), Num("TYPE", "i4", type)>>
Records(pss) == [k \in DOMAIN pss |-> pim!Record(pss[k])]
MCOnDevice == [
    appointment |-> Records(<<
         Basic(0, 2), Basic(0, 1) \o <<Str("LOCATION", <<"n">>), Str("CATEGORIES", <<"n", ",", " ", "n">>)>>,
         Basic(1440, 1) \o <<Blob(<<Ink, "n">>)>>,
         Basic(2881, 1) \o <<Num("REMINDER_ENABLED", "i2", 1), Num("REMINDER_MINUTES", "i4", 15), Num("BUSY_STATUS", "i2", 3)>>,
         Basic(90, 2) \o <<Blob(<<"n", tp!CR, tp!LF, "n">>), Num("OCCURRENCE", "i2", 0)>>,
         Basic(90, 2) \o <<Num("OCCURRENCE", "i2", 1)>>, Basic(90, 2) \o <<pim!PropVal("RECURRENCE_PATTERN", "blob", <<"n">>)>>,
         <<Filetime("START", 0, 0)>> >>),
    task |-> Records(<<
         <<Str("SUBJECT", <<"abc">>)>>, <<Filetime("DUE", 7, 0), Filetime("TASK_START", 0, 0), Num("IMPORTANCE", "i4", 1)>>,
         <<Filetime("COMPLETED", 8, 60), Blob(<<"n", "etx">>)>>, <<Num("COMPLETED", "i2", 0), Num("SENSITIVITY", "i2", 1)>>,
         <<Str("CATEGORIES", <<",", "n">>), Filetime("COMPLETED", 5, 0)>> >>),
    contact |-> Records(<<
         <<Str("FULL_NAME", <<"abc">>), Str("EMAIL2", <<"n">>)>>,
         <<Str("first_name", <<"abc">>), Str("work2 tel", <<"n">>), Str("EMAIL", <<"abc">>), Str("EMAIL3", <<"abc">>)>>,
         <<Str("home street", <<"n">>), Str("home country", <<"n">>), Filetime("BIRTHDAY", 7, 0), Blob(<<Ink>>)>>,
         <<Str("CATEGORIES", <<"n">>), Str("company", <<"abc">>), Str("home2 tel", <<"n">>), Filetime("ANNIVERSARY", 7, 0)>> >>)]
NoteTexts == {<<>>, <<"n", tp!LF>>, <<" ", "n", tp!CR, tp!LF, "n", "wide">>}
CategoryLists == {<<>>, << <<"n">>, <<" ">>, <<"n", ",", "abc">>, <<"n">> >>}
NoTexts == [f \in ToSet(pim!TEXT_FIELDS) |-> <<>>]
NoContact == [text |-> NoTexts, full_name |-> <<>>, emails |-> <<>>, phones |-> <<>>, addresses |-> <<>>, birthday |-> <<>>,
              anniversary |-> <<>>, notes |-> <<>>, categories |-> <<>>]
Named(t) == [NoContact EXCEPT !.full_name = t]
Meeting ==
    [summary |-> <<"abc", " ">>, start |-> T(7, 3630), end |-> T(7, 3690), all_day |-> FALSE, location |-> <<>>, notes |-> <<>>,
     categories |-> <<>>, busy_status |-> "tentative", private |-> FALSE, reminder |-> <<>>, recurring |-> FALSE]
Chore ==
    [summary |-> <<"abc">>, due |-> <<>>, start |-> <<>>, completed |-> <<>>, priority |-> "low", notes |-> <<>>, categories |-> <<>>,
     private |-> FALSE]
Number == {<<"work", <<"n">> >>, <<"home", <<"abc", " ">> >>, <<"x", <<",">> >>}
Address(kind, i) == <<kind, [k \in 1..5 |-> IF k \in i THEN <<"n", " ">> ELSE <<" ">>]>>
MCModels == [
    appointment |->
        {[Meeting EXCEPT !.all_day = a, !.end = e] : a \in BOOLEAN, e \in {T(6, 0), T(7, 3690), T(7, 3720), T(7, 3780), T(8, 0), T(9, 60)}}
        \cup {[Meeting EXCEPT !.notes = n, !.categories = g] : n \in NoteTexts, g \in CategoryLists}
        \cup {[Meeting EXCEPT !.summary = <<>>, !.location = <<" ", "n">>, !.busy_status = "elsewhere", !.reminder = <<0>>],
               [Meeting EXCEPT !.all_day = TRUE, !.start = T(7, 0), !.private = TRUE, !.reminder = <<15>>]},
    task |->
        {[Chore EXCEPT !.due = d, !.completed = c] : d \in {<<>>, <<7>>}, c \in {<<>>, <<5>>, <<8>>}}
        \cup {[Chore EXCEPT !.summary = <<" ">>, !.start = <<8>>, !.notes = n, !.categories = g, !.priority = "urgent", !.private = TRUE] :
            n \in NoteTexts, g \in CategoryLists},
    contact |->
        {[Named(<<"n">>) EXCEPT !.phones = <<p, q, <<"work2", <<",">> >> >>] : p, q \in Number}
        \cup {[Named(<<"abc", " ">>) EXCEPT !.notes = n] : n \in NoteTexts}
        \cup {[NoContact EXCEPT !.text["company"] = <<" ", "abc">>, !.text["first_name"] = IF b = <<>> THEN <<>> ELSE <<"n">>,
                                 !.emails = e, !.birthday = b] :
            b \in {<<>>, <<8>>},
            e \in {<<>>, << <<"n", " ">>, <<>>, <<"n">>, <<"abc">> >>, << <<"n">>, <<"abc">>, <<",">>, <<" ", ";">> >>}}
        \cup {[NoContact EXCEPT !.emails = << <<" ", "n">> >>, !.addresses = as, !.anniversary = <<7>>] :
            as \in {<<Address("home", {2}), Address("home", {})>>, <<Address("home", {}), Address("other", 1..5)>>,
                    <<Address("cabin", {1}), Address("home", {5})>>, <<Address("home", {2}), Address("home", {3})>>}}]
==============================================================================
