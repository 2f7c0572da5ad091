-------------------------------- MODULE ICal --------------------------------
(* Calendars: components, dates and durations, the builders of events and   *)
(* tasks and what a reader takes from them (src/jornada/webapi/ical.py).    *)
(*                                                                          *)
(* A moment is [day, clock, zone]: a date has the clock NoClock, a floating *)
(* time the zone NoZone.  Digits are written and read as one atom.          *)
EXTENDS TextProps

CONSTANTS
    Days, Clocks,      \* the days, and the seconds of a day, that have a text
    Numbers,           \* the numbers a duration may hold
    Zones              \* what zoneinfo knows: segments of a name -> seconds east of UTC

NoClock == -1
NoZone == <<>>
UTC == <<"UTC">>
UTC_NAMES == {<<"UTC">>, <<"GMT">>, <<"Z">>, <<"ETC", "UTC">>, <<"ETC", "GMT">>, <<"UCT">>, <<"ZULU">>}
None == "none"

Property(name, value) == [group |-> "", name |-> upper_word(name), params |-> <<>>, value |-> value]
WithParam(p, key, value) == [p EXCEPT !.params = << <<key, value>> >>]
AsValue(x) == [ok |-> TRUE, value |-> x]
Component(name, properties, children) == [name |-> name, properties |-> properties, children |-> children]

------------------------------------------------------------------------------
(* Reading and changing a component. *)
Named(properties, name) == SelectSeq(properties, LAMBDA p : p.name = name)
get_all(c, name) == Named(c.properties, name)
has(c, name) == get_all(c, name) # <<>>
value(c, name) == IF has(c, name) THEN get_all(c, name)[1].value ELSE <<>>
param(p, name) == LET found == param_of(p.params, name) IN IF found = <<>> THEN <<>> ELSE found[1]

with_property(c, p, replace) ==
    LET same == {k \in DOMAIN c.properties : c.properties[k].name = p.name}
        others == SelectSeq(c.properties, LAMBDA q : q.name # p.name)
    IN IF ~replace \/ same = {} THEN [c EXCEPT !.properties = Append(@, p)]
       ELSE [c EXCEPT !.properties = InsertAt(others, Min({Min(same), Len(others) + 1}), p)]
without_property(c, name) == [c EXCEPT !.properties = SelectSeq(@, LAMBDA q : q.name # name)]
with_child(c, child) == [c EXCEPT !.children = Append(@, child)]

RECURSIVE find_all(_, _)
find_all(c, name) ==      \* every descendant of that name, depth first
    FlattenSeq([k \in DOMAIN c.children |->
        (IF c.children[k].name = name THEN <<c.children[k]>> ELSE <<>>) \o find_all(c.children[k], name)])
find(c, name) == find_all(c, name)[1]

------------------------------------------------------------------------------
(* Text to components and back. *)
property_from_line(line) ==
    [group |-> line.group, name |-> line.name, params |-> line.params,
     value |-> decode_value(line.name, line.params, line.value)]

(* The open components, the innermost last; the first stands for the text. *)
Opened(frames) == [ok |-> TRUE, frames |-> frames]
ParseLine(frames, text) ==
    LET line == parse_line(text)
        inner == Len(frames)
        tag == word(upper(strip(line.value)))
        closed == [frames EXCEPT ![inner - 1].children = Append(@, frames[inner])]
    IN IF ~line.ok THEN Failed(line.error)
       ELSE IF line.name = "BEGIN" THEN Opened(Append(frames, Component(tag, <<>>, <<>>)))
       ELSE IF line.name # "END" THEN Opened([frames EXCEPT ![inner].properties = Append(@, property_from_line(line))])
       ELSE IF inner = 1 THEN Failed("END without BEGIN")
       ELSE IF frames[inner].name # tag THEN Failed("END closes another component")
       ELSE Opened(SubSeq(closed, 1, inner - 1))

top_level(top) ==
    LET present == {top.properties[k].name : k \in DOMAIN top.properties}
        defaults == << Property("VERSION", <<"2.0">>), Property("PRODID", <<"jornada">>) >>
    IN IF top.children = <<>> /\ top.properties = <<>> THEN Failed("no content")
       ELSE IF Len(top.children) = 1 /\ top.properties = <<>> THEN AsValue(top.children[1])
       ELSE AsValue(Component("VCALENDAR",
                SelectSeq(defaults, LAMBDA p : p.name \notin present) \o top.properties, top.children))

Frames(text) ==
    LET step(state, line) == IF state.ok THEN ParseLine(state.frames, line) ELSE state
    IN FoldLeft(step, Opened(<<Component("VCALENDAR", <<>>, <<>>)>>), unfold(text))
parse(text) ==
    LET end == Frames(text)
    IN IF ~end.ok THEN end
       ELSE IF Len(end.frames) > 1 THEN Failed("unterminated BEGIN")
       ELSE top_level(end.frames[1])

Rendered(p) == fold(format_line(p.group, p.name, p.params, encode_value(p.name, p.params, p.value))) \o CRLF
RECURSIVE serialize(_)
serialize(c) ==
    <<"BEGIN", ":", c.name>> \o CRLF
    \o FlattenSeq([k \in DOMAIN c.properties |-> Rendered(c.properties[k])])
    \o FlattenSeq([k \in DOMAIN c.children |-> serialize(c.children[k])])
    \o <<"END", ":", c.name>> \o CRLF

------------------------------------------------------------------------------
(* Dates and times. *)
DAY == 86400
Date(d) == [day |-> d, clock |-> NoClock, zone |-> NoZone]
DateTime(d, s, z) == [day |-> d, clock |-> s, zone |-> z]
IsDate(m) == m.clock = NoClock
DayText(d) == "day" \o ToString(d)
ClockText(s) == "clock" \o ToString(s)
IsDayText(a) == \E d \in Days : DayText(d) = a
DayOf(a) == CHOOSE d \in Days : DayText(d) = a
ClockOf(a) == CHOOSE s \in Clocks : ClockText(s) = a
Moved(d, s, z) == DateTime(d + s \div DAY, s % DAY, z)      \* s seconds after the midnight of day d

resolve_zone(tzid) ==
    LET bare == SelectSeq(tzid, LAMBDA a : a # "/")     \* no empty segment inside a name
        segments == upper(bare)
        tail(n) == SubSeq(bare, Len(bare) - n + 1, Len(bare))
        known == {n \in {Len(bare)} \cup {k \in {2, 3} : Len(bare) > k} : tail(n) \in DOMAIN Zones}
    IN IF segments \in UTC_NAMES THEN UTC ELSE IF known = {} THEN NoZone ELSE tail(Max(known))
Offset(z) == IF z = UTC THEN 0 ELSE Zones[z]
InZone(m, z) == Moved(m.day, m.clock - Offset(m.zone) + Offset(z), z)     \* astimezone

format_date(m) == <<DayText(m.day)>>
LocalText(m) == <<DayText(m.day), "T", ClockText(m.clock)>>
format_datetime(m) == IF m.zone = NoZone THEN LocalText(m) ELSE LocalText(InZone(m, UTC)) \o <<"Z">>
local_text(m, tzid) ==
    LET zone == resolve_zone(tzid)
    IN LocalText(IF m.zone # NoZone /\ zone # NoZone THEN InZone(m, zone) ELSE m)
datetime_property(name, m, tzid) ==
    IF IsDate(m) THEN WithParam(Property(name, format_date(m)), "VALUE", <<"DATE">>)
    ELSE IF tzid # <<>> THEN WithParam(Property(name, local_text(m, tzid)), "TZID", tzid)
    ELSE Property(name, format_datetime(m))

parse_date(text) ==
    IF Len(text) = 1 /\ IsDayText(text[1]) THEN AsValue(Date(DayOf(text[1]))) ELSE Failed("malformed date")
parse_datetime(p) ==
    LET text == strip(p.value)
        declared == upper(param(p, "VALUE"))
        tzid == param(p, "TZID")
        timed == Len(text) \in {3, 4} /\ IsDayText(text[1]) /\ text[2] = "T" /\ (Len(text) = 4 => text[4] = "Z")
        zone == IF Len(text) = 4 THEN UTC ELSE IF tzid = <<>> THEN NoZone ELSE resolve_zone(tzid)
    IN IF declared = <<"DATE">> THEN parse_date(SubSeq(text, 1, Min({1, Len(text)})))
       ELSE IF declared # <<"DATE-TIME">> /\ parse_date(text).ok THEN parse_date(text)
       ELSE IF ~timed THEN Failed("malformed date-time")
       ELSE AsValue(DateTime(DayOf(text[1]), ClockOf(text[3]), zone))

------------------------------------------------------------------------------
(* Durations, in seconds. *)
Amounts(n, unit) == IF n = 0 THEN <<>> ELSE <<ToString(n), unit>>
format_duration(seconds) ==
    LET sign == IF seconds < 0 THEN <<"-">> ELSE <<>>
        total == IF seconds < 0 THEN -seconds ELSE seconds
        days == total \div DAY
        rest == total % DAY
        clock == Amounts(rest \div 3600, "H") \o Amounts((rest % 3600) \div 60, "M") \o Amounts(rest % 60, "S")
        body == Amounts(days, "D") \o (IF clock = <<>> THEN <<>> ELSE <<"T">> \o clock)
    IN sign \o <<"P">> \o (IF days # 0 /\ days % 7 = 0 /\ rest = 0 THEN <<ToString(days \div 7), "W">>
                           ELSE IF body = <<>> THEN <<"T", "0", "S">> ELSE body)

IsNumber(a) == \E n \in Numbers : ToString(n) = a
NumberOf(a) == CHOOSE n \in Numbers : ToString(n) = a
Unit == [W |-> 7 * DAY, D |-> DAY, H |-> 3600, M |-> 60, S |-> 1]
(* <<number, unit>> pairs, the units in the order given, each at most once. *)
Fields(text, units) ==
    /\ Len(text) % 2 = 0
    /\ \A k \in 1..Len(text) \div 2 : IsNumber(text[2 * k - 1]) /\ text[2 * k] \in ToSet(units)
    /\ \A j, k \in 1..Len(text) \div 2 :
        j < k => Min(At(units, text[2 * j])) < Min(At(units, text[2 * k]))
Seconds(text) ==
    FoldLeft(LAMBDA sum, k : sum + NumberOf(text[2 * k - 1]) * Unit[text[2 * k]], 0, [k \in 1..Len(text) \div 2 |-> k])
parse_duration(t) ==
    LET text == upper(strip(t))
        signed == text # <<>> /\ text[1] \in {"+", "-"}
        body == IF signed THEN Tail(text) ELSE text
        halves == Split(body, At(body, "T"))
        days == IF halves[1] = <<>> THEN <<>> ELSE Tail(halves[1])
        clock == IF Len(halves) = 2 THEN halves[2] ELSE <<>>
        sum == Seconds(days) + Seconds(clock)
    IN IF /\ body # <<>> /\ body[1] = "P" /\ Len(halves) <= 2
          /\ Fields(days, <<"W", "D">>) /\ Fields(clock, <<"H", "M", "S">>)
          /\ Len(halves) = 2 => clock # <<>>
          /\ days \o clock # <<>>
       THEN AsValue(IF text[1] = "-" THEN -sum ELSE sum)
       ELSE Failed("malformed duration")

------------------------------------------------------------------------------
(* Builders.  An argument that may be missing is a sequence of at most one. *)
vcalendar(components) ==
    Component("VCALENDAR", << Property("VERSION", <<"2.0">>), Property("PRODID", <<"jornada">>),
                              Property("CALSCALE", <<"GREGORIAN">>) >>, components)

dtstamp(m) == Property("DTSTAMP", format_datetime(IF m.zone = NoZone THEN [m EXCEPT !.zone = UTC] ELSE m))
(* Mutant: the end of an all-day event is its last day, not the day after. *)
as_date_Inside(m, inclusive) == Date(m.day)
as_date(m, inclusive) ==
    Date(IF inclusive \/ IsDate(m) \/ m.clock = 0 THEN m.day ELSE m.day + 1)
span_properties(start, end, all_day) ==
    LET first == as_date(start, TRUE)
        asked == IF end = <<>> THEN first ELSE as_date(end[1], FALSE)
        last_exclusive == Date(Max({asked.day, first.day + 1}))
    IN IF all_day
       THEN << datetime_property("DTSTART", first, <<>>), datetime_property("DTEND", last_exclusive, <<>>) >>
       ELSE <<datetime_property("DTSTART", start, <<>>)>>
            \o [k \in DOMAIN end |-> datetime_property("DTEND", end[k], <<>>)]
text_property(name, text) == IF text = <<>> THEN <<>> ELSE <<Property(name, text)>>
Cleaned(items) == SelectSeq([k \in DOMAIN items |-> strip(items[k])], LAMBDA t : t # <<>>)
categories_properties(categories) ==
    LET items == Cleaned(categories)
    IN IF items = <<>> THEN <<>>
       ELSE <<Property("CATEGORIES", Join([k \in DOMAIN items |-> escape(items[k])], <<",">>))>>
display_alarm(minutes, summary) ==
    Component("VALARM", << Property("ACTION", <<"DISPLAY">>), Property("TRIGGER", format_duration(-60 * minutes)),
                           Property("DESCRIPTION", summary) >>, <<>>)
Bounded(optional, low, high) == \A k \in DOMAIN optional : optional[k] \in low..high

vevent(e) ==
    IF strip(e.uid) = <<>> THEN Failed("uid must be a non-empty string")
    ELSE IF \E k \in DOMAIN e.alarm : e.alarm[k] < 0 THEN Failed("alarm_minutes_before must be non-negative")
    ELSE AsValue(Component("VEVENT",
        << Property("UID", e.uid), dtstamp(e.dtstamp), Property("SUMMARY", e.summary) >>
        \o span_properties(e.start, e.end, e.all_day)
        \o text_property("LOCATION", e.location) \o text_property("DESCRIPTION", e.description)
        \o categories_properties(e.categories)
        \o [k \in DOMAIN e.transparent |->
                Property("TRANSP", IF e.transparent[k] THEN <<"TRANSPARENT">> ELSE <<"OPAQUE">>)],
        [k \in DOMAIN e.alarm |-> display_alarm(e.alarm[k], e.summary)]))

vtodo(t) ==
    LET dated(name, when) == [k \in DOMAIN when |-> datetime_property(name, when[k], <<>>)]
        number(name, n) == [k \in DOMAIN n |-> Property(name, <<ToString(n[k])>>)]
    IN IF strip(t.uid) = <<>> THEN Failed("uid must be a non-empty string")
       ELSE IF ~Bounded(t.priority, 0, 9) THEN Failed("priority must be between 0 and 9")
       ELSE IF ~Bounded(t.percent_complete, 0, 100) THEN Failed("percent_complete must be between 0 and 100")
       ELSE AsValue(Component("VTODO",
           << Property("UID", t.uid), dtstamp(t.dtstamp), Property("SUMMARY", t.summary) >>
           \o dated("DTSTART", t.start) \o dated("DUE", t.due) \o dated("COMPLETED", t.completed)
           \o number("PRIORITY", t.priority) \o text_property("STATUS", upper(strip(t.status)))
           \o number("PERCENT-COMPLETE", t.percent_complete)
           \o text_property("DESCRIPTION", t.description) \o categories_properties(t.categories), <<>>))

------------------------------------------------------------------------------
(* Readers. *)
relative_trigger(alarm) ==      \* at most one number of seconds
    LET trigger == get_all(alarm, "TRIGGER")
        delta == parse_duration(trigger[1].value)
    IN IF upper(value(alarm, "ACTION")) = <<"NONE">> \/ trigger = <<>> THEN <<>>
       ELSE IF upper(param(trigger[1], "VALUE")) = <<"DATE-TIME">> \/ ~delta.ok THEN <<>>
       ELSE <<delta.value>>
Minutes(seconds) ==             \* Python's round(): a half goes to the even neighbour
    seconds \div 60 + (IF seconds % 60 > 30 \/ (seconds % 60 = 30 /\ (seconds \div 60) % 2 = 1) THEN 1 ELSE 0)
alarm_minutes_before(c) ==
    LET alarms == find_all(c, "VALARM")
        deltas == FlattenSeq([k \in DOMAIN alarms |-> relative_trigger(alarms[k])])
        early == SelectSeq(deltas, LAMBDA d : d < 0)
    IN IF early # <<>> THEN <<Minutes(-early[1])>> ELSE IF deltas # <<>> THEN <<0>> ELSE <<>>

categories_of(c) ==
    LET lists == get_all(c, "CATEGORIES")
        items(v) == LET parts == split_unescaped(v, ",") IN [k \in DOMAIN parts |-> unescape(parts[k])]
    IN Cleaned(FlattenSeq([k \in DOMAIN lists |-> items(lists[k].value)]))

is_all_day(c) ==
    /\ has(c, "DTSTART")
    /\ LET start == get_all(c, "DTSTART")[1]
       IN upper(param(start, "VALUE")) = <<"DATE">> \/ parse_date(strip(start.value)).ok

Plus(m, seconds) ==
    IF IsDate(m) THEN Date(m.day + seconds \div DAY) ELSE Moved(m.day, m.clock + seconds, m.zone)
event_span(c) ==
    LET at(name) == parse_datetime(get_all(c, name)[1])
        long == parse_duration(value(c, "DURATION"))
        start == at("DTSTART")
        span(end) == AsValue(<<start.value, end>>)
    IN IF ~has(c, "DTSTART") THEN Failed("no DTSTART")
       ELSE IF ~start.ok THEN start
       ELSE IF has(c, "DTEND") THEN (IF at("DTEND").ok THEN span(at("DTEND").value) ELSE at("DTEND"))
       ELSE IF has(c, "DURATION") THEN (IF long.ok THEN span(Plus(start.value, long.value)) ELSE long)
       ELSE span(IF IsDate(start.value) THEN Date(start.value.day + 1) ELSE start.value)
==============================================================================
