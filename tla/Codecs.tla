------------------------------- MODULE Codecs -------------------------------
(* What a writer writes, a reader reads: values, content lines, calendars   *)
(* and cards are written to text, the text may be cut short on its way, and *)
(* it is read back.  The port the USB doctor picks is the one the link      *)
(* opens, while adapters are plugged and ports pinned.  And a record of     *)
(* the device is what the sync wrote, whatever was stored there before and  *)
(* whatever the user did to it since it was listed.                         *)
EXTENDS Integers, SequencesExt

CONSTANTS
    Octets(_), FOLD_LIMIT, Capitals,          \* TextProps
    Days, Clocks, Numbers, Zones,             \* ICal
    Plain,                                    \* VCard
    Profiles, AnyProduct, Apple,              \* UsbDoctor
    UNKNOWN_COMPLETION_DATE, Today, OutsideCodePage, Ink,     \* PocketOutlook
    Lines, Lists,          \* content lines with values to be encoded; sequences of texts
    Calendars, Edits,      \* components, and properties put into them
    Events, Tasks,         \* arguments of vevent and of vtodo
    Moments, Durations,    \* <<moment, tzid>> and numbers of seconds
    Cards, Contacts,       \* <<properties, version>>, and arguments of make_vcard
    Foreign,               \* [text, value] of another program's card with one property
    Models, OnDevice,      \* type -> set of models, and sequence of records a user may leave
    MaxEdits, MaxWrites,   \* bounds on the steps of that user, and of the sync
    Buses, Pins, Handhelds, UsbSerial     \* registries, paths, <<hardware, name>>, nodes named usbserial-*

ASSUME DaysHaveClocks == Days \subseteq Nat /\ Clocks \subseteq 0..86399 /\ 0 \in Clocks

tp == INSTANCE TextProps
ical == INSTANCE ICal
vcard == INSTANCE VCard
usb == INSTANCE UsbDoctor
pim == INSTANCE PocketOutlook

VARIABLES
    job,       \* what is converted, by kind
    sent,      \* has the writer written
    text,      \* the text between writer and reader
    cut,       \* was it cut short
    back       \* what the reader made of it

vars == <<job, sent, text, cut, back>>
Pending == [ok |-> FALSE, error |-> "pending"]
Job(kind, S) == [kind : {kind}, what : S]
(* A slot of a database: the record the device holds, the one that was      *)
(* listed, the model last written if the user has not touched it since (and *)
(* whether it was the sync's own, listed again), the properties the user    *)
(* had added between its listing and its write, and how often the user and  *)
(* the sync have been at it.                                                *)
Slot(type, stored) ==
    [type |-> type, stored |-> stored, listed |-> <<>>, meant |-> <<>>, own |-> FALSE, missed |-> {}, edits |-> 0, writes |-> 0]

Init ==
    /\ \/ \E type \in DOMAIN Models : \E k \in {0} \cup DOMAIN OnDevice[type] :
            job = [kind |-> "record", what |-> Slot(type, IF k = 0 THEN <<>> ELSE <<OnDevice[type][k]>>)]
       \/ job \in UNION {Job("line", Lines), Job("structured", Lists), Job("list", Lists), Job("calendar", Calendars),
                      Job("event", Events), Job("task", Tasks), Job("moment", Moments), Job("duration", Durations),
                      Job("card", Cards), Job("contact", Contacts), Job("foreign", Foreign),
                      Job("usb", [bus : Buses, pin_file : {usb!NoPath, usb!Garbage}, helper : {<<>>}, handheld : Handhelds])}
    /\ sent = FALSE /\ text = <<>> /\ cut = FALSE /\ back = Pending

------------------------------------------------------------------------------
(* The writers. *)
PropertyOf(x) ==
    CASE job.kind = "moment" -> ical!datetime_property("DTSTART", x[1], x[2])
      [] job.kind = "duration" -> ical!Property("DURATION", ical!format_duration(x))
Built(x) ==
    CASE job.kind = "calendar" -> ical!AsValue(x)
      [] job.kind = "event" -> ical!vevent(x)
      [] job.kind = "task" -> ical!vtodo(x)
      [] job.kind \in {"moment", "duration"} -> ical!AsValue(ical!Component("VEVENT", <<PropertyOf(x)>>, <<>>))

Write(t) == sent' = TRUE /\ text' = t /\ UNCHANGED <<job, cut, back>>
Refuse(why) == back' = why /\ UNCHANGED <<job, sent, text, cut>>
Fresh == ~sent /\ back = Pending

WriteLine ==
    /\ Fresh /\ job.kind = "line"
    /\ LET l == job.what
       IN Write(tp!fold(tp!format_line(l.group, l.name, l.params, tp!encode_value(l.name, l.params, l.value))))
WriteList ==
    /\ Fresh /\ job.kind \in {"structured", "list"}
    /\ Write(IF job.kind = "list" THEN vcard!join_list(job.what) ELSE vcard!join_structured(job.what))
WriteCalendar ==
    /\ Fresh /\ job.kind \in {"calendar", "event", "task", "moment", "duration"}
    /\ LET built == Built(job.what)
       IN IF ~built.ok THEN Refuse(built)
          ELSE Write(ical!serialize(IF job.kind = "calendar" THEN built.value ELSE ical!vcalendar(<<built.value>>)))
WriteCard ==
    /\ Fresh /\ job.kind \in {"card", "contact"}
    /\ LET card == IF job.kind = "card" THEN ical!AsValue(job.what[1]) ELSE vcard!make_vcard(job.what)
           version == IF job.kind = "card" THEN job.what[2] ELSE <<"3.0">>
           written == vcard!serialize(card.value, version)
       IN IF ~card.ok THEN Refuse(card) ELSE IF ~written.ok THEN Refuse(written) ELSE Write(written.value)
ReceiveForeign == Fresh /\ job.kind = "foreign" /\ Write(job.what.text)
(* The owner of a component changes a property before it is written. *)
Edit ==
    /\ Fresh /\ job.kind = "calendar"
    /\ \E p \in Edits, replace \in BOOLEAN :
        job' = [kind |-> "edited", what |-> [of |-> job.what, by |-> p, replace |-> replace]]
    /\ UNCHANGED <<sent, text, cut, back>>
WriteEdited ==
    /\ Fresh /\ job.kind = "edited"
    /\ Write(ical!serialize(ical!with_property(job.what.of, job.what.by, job.what.replace)))

(* The text is cut short on its way. *)
CutShort ==
    /\ sent /\ back = Pending /\ ~cut
    /\ job.kind \in {"calendar", "card"}
    /\ \E n \in 0..Len(text) - 1 : text' = SubSeq(text, 1, n)
    /\ cut' = TRUE
    /\ UNCHANGED <<job, sent, back>>

(* The readers. *)
Read(result) == back' = result /\ UNCHANGED <<job, sent, text, cut>>
Written == sent /\ back = Pending
ReadLine ==
    /\ Written /\ job.kind = "line"
    /\ LET lines == tp!unfold(text)
           line == tp!parse_line(lines[1])
       IN Read(IF Len(lines) # 1 THEN tp!Failed("several lines") ELSE ical!AsValue(ical!property_from_line(line)))
ReadList ==
    /\ Written /\ job.kind \in {"structured", "list"}
    /\ Read(ical!AsValue(IF job.kind = "list" THEN vcard!split_list(text) ELSE vcard!split_structured(text)))
ReadCalendar ==
    /\ Written /\ job.kind \in {"calendar", "edited", "event", "task", "moment", "duration"}
    /\ Read(ical!parse(text))
ReadCard == Written /\ job.kind \in {"card", "contact", "foreign"} /\ Read(vcard!parse(text))

------------------------------------------------------------------------------
(* Adapters come and go, ports are pinned, the helper that starts the link  *)
(* without a password is installed, and the link is started.                *)
Attached(reg) == {reg.entry[n].path : n \in {m \in DOMAIN reg.entry : reg.entry[m].class = "serial"}} \ {usb!NoPath}
Replug ==
    /\ job.kind = "usb" /\ back = Pending
    /\ \E bus \in Buses : bus # job.what.bus /\ job' = [job EXCEPT !.what.bus = bus]
    /\ UNCHANGED <<sent, text, cut, back>>
Pin ==
    /\ job.kind = "usb" /\ back = Pending
    /\ \E path \in Pins : job' = [job EXCEPT !.what.pin_file = usb!cmd_pin(path, Attached(job.what.bus), @)]
    /\ UNCHANGED <<sent, text, cut, back>>
Unpin ==
    /\ job.kind = "usb" /\ back = Pending
    /\ job' = [job EXCEPT !.what.pin_file = usb!NoPath]
    /\ UNCHANGED <<sent, text, cut, back>>
SetUp ==
    /\ job.kind = "usb" /\ back = Pending
    /\ job' = [job EXCEPT !.what.helper = usb!setup_passwordless(job.what.pin_file)]
    /\ UNCHANGED <<sent, text, cut, back>>
Connect ==
    /\ job.kind = "usb" /\ back = Pending
    /\ LET u == job.what
           devices == usb!parse_registry(u.bus)
           pinned == usb!read_pin(u.pin_file)
           d == usb!diagnose(devices, pinned, usb!identify_handheld(u.handheld[1], u.handheld[2]))
           helped == usb!jornada_connect(u.helper, Attached(u.bus), UsbSerial)
       IN Read([ok |-> TRUE, diagnosis |-> d, status |-> usb!format_status(d), pick |-> usb!exit_status("pick", d),
                jornada_ppp |-> usb!jornada_ppp(u.pin_file, d.recommended, Attached(u.bus), UsbSerial),
                jornada_connect |-> helped,
                app |-> usb!startLink(usb!serialDevice(devices, pinned, Attached(u.bus), UsbSerial), helped)])

------------------------------------------------------------------------------
(* Records: the user at the device, and a sync session.                     *)
slot == job.what
OnWire(props) == pim!unpack_record(pim!pack_record(props))
OrNothing(record) == IF record = <<>> THEN <<>> ELSE record[1]
Became(s) == job' = [job EXCEPT !.what = s] /\ UNCHANGED <<sent, text, cut, back>>
UserStores ==
    /\ job.kind = "record" /\ slot.edits < MaxEdits
    /\ \E k \in DOMAIN OnDevice[slot.type] :
        Became([slot EXCEPT !.stored = <<OnDevice[slot.type][k]>>, !.meant = <<>>, !.own = FALSE, !.missed = {}, !.edits = @ + 1])
ListRecord ==
    /\ job.kind = "record" /\ slot.stored # <<>> /\ slot.writes < MaxWrites
    /\ LET props == FoldSet(LAMBDA id, found : Append(found, slot.stored[1][id]), <<>>, DOMAIN slot.stored[1])
       IN Became([slot EXCEPT !.listed = <<pim!Record(OnWire(props))>>])
(* A record that is not there is created.  One that was listed is updated,  *)
(* once before the next listing: with a record of the other side, or with   *)
(* what was listed itself, which the other side has kept since.             *)
WriteRecord ==
    /\ job.kind = "record" /\ slot.writes < MaxWrites
    /\ slot.stored = <<>> \/ slot.listed # <<>>
    /\ LET type == slot.type
           now == OrNothing(slot.stored)
           existing == OrNothing(slot.listed)
           listed == pim!decode(type, existing)
       IN /\ ~pim!read_only(type, listed)
          /\ \E model \in Models[type] \cup (IF slot.listed = <<>> THEN {} ELSE {listed}) :
               LET props == OnWire(pim!encode(type, model, existing))
               IN Became([slot EXCEPT !.stored = <<pim!merged(now, props)>>, !.listed = <<>>, !.meant = <<model>>,
                              !.own = existing # <<>> /\ slot.meant # <<>> /\ slot.missed = {} /\ model = listed, !.writes = @ + 1,
                              !.missed = DOMAIN now \ (DOMAIN existing \cup {props[k].id : k \in DOMAIN props})])

Next ==
    \/ UserStores \/ ListRecord \/ WriteRecord
    \/ WriteLine \/ WriteList \/ WriteCalendar \/ WriteCard \/ ReceiveForeign \/ Edit \/ WriteEdited \/ CutShort
    \/ ReadLine \/ ReadList \/ ReadCalendar \/ ReadCard
    \/ Replug \/ Pin \/ Unpin \/ SetUp \/ Connect
Spec == Init /\ [][Next]_vars

------------------------------------------------------------------------------
(* What is to be read back, stated without the readers. *)
Whole == back # Pending /\ ~cut
ReadBack(what) == back.ok /\ back.value = what
IsKind(kinds) == Whole /\ job.kind \in kinds

CarriedProperty(p) ==
    [p EXCEPT !.name = tp!upper_word(@), !.params = tp!CarriedParams(p.params),
              !.value = IF tp!is_text_value(p.name, p.params) THEN tp!OneLineBreak(p.value) ELSE p.value]
Carried(properties) == [k \in DOMAIN properties |-> CarriedProperty(properties[k])]
RECURSIVE CarriedComponent(_)
CarriedComponent(c) ==
    [c EXCEPT !.properties = Carried(@), !.children = [k \in DOMAIN @ |-> CarriedComponent(@[k])]]
Texts(ts) == [k \in DOMAIN ts |-> tp!OneLineBreak(ts[k])]
Width(t) == FoldLeft(LAMBDA sum, c : sum + Octets(c), 0, t)

(* A value that is encoded, put into a content line, folded and read comes *)
(* back as it was: whatever its backslashes, separators, quotes and line    *)
(* breaks, and wherever the line is folded, no physical line is too long    *)
(* and no part of a list or a structured value moves to its neighbour.      *)
TextReadsBack ==
    /\ IsKind({"line"}) =>
        /\ ReadBack(CarriedProperty(job.what))
        /\ \A part \in ToSet(tp!Split(tp!Normalized(text), tp!At(tp!Normalized(text), tp!LF))) :
            Width(part) <= FOLD_LIMIT
    /\ IsKind({"structured"}) => ReadBack(IF job.what = <<>> THEN << <<>> >> ELSE Texts(job.what))
    /\ IsKind({"list"}) => ReadBack(vcard!Items(Texts(job.what)))

(* The last day of an all-day event: a date is the day after it, a time     *)
(* inside a day includes that day; and the event has a day at least.        *)
DayAfter(e) ==
    LET first == e.start.day
        asked == IF e.end = <<>> THEN first
                 ELSE IF e.end[1].clock \in {ical!NoClock, 0} THEN e.end[1].day ELSE e.end[1].day + 1
    IN IF asked > first THEN asked ELSE first + 1
Instant(m) == m.day * 86400 + m.clock - ical!Offset(m.zone)
SameMoment(read, m) ==
    IF m.clock = ical!NoClock \/ m.zone = ical!NoZone THEN read = m
    ELSE read.zone = ical!UTC /\ Instant(read) = Instant(m)
EndOf(e) ==
    IF e.end # <<>> THEN e.end[1] ELSE IF ical!IsDate(e.start) THEN ical!Date(e.start.day + 1) ELSE e.start
EventReadsBack(e, v) ==
    LET span == ical!event_span(v)
    IN /\ span.ok
       /\ IF e.all_day
          THEN span.value = <<ical!Date(e.start.day), ical!Date(DayAfter(e))>> /\ ical!is_all_day(v)
          ELSE SameMoment(span.value[1], e.start) /\ SameMoment(span.value[2], EndOf(e))
       /\ ical!value(v, "SUMMARY") = tp!OneLineBreak(e.summary)
       /\ ical!value(v, "DESCRIPTION") = tp!OneLineBreak(e.description)
       /\ ical!alarm_minutes_before(v) = e.alarm
       /\ ical!categories_of(v) = ical!Cleaned(Texts(e.categories))
TaskReadsBack(t, v) ==
    /\ ical!categories_of(v) = ical!Cleaned(Texts(t.categories))
    /\ ical!value(v, "SUMMARY") = tp!OneLineBreak(t.summary)
    /\ ical!has(v, "DUE") = (t.due # <<>>)
    /\ t.due # <<>> => SameMoment(ical!parse_datetime(ical!get_all(v, "DUE")[1]).value, t.due[1])
(* A time in a zone keeps its instant when the zone is known, and its face  *)
(* when it is not.                                                          *)
MomentReadsBack(m, tzid, read) ==
    LET zone == ical!resolve_zone(tzid)
    IN IF m.clock = ical!NoClock \/ tzid = <<>> THEN SameMoment(read, m)
       ELSE IF zone = ical!NoZone THEN read = [m EXCEPT !.zone = ical!NoZone]
       ELSE read.zone = zone /\ (IF m.zone = ical!NoZone THEN <<read.day, read.clock>> = <<m.day, m.clock>>
                                  ELSE Instant(read) = Instant(m))
EditedComponent(c, p, replace) ==
    LET others == SelectSeq(c.properties, LAMBDA q : ~replace \/ q.name # p.name)
        before == Cardinality({k \in DOMAIN c.properties : \A j \in 1..k : c.properties[j].name # p.name})
    IN [c EXCEPT !.properties = IF replace THEN SubSeq(others, 1, before) \o <<p>> \o SubSeq(others, before + 1, Len(others))
                                ELSE Append(others, p)]

(* A calendar comes back with the same tree of components, and a reader of  *)
(* an event finds the span, the alarm and the categories its builder was    *)
(* given: the day after the last one for an event of whole days, the same   *)
(* instant for a time in a zone, the same length for a duration.            *)
CalendarReadsBack ==
    LET v == ical!find(back.value, IF job.kind = "task" THEN "VTODO" ELSE "VEVENT")
    IN /\ IsKind({"calendar"}) => ReadBack(CarriedComponent(job.what))
       /\ IsKind({"edited"}) =>
            ReadBack(CarriedComponent(EditedComponent(job.what.of, job.what.by, job.what.replace)))
       /\ IsKind({"event"}) =>
            IF sent THEN back.ok /\ EventReadsBack(job.what, v)
            ELSE tp!strip(job.what.uid) = <<>> \/ ~ical!Bounded(job.what.alarm, 0, 10080)
       /\ IsKind({"task"}) =>
            IF sent THEN back.ok /\ TaskReadsBack(job.what, v)
            ELSE job.what.priority = <<10>> \/ job.what.percent_complete = <<101>>
       /\ IsKind({"moment"}) =>
            back.ok /\ MomentReadsBack(job.what[1], job.what[2], ical!parse_datetime(v.properties[1]).value)
       /\ IsKind({"duration"}) => back.ok /\ ical!parse_duration(v.properties[1].value) = ical!AsValue(job.what)

Entries(es, value(_)) ==
    [k \in DOMAIN es |-> <<value(es[k][1]), vcard!Distinct([i \in DOMAIN es[k][2] |-> vcard!lower(es[k][2][i])])>>]
ContactReadsBack(c, card) ==
    /\ vcard!name_parts(card) = vcard!Stripped(Texts(c.name))
    /\ vcard!formatted_name(card) # <<>>
    /\ c.fn # <<>> => vcard!formatted_name(card) = tp!strip(tp!OneLineBreak(c.fn))
    /\ vcard!org_parts(card) = vcard!Stripped(Texts(c.org))
    /\ vcard!telephones(card) = Entries(c.tels, LAMBDA t : tp!strip(t))
    /\ vcard!emails(card) = Entries(c.emails, LAMBDA t : tp!strip(t))
    /\ vcard!addresses(card) = Entries(c.adrs, LAMBDA a : vcard!Padded(Texts(a), 7))
    /\ vcard!birthday(card) = vcard!parse_vcard_date(c.bday)
    /\ vcard!anniversary(card) = vcard!parse_vcard_date(c.anniversary)
    /\ vcard!split_list(vcard!value(card, "CATEGORIES")) = vcard!Items(Texts(c.categories))
    /\ vcard!split_list(vcard!value(card, "NICKNAME")) = vcard!Items(<<tp!OneLineBreak(c.nickname)>>)
Version4(p, version) == [p EXCEPT !.params = vcard!params_for_version(@, version)]

(* A card comes back with the same properties (its version apart), and a    *)
(* contact with the fields its builder was given; another program's         *)
(* quoted-printable text and pictures are read as what they stand for.      *)
CardReadsBack ==
    /\ IsKind({"card"}) /\ sent =>
        /\ back.ok /\ Len(back.value) = 1
        /\ vcard!version(back.value[1]) = job.what[2]
        /\ LET kept == SelectSeq(job.what[1], LAMBDA p : p.name # "VERSION")
           IN Tail(back.value[1]) = Carried([k \in DOMAIN kept |-> Version4(kept[k], job.what[2])])
    /\ IsKind({"contact"}) /\ sent =>
        back.ok /\ Len(back.value) = 1 /\ ContactReadsBack(job.what, back.value[1])
    /\ IsKind({"foreign"}) =>
        back.ok /\ Len(back.value) = 1 /\ back.value[1][1].value = job.what.value

(* A calendar or card that was cut short is never taken for a whole one: it *)
(* is refused unless only the last line break is missing, or nothing at all *)
(* came, which is no card.                                                  *)
CutIsNoticed ==
    back # Pending /\ cut /\ back.ok =>
        \/ text = <<>> /\ back.value = <<>>
        \/ tp!Normalized(text) # <<>> /\ SubSeq(text, Len(text) - 2, Len(text)) \in
                {<<"END", ":", "VCALENDAR">>, <<"END", ":", "VCARD">>, <<":", "VCALENDAR", tp!CR>>, <<":", "VCARD", tp!CR>>}

------------------------------------------------------------------------------
(* A pinned port before the others, one the user can open before one only   *)
(* root can, the dock before a plain adapter, Apple's driver before a       *)
(* vendor's.                                                                *)
Better(a, b, pinned) ==
    LET key(c) == <<c.path = pinned, c.writable, c.role = usb!DOCK_BRIDGE, c.driver \in Apple>>
        first == {k \in 1..4 : key(a)[k] # key(b)[k]}
    IN first # {} /\ key(a)[Min(first)]
(* The nearest device above an entry. *)
RECURSIVE OwnerOf(_, _)
OwnerOf(reg, n) ==
    LET above == {p \in DOMAIN reg.entry : n \in ToSet(reg.children[p])}
        p == CHOOSE p \in above : TRUE
    IN IF above = {} THEN 0 ELSE IF reg.entry[p].class = "device" THEN p ELSE OwnerOf(reg, p)
NodesOf(reg, d) ==
    {reg.entry[n].path : n \in {m \in DOMAIN reg.entry : reg.entry[m].class = "serial" /\ OwnerOf(reg, m) = d}}
        \ {usb!NoPath}


------------------------------------------------------------------------------
(* What of a record is to be found on the device, stated without its codec. *)
Kept(t) == tp!strip(t)
KeptNotes(t) == [i \in DOMAIN tp!OneLineBreak(Kept(t)) |->
    LET c == tp!OneLineBreak(Kept(t))[i] IN IF c \in OutsideCodePage THEN "?" ELSE c]
KeptCategories(ts) == vcard!Distinct(vcard!Items(FlattenSeq([k \in DOMAIN ts |-> tp!Split(ts[k], tp!At(ts[k], ","))])))
KeptSubject(t) == IF Kept(t) = <<>> THEN pim!NoSubject ELSE Kept(t)
KeptEnd(a, end) ==
    LET asked == pim!SecondsTo(a.start, a.end)
        length == pim!SecondsTo(a.start, end)
    IN IF a.all_day THEN end = pim!At0(Max({a.end.day, a.start.day + 1}))
       ELSE length % 60 = 0 /\ length >= 0 /\ (asked >= 0 => length - asked \in -30..30) /\ (asked < 0 => length = 0)
AppointmentKept(a, r) ==
    /\ r.summary = KeptSubject(a.summary) /\ r.location = Kept(a.location) /\ r.notes = KeptNotes(a.notes)
    /\ r.all_day = a.all_day /\ r.start = (IF a.all_day THEN pim!midnight(a.start) ELSE a.start) /\ KeptEnd(a, r.end)
    /\ r.categories = KeptCategories(a.categories) /\ r.private = a.private /\ r.reminder = a.reminder
    /\ a.busy_status \in ToSet(pim!BUSY_STATES) => r.busy_status = a.busy_status
TaskKept(t, r) ==
    /\ r.summary = KeptSubject(t.summary) /\ r.notes = KeptNotes(t.notes) /\ r.due = t.due /\ r.start = t.start
    /\ r.completed = (IF t.completed = <<UNKNOWN_COMPLETION_DATE>> THEN <<Today>> ELSE t.completed)
    /\ r.categories = KeptCategories(t.categories) /\ r.private = t.private
    /\ t.priority \in ToSet(pim!PRIORITIES) => r.priority = t.priority

(* A number has the slot of its kind, or the second one; none is lost while *)
(* there is room for it.                                                    *)
NumberSlots(p) ==
    CASE p[1] \in {"work", "home"} -> {p[1], p[1] \o "2"}
      [] p[1] \in pim!PHONE_KINDS \ {"work", "home"} -> {p[1]}
      [] OTHER -> {"work", "work2"}
PhonesKept(given, read) ==
    /\ \A p \in read : \E q \in given : p[1] \in NumberSlots(q) /\ p[2] = Kept(q[2])
    /\ \A q \in given : Kept(q[2]) # <<>> =>
         \/ \E p \in read : p[1] \in NumberSlots(q) /\ p[2] = Kept(q[2])
         \/ NumberSlots(q) \subseteq {p[1] : p \in read}
AddressesKept(given, read) ==
    \A kind \in ToSet(pim!ADDRESS_KINDS) :
        LET of == {k \in DOMAIN given : given[k][1] = kind /\ given[k][2] # pim!NoAddress}
            found == {a \in ToSet(read) : a[1] = kind}
        IN IF of = {} \/ vcard!Stripped(given[Max(of)][2]) = pim!NoAddress THEN found = {}
           ELSE found = {<<kind, vcard!Stripped(given[Max(of)][2])>>}
ContactKept(c, r) ==
    /\ r.text = [f \in DOMAIN c.text |-> Kept(c.text[f])] /\ r.notes = KeptNotes(c.notes)
    /\ Kept(c.full_name) # <<>> => r.full_name = Kept(c.full_name)
    /\ r.full_name = <<>> =>
         Kept(c.full_name) = <<>> /\ \A f \in {"first_name", "middle_name", "last_name", "company"} : Kept(c.text[f]) = <<>>
    /\ LET emails == vcard!Distinct(vcard!Items(c.emails)) IN r.emails = SubSeq(emails, 1, Min({3, Len(emails)}))
    /\ PhonesKept(ToSet(c.phones), ToSet(r.phones)) /\ AddressesKept(c.addresses, r.addresses)
    /\ r.birthday = c.birthday /\ r.anniversary = c.anniversary /\ r.categories = KeptCategories(c.categories)

(* The device holds of a record what the sync last wrote, in every field,   *)
(* whatever the record was before: a field that is empty now is gone, an    *)
(* appointment keeps its days or its minutes, a note its lines, and a       *)
(* number finds a slot.  Only what the user added between the listing and   *)
(* the write may show beside it.                                            *)
RecordKept ==
    job.kind = "record" /\ slot.meant # <<>> =>
        LET r == slot.stored[1]
            shown == [id \in DOMAIN r \ slot.missed |-> r[id]]
            read == pim!normalized(slot.type, pim!decode(slot.type, shown))
        IN CASE slot.type = "appointment" -> AppointmentKept(slot.meant[1], read)
             [] slot.type = "task" -> TaskKept(slot.meant[1], read)
             [] slot.type = "contact" -> ContactKept(slot.meant[1], read)

(* What the sync compares and pairs records by survives the device.  The    *)
(* record it lists after a write is the one it would list after writing     *)
(* that one back, so a sync never takes its own writes for changes; and it  *)
(* has the key of the record it was written from, so a sync that lost its   *)
(* state pairs the two again.  Two things have no such key: a record without *)
(* a subject, and an all-day event that begins inside a day.                *)
Keyed(model) ==
    CASE slot.type = "appointment" -> Kept(model.summary) # <<>> /\ (model.all_day => model.start.clock = 0)
      [] slot.type = "task" -> Kept(model.summary) # <<>>
      [] slot.type = "contact" -> TRUE
WrittenBackIsTheSame ==
    job.kind = "record" /\ slot.meant # <<>> /\ slot.missed = {} =>
        LET type == slot.type
            listed == pim!decode(type, slot.stored[1])
            meant == slot.meant[1]
        IN /\ slot.own => pim!normalized(type, listed) = pim!normalized(type, meant)
           /\ Keyed(meant) => pim!match_key(type, listed) = pim!match_key(type, meant)
==============================================================================
