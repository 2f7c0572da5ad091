---------------------------- MODULE PocketOutlook ----------------------------
(* Appointments, tasks and contacts: what the databases of the device hold, *)
(* and the records the sync compares (src/jornada/pim).                     *)
(*                                                                          *)
(* A moment is [day, clock]: days since 1601 and seconds, as a FILETIME     *)
(* counts them.  A value that may be missing is a sequence of none or one.  *)
EXTENDS TextProps, Cedb

CONSTANTS
    UNKNOWN_COMPLETION_DATE, Today,   \* days
    OutsideCodePage,                  \* characters the device cannot hold in a note
    Ink                               \* what an ink note begins with

NoTime == [day |-> 0, clock |-> 0]
At0(day) == [day |-> day, clock |-> 0]
midnight(m) == At0(m.day)
After(m, seconds) == [day |-> m.day + (m.clock + seconds) \div 86400, clock |-> (m.clock + seconds) % 86400]
SecondsTo(a, b) == (b.day - a.day) * 86400 + b.clock - a.clock

------------------------------------------------------------------------------
(* What the three codecs share. *)
NonEmpty(texts) == SelectSeq([k \in DOMAIN texts |-> strip(texts[k])], LAMBDA t : t # <<>>)
split_categories(t) == NonEmpty(Split(t, At(t, ",")))
join_categories(texts) == Join(NonEmpty(texts), <<",">>)
clean_list(texts) == FoldLeft(LAMBDA seen, t : IF t \in ToSet(seen) THEN seen ELSE Append(seen, t), <<>>, NonEmpty(texts))

string_of(r, id) == IF has_prop(r, id) /\ r[id].kind = "string" THEN r[id].value ELSE <<>>
int_of(r, id, default) ==
    IF ~has_prop(r, id) THEN default
    ELSE CASE r[id].kind \in {"i2", "i4", "ui2"} -> r[id].value
           [] r[id].kind = "bool" -> IF r[id].value THEN 1 ELSE 0
           [] OTHER -> default
filetime_of(r, id) == IF has_prop(r, id) /\ r[id].kind = "filetime" THEN r[id].value ELSE NoTime
filetime_to_naive(t) == IF t = NoTime THEN <<>> ELSE <<t>>
date_of(r, id) == LET t == filetime_to_naive(filetime_of(r, id)) IN IF t = <<>> THEN <<>> ELSE <<t[1].day>>

cleared(existing, id, kind) == IF has_prop(existing, id) THEN <<deleted(id, kind)>> ELSE <<>>
put_string_Empty(id, text, existing) == IF strip(text) = <<>> THEN <<>> ELSE <<PropVal(id, "string", strip(text))>>
put_string(id, text, existing) ==
    IF strip(text) = <<>> THEN cleared(existing, id, "string") ELSE <<PropVal(id, "string", strip(text))>>
put_date(id, day, existing) ==
    IF day = <<>> THEN cleared(existing, id, "filetime") ELSE <<PropVal(id, "filetime", At0(day[1]))>>
put_categories(texts, existing) == put_string("CATEGORIES", join_categories(texts), existing)

(* Notes: characters of the code page, CR LF, of an even length.            *)
PAD == "etx"
CrLfToLf(t) == FlattenSeq([i \in DOMAIN t |-> IF t[i] = CR /\ i < Len(t) /\ t[i + 1] = LF THEN <<>> ELSE <<t[i]>>])
encode_notes(text) ==
    LET lines == OneLineBreak(text)
        raw == FlattenSeq([i \in DOMAIN lines |->
                   IF lines[i] = LF THEN CRLF ELSE IF lines[i] \in OutsideCodePage THEN <<"?">> ELSE <<lines[i]>>])
    IN IF Len(raw) % 2 = 1 THEN Append(raw, PAD) ELSE raw
decode_notes(blob) ==
    LET text == IF blob # <<>> /\ Last(blob) = PAD THEN Front(blob) ELSE blob
        kept == Max({0} \cup {i \in DOMAIN text : text[i] # NUL})
    IN IF blob # <<>> /\ blob[1] = Ink THEN <<>> ELSE OneLineBreak(SubSeq(text, 1, kept))
put_notes(text, existing) ==
    IF strip(text) = <<>> THEN cleared(existing, "NOTES", "blob") ELSE <<PropVal("NOTES", "blob", encode_notes(text))>>
notes_of(r) ==
    IF ~has_prop(r, "NOTES") THEN <<>>
    ELSE CASE r["NOTES"].kind = "string" -> CrLfToLf(r["NOTES"].value)
           [] r["NOTES"].kind = "blob" -> decode_notes(r["NOTES"].value)
           [] OTHER -> <<>>
clean_notes(text) == strip(CrLfToLf(text))
NoSubject == <<"(no subject)">>
OrElse(text, default) == IF text = <<>> THEN default ELSE text

------------------------------------------------------------------------------
(* Appointments. *)
MINUTES_PER_DAY == 1440
BUSY_STATES == <<"free", "tentative", "busy", "out_of_office">>
busy_code(name) == IF name \in ToSet(BUSY_STATES) THEN SelectInSeq(BUSY_STATES, LAMBDA s : s = name) - 1 ELSE 2
FALLBACK_START == At0(UNKNOWN_COMPLETION_DATE)    \* both are 1970-01-01

days_from_duration(minutes) ==
    IF minutes <= 1 THEN 1
    ELSE IF minutes % MINUTES_PER_DAY = 0 THEN minutes \div MINUTES_PER_DAY
    ELSE IF (minutes - 1) % MINUTES_PER_DAY = 0 THEN (minutes - 1) \div MINUTES_PER_DAY + 1
    ELSE (minutes + MINUTES_PER_DAY - 1) \div MINUTES_PER_DAY
(* Mutant: the extra minute goes to the day that is not counted. *)
duration_for_days_Whole(days) == Max({days, 1}) * MINUTES_PER_DAY + 1
duration_for_days(days) == (Max({days, 1}) - 1) * MINUTES_PER_DAY + 1
Minutes(seconds) ==     \* round(), halves to the even neighbour
    LET whole == seconds \div 60
        rest == seconds % 60
    IN IF rest > 30 \/ (rest = 30 /\ whole % 2 = 1) THEN whole + 1 ELSE whole

decode_appointment(r) ==
    LET stored == OrElse(filetime_to_naive(filetime_of(r, "START")), <<FALLBACK_START>>)[1]
        duration == int_of(r, "DURATION", 0)
        all_day == int_of(r, "TYPE", 2) = 1
        start == IF all_day THEN midnight(stored) ELSE stored
        busy == int_of(r, "BUSY_STATUS", 2)
    IN [summary |-> string_of(r, "SUBJECT"), start |-> start,
        end |-> IF all_day THEN At0(start.day + days_from_duration(duration)) ELSE After(start, Max({duration, 0}) * 60),
        all_day |-> all_day, location |-> string_of(r, "LOCATION"), notes |-> notes_of(r),
        categories |-> split_categories(string_of(r, "CATEGORIES")),
        busy_status |-> IF busy \in 0..3 THEN BUSY_STATES[busy + 1] ELSE "busy",
        private |-> int_of(r, "SENSITIVITY", 0) = 1,
        reminder |-> IF int_of(r, "REMINDER_ENABLED", 0) # 0 THEN <<int_of(r, "REMINDER_MINUTES", 0)>> ELSE <<>>,
        recurring |-> int_of(r, "OCCURRENCE", 0) = 1 \/ has_prop(r, "RECURRENCE_PATTERN")]

reminder_props(minutes, existing) ==
    IF minutes = <<>> THEN <<PropVal("REMINDER_ENABLED", "i2", 0)>> \o cleared(existing, "REMINDER_MINUTES", "i4")
    ELSE <<PropVal("REMINDER_ENABLED", "i2", 1), PropVal("REMINDER_MINUTES", "i4", Max({minutes[1], 0})),
           PropVal("REMINDER_OPTIONS", "i4", 13), PropVal("REMINDER_SOUND", "string", <<"Alarm1.wav">>)>>
normalized_appointment(a) ==
    [a EXCEPT !.summary = strip(@), !.location = strip(@), !.notes = clean_notes(@), !.categories = clean_list(@),
              !.busy_status = IF @ \in ToSet(BUSY_STATES) THEN @ ELSE "busy"]
encode_appointment(appointment, existing) ==
    LET a == normalized_appointment(appointment)
        start == IF a.all_day THEN midnight(a.start) ELSE a.start
    IN <<PropVal("SUBJECT", "string", OrElse(a.summary, NoSubject)),
         PropVal("START", "filetime", start),
         PropVal("DURATION", "i4", IF a.all_day THEN duration_for_days(a.end.day - a.start.day)
                                   ELSE Max({Minutes(SecondsTo(a.start, a.end)), 0})),
         PropVal("TYPE", "i4", IF a.all_day THEN 1 ELSE 2),
         PropVal("OCCURRENCE", "i2", 0),
         PropVal("BUSY_STATUS", "i2", busy_code(a.busy_status)),
         PropVal("SENSITIVITY", "i2", IF a.private THEN 1 ELSE 0),
         PropVal("UNKNOWN_0002", "i4", 0)>>
       \o put_string("LOCATION", a.location, existing)
       \o put_notes(a.notes, existing)
       \o put_categories(a.categories, existing)
       \o reminder_props(a.reminder, existing)

------------------------------------------------------------------------------
(* Tasks. *)
PRIORITIES == <<"high", "normal", "low">>
completed_of(r) ==
    IF has_prop(r, "COMPLETED") /\ r["COMPLETED"].kind = "filetime" THEN date_of(r, "COMPLETED")
    ELSE IF int_of(r, "COMPLETED", 0) # 0 THEN <<UNKNOWN_COMPLETION_DATE>>
    ELSE <<>>
decode_task(r) ==
    LET importance == int_of(r, "IMPORTANCE", 2)
    IN [summary |-> string_of(r, "SUBJECT"), due |-> date_of(r, "DUE"), start |-> date_of(r, "TASK_START"),
        completed |-> completed_of(r), priority |-> IF importance \in 1..3 THEN PRIORITIES[importance] ELSE "normal",
        notes |-> notes_of(r), categories |-> split_categories(string_of(r, "CATEGORIES")),
        private |-> int_of(r, "SENSITIVITY", 0) = 1]
normalized_task(t) ==
    [t EXCEPT !.summary = strip(@), !.notes = clean_notes(@), !.categories = clean_list(@),
              !.priority = IF @ \in ToSet(PRIORITIES) THEN @ ELSE "normal"]
encode_task(task, existing) ==
    LET t == normalized_task(task)
    IN <<PropVal("SUBJECT", "string", OrElse(t.summary, NoSubject)),
         PropVal("IMPORTANCE", "i4", SelectInSeq(PRIORITIES, LAMBDA p : p = t.priority)),
         PropVal("SENSITIVITY", "i2", IF t.private THEN 1 ELSE 0)>>
       \o put_date("TASK_START", t.start, existing)
       \o put_date("DUE", t.due, existing)
       \o put_date("COMPLETED", IF t.completed = <<UNKNOWN_COMPLETION_DATE>> THEN <<Today>> ELSE t.completed, existing)
       \o put_notes(t.notes, existing)
       \o put_categories(t.categories, existing)

------------------------------------------------------------------------------
(* Contacts. *)
TEXT_FIELDS == <<"first_name", "last_name", "middle_name", "title", "suffix", "company", "job_title", "department",
                 "office", "spouse", "children", "assistant", "web_page">>
EMAIL_SLOTS == <<"EMAIL", "EMAIL2", "EMAIL3">>
PHONE_SLOTS == <<"work", "work2", "home", "home2", "mobile", "work_fax", "home_fax", "pager", "car", "radio", "assistant">>
PHONE_KINDS == ToSet(PHONE_SLOTS)
ADDRESS_KINDS == <<"home", "work", "other">>
ADDRESS_PARTS == <<"street", "city", "state", "postal_code", "country">>
Tel(kind) == kind \o " tel"
AddressSlots(kind) == [i \in DOMAIN ADDRESS_PARTS |-> kind \o " " \o ADDRESS_PARTS[i]]
NoAddress == [i \in DOMAIN ADDRESS_PARTS |-> <<>>]

phones_of(r) ==
    SelectSeq([k \in DOMAIN PHONE_SLOTS |-> <<PHONE_SLOTS[k], string_of(r, Tel(PHONE_SLOTS[k]))>>], LAMBDA p : p[2] # <<>>)
addresses_of(r) ==
    LET address(kind) == [i \in DOMAIN ADDRESS_PARTS |-> string_of(r, AddressSlots(kind)[i])]
    IN SelectSeq([k \in DOMAIN ADDRESS_KINDS |-> <<ADDRESS_KINDS[k], address(ADDRESS_KINDS[k])>>], LAMBDA a : a[2] # NoAddress)
decode_contact(r) ==
    [text |-> [f \in ToSet(TEXT_FIELDS) |-> string_of(r, f)], full_name |-> string_of(r, "FULL_NAME"),
     emails |-> SelectSeq([k \in DOMAIN EMAIL_SLOTS |-> string_of(r, EMAIL_SLOTS[k])], LAMBDA e : e # <<>>),
     phones |-> phones_of(r), addresses |-> addresses_of(r),
     birthday |-> date_of(r, "BIRTHDAY"), anniversary |-> date_of(r, "ANNIVERSARY"),
     notes |-> notes_of(r), categories |-> split_categories(string_of(r, "CATEGORIES"))]

display_name(c) ==
    LET parts == NonEmpty(<<c.text["first_name"], c.text["middle_name"], c.text["last_name"]>>)
    IN OrElse(strip(c.full_name), OrElse(Join(parts, <<" ">>), OrElse(strip(c.text["company"]),
          IF c.emails = <<>> THEN <<>> ELSE c.emails[1])))
normalized_contact(c) ==
    LET phones == [k \in DOMAIN c.phones |->
            <<IF c.phones[k][1] \in PHONE_KINDS THEN c.phones[k][1] ELSE "work", strip(c.phones[k][2])>>]
    IN [c EXCEPT !.text = [f \in DOMAIN @ |-> strip(@[f])], !.full_name = strip(@), !.emails = clean_list(@),
                 !.phones = SelectSeq(phones, LAMBDA p : p[2] # <<>>),
                 !.addresses = SelectSeq(@, LAMBDA a : a[2] # NoAddress),
                 !.notes = clean_notes(@), !.categories = clean_list(@)]

(* A second number of the office or the home goes to its second slot.       *)
phone_slots(phones) ==
    LET second(slot) == CASE slot = "work" -> "work2" [] slot = "home" -> "home2" [] OTHER -> slot
        put(assigned, p) ==
            LET own == IF p[1] \in PHONE_KINDS THEN p[1] ELSE "work"
                slot == IF assigned[own] # <<>> THEN second(own) ELSE own
            IN IF assigned[slot] = <<>> THEN [assigned EXCEPT ![slot] = p[2]] ELSE assigned
    IN FoldLeft(put, [k \in PHONE_KINDS |-> <<>>], phones)
encode_contact(contact, existing) ==
    LET c == normalized_contact(contact)
        puts(ids, texts) == FlattenSeq([k \in DOMAIN ids |-> put_string(ids[k], texts[k], existing)])
        assigned == phone_slots(c.phones)
        of(kind) ==     \* the last address of the kind
            LET found == SelectSeq(c.addresses, LAMBDA a : a[1] = kind)
            IN IF found = <<>> THEN NoAddress ELSE Last(found)[2]
        props ==
            puts(TEXT_FIELDS, [k \in DOMAIN TEXT_FIELDS |-> c.text[TEXT_FIELDS[k]]])
            \o put_string("FULL_NAME", display_name(c), existing)
            \o puts(EMAIL_SLOTS, [k \in DOMAIN EMAIL_SLOTS |-> IF k <= Len(c.emails) THEN c.emails[k] ELSE <<>>])
            \o FlattenSeq([k \in DOMAIN PHONE_SLOTS |-> put_string(Tel(PHONE_SLOTS[k]), assigned[PHONE_SLOTS[k]], existing)])
            \o FlattenSeq([k \in DOMAIN ADDRESS_KINDS |-> puts(AddressSlots(ADDRESS_KINDS[k]), of(ADDRESS_KINDS[k]))])
            \o put_date("BIRTHDAY", c.birthday, existing)
            \o put_date("ANNIVERSARY", c.anniversary, existing)
            \o put_notes(c.notes, existing)
            \o put_categories(c.categories, existing)
    IN IF props = <<>> THEN <<PropVal("FULL_NAME", "string", <<"(unnamed)">>)>> ELSE props

------------------------------------------------------------------------------
(* The codec of each database. *)
decode(type, r) ==
    CASE type = "appointment" -> decode_appointment(r) [] type = "task" -> decode_task(r) [] type = "contact" -> decode_contact(r)
encode(type, model, existing) ==
    CASE type = "appointment" -> encode_appointment(model, existing)
      [] type = "task" -> encode_task(model, existing)
      [] type = "contact" -> encode_contact(model, existing)
normalized(type, model) ==
    CASE type = "appointment" -> normalized_appointment(model)
      [] type = "task" -> normalized_task(model)
      [] type = "contact" -> normalized_contact(model)
read_only(type, model) == type = "appointment" /\ model.recurring
match_key(type, model) ==
    LET n == normalized(type, model)
    IN CASE type = "appointment" -> <<n.summary, n.start.day, n.start.clock \div 60>>
         [] type = "task" -> <<n.summary, n.due>>
         [] type = "contact" -> <<display_name(n), IF n.emails = <<>> THEN <<>> ELSE n.emails[1]>>
==============================================================================
