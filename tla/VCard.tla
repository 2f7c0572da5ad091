-------------------------------- MODULE VCard --------------------------------
(* Cards of contacts (src/jornada/webapi/vcard.py).  A card is its sequence *)
(* of properties, which are those of ICal.                                  *)
EXTENDS TextProps

CONSTANTS
    Days,          \* the days that have a text
    Plain          \* quoted-printable atom -> what it stands for

N_PARTS == 5
ADR_PARTS == 7
SUPPORTED_VERSIONS == {<<"2.1">>, <<"3.0">>, <<"4.0">>}
ANNIVERSARY_NAMES == <<"ANNIVERSARY", "X-ANNIVERSARY", "X-EVOLUTION-ANNIVERSARY">>
APPLE_ANNIVERSARY_LABEL == <<"_$!<Anniversary>!$_">>

Property(name, value) == [group |-> "", name |-> upper_word(name), params |-> <<>>, value |-> value]
AsValue(x) == [ok |-> TRUE, value |-> x]
get_all(card, name) == SelectSeq(card, LAMBDA p : p.name = name)
value(card, name) == LET found == get_all(card, name) IN IF found = <<>> THEN <<>> ELSE found[1].value

------------------------------------------------------------------------------
(* Text to cards and back. *)
is_quoted_printable(line) ==
    LET head == Split(line, At(line, ":"))[1] IN "QUOTED-PRINTABLE" \in ToSet(upper(head))

(* A quoted-printable line that ends in "=" goes on in the next one. *)
(* Mutant: any line that ends in "=" does, a picture in BASE64 too. *)
join_soft_breaks_Any(lines) ==
    LET ends(t) == t # <<>> /\ Last(t) = "="
        add(j, t) == IF ends(t) THEN [lines |-> j.lines, pending |-> <<Front(t)>>]
                     ELSE [lines |-> Append(j.lines, t), pending |-> <<>>]
        step(j, line) == IF j.pending # <<>> THEN add(j, j.pending[1] \o line) ELSE add(j, line)
        end == FoldLeft(step, [lines |-> <<>>, pending |-> <<>>], lines)
    IN end.lines \o end.pending
join_soft_breaks(lines) ==
    LET ends(t) == t # <<>> /\ Last(t) = "="
        add(j, t, soft) == IF soft /\ ends(t) THEN [lines |-> j.lines, pending |-> <<Front(t)>>]
                           ELSE [lines |-> Append(j.lines, t), pending |-> <<>>]
        step(j, line) == IF j.pending # <<>> THEN add(j, j.pending[1] \o line, TRUE)
                         ELSE add(j, line, is_quoted_printable(line))
        end == FoldLeft(step, [lines |-> <<>>, pending |-> <<>>], lines)
    IN end.lines \o end.pending

decode_quoted_printable(t) == FlattenSeq([i \in DOMAIN t |-> IF t[i] \in DOMAIN Plain THEN Plain[t[i]] ELSE <<t[i]>>])
property_from_line(line) ==
    LET encoding == param_of(line.params, "ENCODING")
        quoted == encoding # <<>> /\ upper(encoding[1]) = <<"QUOTED-PRINTABLE">>
        raw == IF quoted THEN decode_quoted_printable(line.value) ELSE line.value
        dropped == {"CHARSET"} \cup (IF quoted THEN {"ENCODING"} ELSE {})
        params == SelectSeq(line.params, LAMBDA kv : kv[1] \notin dropped)
    IN [group |-> line.group, name |-> line.name, params |-> params, value |-> decode_value(line.name, params, raw)]

(* cards read, the open one, how many BEGINs are open; an AGENT inside a card is skipped. *)
ParseLine(r, text) ==
    LET line == parse_line(text)
        is_card == upper(strip(line.value)) = <<"VCARD">>
    IN IF ~r.ok THEN r
       ELSE IF ~line.ok THEN Failed(line.error)
       ELSE IF line.name = "BEGIN" /\ is_card THEN [r EXCEPT !.depth = @ + 1]
       ELSE IF r.depth = 0 THEN Failed("outside BEGIN:VCARD")
       ELSE IF line.name = "END" /\ is_card
       THEN IF r.depth = 1 THEN [r EXCEPT !.depth = 0, !.cards = Append(@, r.current), !.current = <<>>]
            ELSE [r EXCEPT !.depth = @ - 1]
       ELSE IF r.depth = 1 THEN [r EXCEPT !.current = Append(@, property_from_line(line))] ELSE r
(* Mutant: the end of the text ends the card. *)
parse_Open(text) ==
    LET end == FoldLeft(ParseLine, [ok |-> TRUE, cards |-> <<>>, current |-> <<>>, depth |-> 0],
                        join_soft_breaks(unfold(text)))
    IN IF ~end.ok THEN end
       ELSE AsValue(IF end.depth > 0 THEN Append(end.cards, end.current) ELSE end.cards)
parse(text) ==
    LET end == FoldLeft(ParseLine, [ok |-> TRUE, cards |-> <<>>, current |-> <<>>, depth |-> 0],
                        join_soft_breaks(unfold(text)))
    IN IF ~end.ok THEN end
       ELSE IF end.depth > 0 THEN Failed("unterminated BEGIN:VCARD") ELSE AsValue(end.cards)

lower(t) == [i \in DOMAIN t |-> IF \E w \in DOMAIN Capitals : Capitals[w] = t[i]
                                THEN CHOOSE w \in DOMAIN Capitals : Capitals[w] = t[i] ELSE t[i]]
params_for_version(params, version) ==
    [k \in DOMAIN params |-> IF version = <<"4.0">> /\ params[k][1] = "TYPE"
                             THEN <<"TYPE", lower(params[k][2])>> ELSE params[k]]
render(p, version) ==
    LET params == params_for_version(p.params, version)
    IN fold(format_line(p.group, p.name, params, encode_value(p.name, params, p.value))) \o CRLF
serialize(card, version) ==
    LET others == SelectSeq(card, LAMBDA p : p.name # "VERSION")
    IN IF version \notin SUPPORTED_VERSIONS THEN Failed("unsupported vCard version")
       ELSE AsValue(<<"BEGIN", ":", "VCARD">> \o CRLF \o <<"VERSION", ":">> \o version \o CRLF
                       \o FlattenSeq([k \in DOMAIN others |-> render(others[k], version)])
                       \o <<"END", ":", "VCARD">> \o CRLF)

------------------------------------------------------------------------------
(* Structured values and lists. *)
split_structured(v) == LET parts == split_unescaped(v, ";") IN [k \in DOMAIN parts |-> unescape(parts[k])]
join_structured(parts) == Join([k \in DOMAIN parts |-> escape(parts[k])], <<";">>)
Stripped(parts) == [k \in DOMAIN parts |-> strip(parts[k])]
Items(parts) == SelectSeq(Stripped(parts), LAMBDA t : t # <<>>)
split_list(v) == LET parts == split_unescaped(v, ",") IN Items([k \in DOMAIN parts |-> unescape(parts[k])])
join_list(items) == LET kept == Items(items) IN Join([k \in DOMAIN kept |-> escape(kept[k])], <<",">>)
Padded(parts, n) == [k \in 1..n |-> IF k <= Len(parts) THEN parts[k] ELSE <<>>]

------------------------------------------------------------------------------
(* Readers. *)
version(card) == IF value(card, "VERSION") = <<>> THEN <<"3.0">> ELSE strip(value(card, "VERSION"))
name_parts(card) == Padded(Stripped(split_structured(value(card, "N"))), N_PARTS)
display_name(parts) ==      \* prefix given additional family suffix
    Join(SelectSeq(<<parts[4], parts[2], parts[3], parts[1], parts[5]>>, LAMBDA t : t # <<>>), <<" ">>)
formatted_name(card) ==
    LET fn == strip(value(card, "FN")) IN IF fn # <<>> THEN fn ELSE display_name(name_parts(card))
org_parts(card) ==
    IF value(card, "ORG") = <<>> THEN <<>> ELSE Stripped(split_structured(value(card, "ORG")))

Distinct(s) == FoldLeft(LAMBDA kept, x : IF x \in ToSet(kept) THEN kept ELSE Append(kept, x), <<>>, s)
types_of(p) ==
    LET lists == SelectSeq(p.params, LAMBDA kv : kv[1] = "TYPE")
        words(v) == Items(Split(lower(v), At(v, ",")))
        pref == IF param_of(p.params, "PREF") = <<>> THEN <<>> ELSE << <<"pref">> >>
    IN Distinct(FlattenSeq([k \in DOMAIN lists |-> words(lists[k][2])]) \o pref)
Typed(card, name) ==
    LET found == SelectSeq(get_all(card, name), LAMBDA p : strip(p.value) # <<>>)
    IN [k \in DOMAIN found |-> <<strip(found[k].value), types_of(found[k])>>]
telephones(card) == Typed(card, "TEL")
emails(card) == Typed(card, "EMAIL")
addresses(card) ==
    LET found == get_all(card, "ADR")
    IN [k \in DOMAIN found |-> <<Padded(split_structured(found[k].value), ADR_PARTS), types_of(found[k])>>]

DayText(d) == "day" \o ToString(d)            \* 19990131
DashedText(d) == "day-" \o ToString(d)        \* 1999-01-31
parse_vcard_date(t) ==      \* at most one day; a time of day after it is left out
    LET text == strip(t)
        days == {d \in Days : text # <<>> /\ text[1] \in {DayText(d), DashedText(d)}}
    IN IF Len(text) > 1 /\ text[2] # "T" THEN <<>> ELSE SetToSeq(days)
birthday(card) == parse_vcard_date(value(card, "BDAY"))
apple_anniversary(card) ==
    LET labels == SelectSeq(get_all(card, "X-ABLABEL"), LAMBDA p : p.group # "" /\ p.value = APPLE_ANNIVERSARY_LABEL)
        dates == SelectSeq(get_all(card, "X-ABDATE"), LAMBDA p : \E k \in DOMAIN labels : labels[k].group = p.group)
    IN IF dates = <<>> THEN <<>> ELSE parse_vcard_date(dates[1].value)
anniversary(card) ==
    LET found == SelectSeq(ANNIVERSARY_NAMES, LAMBDA name : parse_vcard_date(value(card, name)) # <<>>)
    IN IF found # <<>> THEN parse_vcard_date(value(card, found[1])) ELSE apple_anniversary(card)

------------------------------------------------------------------------------
(* The builder.  A missing text or date is <<>>; a date is given as its text. *)
optional_text(name, t) == IF t = <<>> THEN <<>> ELSE <<Property(name, t)>>
typed(name, v, types) ==
    LET joined == Join(Items([k \in DOMAIN types |-> upper(types[k])]), <<",">>)
    IN IF joined = <<>> THEN Property(name, v) ELSE [Property(name, v) EXCEPT !.params = << <<"TYPE", joined>> >>]
TypedAll(name, entries) == [k \in DOMAIN entries |-> typed(name, entries[k][1], entries[k][2])]
make_vcard(c) ==
    LET derived == display_name(c.name)
        fn == IF c.fn # <<>> THEN c.fn
              ELSE IF derived # <<>> THEN derived
              ELSE IF c.org # <<>> THEN c.org[1] ELSE c.uid
        adrs == [k \in DOMAIN c.adrs |-> <<join_structured(Padded(c.adrs[k][1], ADR_PARTS)), c.adrs[k][2]>>]
    IN IF \E d \in {c.bday, c.anniversary} : d # <<>> /\ parse_vcard_date(d) = <<>> THEN Failed("not a date")
       ELSE AsValue(optional_text("UID", c.uid)
       \o <<Property("N", join_structured(c.name)), Property("FN", fn)>>
       \o (IF c.org = <<>> THEN <<>> ELSE <<Property("ORG", join_structured(c.org))>>)
       \o optional_text("TITLE", c.title) \o optional_text("NOTE", c.note) \o optional_text("URL", c.url)
       \o (IF c.nickname = <<>> THEN <<>> ELSE <<Property("NICKNAME", join_list(<<c.nickname>>))>>)
       \o TypedAll("TEL", c.tels) \o TypedAll("EMAIL", c.emails) \o TypedAll("ADR", adrs)
       \o optional_text("BDAY", strip(c.bday)) \o optional_text("ANNIVERSARY", strip(c.anniversary))
       \o (IF c.categories = <<>> THEN <<>> ELSE <<Property("CATEGORIES", join_list(c.categories))>>))
==============================================================================
