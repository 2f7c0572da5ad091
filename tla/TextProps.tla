----------------------------- MODULE TextProps -----------------------------
(* The content lines that calendars and cards are made of                   *)
(* (src/jornada/webapi/_textprops.py).                                      *)
(*                                                                          *)
(* A text is a sequence of atoms.  An atom is a character the code looks    *)
(* for, or a word that it only ever copies, compares or capitalises.        *)
EXTENDS Integers, SequencesExt

CONSTANTS
    Octets(_),     \* the width of an atom in UTF-8
    FOLD_LIMIT,    \* octets of a physical line
    Capitals       \* lower-case word -> the same in capitals

CR == "\r"
LF == "\n"
TAB == "\t"
BOM == "feff"
BACKSLASH == "\\"
QUOTE == "\""
CRLF == <<CR, LF>>

RAW_VALUE_NAMES == {
    "DTSTART", "DTEND", "DUE", "DTSTAMP", "COMPLETED", "CREATED", "LAST-MODIFIED", "RECURRENCE-ID", "EXDATE",
    "RDATE", "DURATION", "TRIGGER", "RRULE", "EXRULE", "FREEBUSY", "TZOFFSETFROM", "TZOFFSETTO", "TZURL", "URL",
    "ATTACH", "ATTENDEE", "ORGANIZER", "GEO", "PRIORITY", "SEQUENCE", "PERCENT-COMPLETE", "REPEAT", "ACKNOWLEDGED",
    "CATEGORIES", "RESOURCES", "REQUEST-STATUS", "N", "ADR", "ORG", "NICKNAME", "TEL", "EMAIL", "PHOTO", "LOGO",
    "SOUND", "KEY", "BDAY", "ANNIVERSARY", "REV", "TZ", "IMPP", "RELATED", "MEMBER", "SOURCE", "GENDER",
    "CLIENTPIDMAP", "LANG", "CALADRURI", "CALURI", "FBURL", "XML", "X-ABDATE", "X-ANNIVERSARY",
    "X-EVOLUTION-ANNIVERSARY"}
MULTI_VALUED_PARAMS == {"TYPE", "MEMBER", "DELEGATED-FROM", "DELEGATED-TO", "PID", "SORT-AS"}
BARE_ENCODINGS == {"QUOTED-PRINTABLE", "BASE64", "8BIT", "7BIT", "B"}

Failed(why) == [ok |-> FALSE, error |-> why]

------------------------------------------------------------------------------
(* Python's string operations on atoms. *)
Blank(c) == c \in {" ", TAB, CR, LF}
strip(t) ==
    LET ink == {i \in DOMAIN t : ~Blank(t[i])}
    IN IF ink = {} THEN <<>> ELSE SubSeq(t, Min(ink), Max(ink))
upper_word(w) == IF w \in DOMAIN Capitals THEN Capitals[w] ELSE w
upper(t) == [i \in DOMAIN t |-> upper_word(t[i])]
word(t) == FoldLeft(LAMBDA w, c : w \o c, "", t)
Split(t, cuts) ==
    LET ends == <<0>> \o SelectSeq([i \in DOMAIN t |-> i], LAMBDA i : i \in cuts) \o <<Len(t) + 1>>
    IN [k \in 1..Cardinality(cuts) + 1 |-> SubSeq(t, ends[k] + 1, ends[k + 1] - 1)]
Join(parts, separator) ==
    FlattenSeq([k \in DOMAIN parts |-> IF k = 1 THEN parts[k] ELSE separator \o parts[k]])
At(t, c) == {i \in DOMAIN t : t[i] = c}

------------------------------------------------------------------------------
(* Lines. *)
OneLineBreak(t) ==      \* CR LF, CR and LF are all LF
    FlattenSeq([i \in DOMAIN t |->
        IF t[i] # CR THEN <<t[i]>> ELSE IF i < Len(t) /\ t[i + 1] = LF THEN <<>> ELSE <<LF>>])
Normalized(t) ==
    LET marks == {i \in DOMAIN t : \A j \in 1..i : t[j] = BOM}
    IN OneLineBreak(SubSeq(t, Cardinality(marks) + 1, Len(t)))
unfold(t) ==
    LET text == Normalized(t)
        take(lines, physical) ==
            IF physical # <<>> /\ physical[1] \in {" ", TAB} /\ lines # <<>>
            THEN [lines EXCEPT ![Len(lines)] = @ \o Tail(physical)]
            ELSE IF strip(physical) # <<>> THEN Append(lines, physical) ELSE lines
    IN FoldLeft(take, <<>>, Split(text, At(text, LF)))

fold(line) ==
    LET put(f, c) ==
            IF f.out # <<>> /\ Octets(c) > f.budget
            THEN [out |-> f.out \o CRLF \o <<" ", c>>, budget |-> FOLD_LIMIT - 1 - Octets(c)]
            ELSE [out |-> Append(f.out, c), budget |-> f.budget - Octets(c)]
    IN FoldLeft(put, [out |-> <<>>, budget |-> FOLD_LIMIT], line).out

------------------------------------------------------------------------------
(* Escaping. An atom is escaped when an odd run of backslashes is before it. *)
IsEscaped(t, i) ==
    LET others == {j \in 1..i - 1 : t[j] # BACKSLASH}
        run == i - 1 - (IF others = {} THEN 0 ELSE Max(others))
    IN run % 2 = 1
Escapes(t, i) == t[i] = BACKSLASH /\ i < Len(t) /\ ~IsEscaped(t, i)

escape(t) ==
    FlattenSeq([i \in DOMAIN t |->
        IF t[i] \in {BACKSLASH, ";", ","} THEN <<BACKSLASH, t[i]>>
        ELSE IF t[i] = CR /\ i < Len(t) /\ t[i + 1] = LF THEN <<>>
        ELSE IF t[i] \in {CR, LF} THEN <<BACKSLASH, "n">>
        ELSE <<t[i]>>])
unescape(t) ==
    FlattenSeq([i \in DOMAIN t |->
        IF Escapes(t, i) THEN <<>>
        ELSE IF IsEscaped(t, i) /\ t[i] \in {"n", "N"} THEN <<LF>>
        ELSE <<t[i]>>])
(* Mutant: only the atom right before a separator is looked at. *)
split_unescaped_OneBack(v, separator) ==
    Split(v, {i \in At(v, separator) : i = 1 \/ v[i - 1] # BACKSLASH})
split_unescaped(v, separator) == Split(v, {i \in At(v, separator) : ~IsEscaped(v, i)})

------------------------------------------------------------------------------
(* Parameters: sequences of <<name, value>>. *)
param_of(params, name) ==
    LET hits == {k \in DOMAIN params : params[k][1] = name}
    IN IF hits = {} THEN <<>> ELSE <<params[Min(hits)][2]>>        \* at most one value
normalize_params(params) == [k \in DOMAIN params |-> <<upper_word(params[k][1]), params[k][2]>>]

is_text_value(name, params) ==
    LET declared == param_of(normalize_params(params), "VALUE")
    IN IF declared # <<>> THEN upper(declared[1]) = <<"TEXT">> ELSE upper_word(name) \notin RAW_VALUE_NAMES
decode_value(name, params, raw) == IF is_text_value(name, params) THEN unescape(raw) ELSE raw
encode_value(name, params, value) == IF is_text_value(name, params) THEN escape(value) ELSE value

Quoted(t, i) == Cardinality({j \in 1..i - 1 : t[j] = QUOTE}) % 2 = 1
OutsideQuotes(t, c) == {i \in At(t, c) : ~Quoted(t, i)}

strip_quotes(t) ==
    IF Len(t) >= 2 /\ t[1] = QUOTE /\ t[Len(t)] = QUOTE THEN SubSeq(t, 2, Len(t) - 1) ELSE t
unquote_param_value(v) ==
    LET segments == Split(v, OutsideQuotes(v, ","))
    IN Join([k \in DOMAIN segments |-> strip_quotes(strip(segments[k]))], <<",">>)
parse_param(p) ==
    LET piece == strip(p)
        equals == At(piece, "=")
        key == IF equals = {} THEN piece ELSE SubSeq(piece, 1, Min(equals) - 1)
    IN IF piece = <<>> THEN <<>>
       ELSE IF equals = {}
       THEN IF upper_word(word(key)) \in BARE_ENCODINGS THEN << <<"ENCODING", upper(key)>> >>
            ELSE << <<"TYPE", key>> >>
       ELSE << <<upper_word(word(strip(key))), unquote_param_value(SubSeq(piece, Min(equals) + 1, Len(piece)))>> >>

quote_if_needed(v) == IF ToSet(v) \cap {";", ":", ","} # {} THEN <<QUOTE>> \o v \o <<QUOTE>> ELSE v
Clean(v) ==
    [i \in DOMAIN v |-> IF v[i] = QUOTE THEN "'" ELSE IF v[i] \in {CR, LF} THEN " " ELSE v[i]]
format_param_value(key, value) ==
    LET clean == Clean(value)
        parts == Split(clean, At(clean, ","))
    IN IF key \in MULTI_VALUED_PARAMS
       THEN Join([k \in DOMAIN parts |-> quote_if_needed(parts[k])], <<",">>)
       ELSE quote_if_needed(clean)

------------------------------------------------------------------------------
(* One content line. *)
parse_line(line) ==
    LET colon == Min(OutsideQuotes(line, ":"))
        head == SubSeq(line, 1, colon - 1)
        pieces == Split(head, OutsideQuotes(head, ";"))
        token == strip(pieces[1])
        dot == Max(At(token, ".") \cup {0})
        name == SubSeq(token, dot + 1, Len(token))
    IN IF OutsideQuotes(line, ":") = {} THEN Failed("no colon")
       ELSE IF name = <<>> THEN Failed("no name")
       ELSE [ok |-> TRUE, group |-> word(SubSeq(token, 1, dot - 1)), name |-> upper_word(word(name)),
             params |-> FlattenSeq([k \in 1..Len(pieces) - 1 |-> parse_param(pieces[k + 1])]),
             value |-> SubSeq(line, colon + 1, Len(line))]

format_line(group, name, params, value) ==
    LET fields == normalize_params(params)
        rendered == [k \in DOMAIN fields |-> <<";", fields[k][1], "=">> \o format_param_value(fields[k][1], fields[k][2])]
    IN (IF group = "" THEN <<>> ELSE <<group, ".">>) \o <<upper_word(name)>> \o FlattenSeq(rendered) \o <<":">> \o value

------------------------------------------------------------------------------
(* What a parameter value is worth after a write and a read: quotes and     *)
(* line breaks have no form in it, and the blanks at the ends of an         *)
(* unquoted one are lost.                                                   *)
CarriedParam(key, value) ==
    LET clean == Clean(value)
        kept(t) == IF ToSet(t) \cap {";", ":", ","} # {} THEN t ELSE strip(t)
        parts == Split(clean, At(clean, ","))
    IN IF key \in MULTI_VALUED_PARAMS THEN Join([k \in DOMAIN parts |-> kept(parts[k])], <<",">>) ELSE kept(clean)
CarriedParams(params) == [k \in DOMAIN params |-> <<params[k][1], CarriedParam(params[k][1], params[k][2])>>]
==============================================================================
