--------------------------------- MODULE Cedb ---------------------------------
(* Records of the object store and the buffers they travel in               *)
(* (src/jornada/cedb.py).                                                   *)
(*                                                                          *)
(* A property is [id, kind, value, flags].  A buffer is a table of entries  *)
(* of 16 bytes, and behind it the bytes of the texts and blobs, which the   *)
(* entries point to by their offset in the whole buffer.                    *)
EXTENDS Integers, SequencesExt, TLC

PROPVAL_SIZE == 16
ALIGNMENT == 4
CEDB_PROPNOTFOUND == 256
CEDB_PROPDELETE == 512
NUL == "nul"
HIGH == "high"         \* the upper byte of a UTF-16 character

PropVal(id, kind, value) == [id |-> id, kind |-> kind, value |-> value, flags |-> 0]
deleted(id, kind) ==
    [id |-> id, kind |-> kind, flags |-> CEDB_PROPDELETE,
     value |-> CASE kind \in {"string", "blob"} -> <<>>
                 [] kind = "filetime" -> [day |-> 0, clock |-> 0]
                 [] OTHER -> 0]

align(size) == ((size + ALIGNMENT - 1) \div ALIGNMENT) * ALIGNMENT

------------------------------------------------------------------------------
wstr(t) == FlattenSeq([i \in DOMAIN t |-> <<t[i], HIGH>>]) \o <<NUL, NUL>>
payload(p) == CASE p.kind = "string" -> wstr(p.value) [] p.kind = "blob" -> p.value [] OTHER -> <<>>
pack_value(p, offset) ==
    CASE p.kind = "string" -> [offset |-> offset]
      [] p.kind = "blob" -> [count |-> Len(p.value), offset |-> offset]
      [] p.kind = "bool" -> [number |-> IF p.value THEN 1 ELSE 0]
      [] OTHER -> [number |-> p.value]

pack_record(props) ==
    LET table == align(PROPVAL_SIZE * Len(props))
        packed[k \in 0..Len(props)] ==
            IF k = 0 THEN [table |-> <<>>, bytes |-> <<>>]
            ELSE LET before == packed[k - 1]
                     p == props[k]
                     offset == table + Len(before.bytes)
                     raw == payload(p)
                     padding == align(offset + Len(raw)) - offset - Len(raw)
                 IN [table |-> Append(before.table, [id |-> p.id, kind |-> p.kind, flags |-> p.flags,
                                                     union |-> pack_value(p, IF raw = <<>> THEN 0 ELSE offset)]),
                     bytes |-> before.bytes \o raw \o SubSeq(<<NUL, NUL, NUL>>, 1, padding)]
    IN packed[Len(props)]

------------------------------------------------------------------------------
StartOf(b, offset) == offset - PROPVAL_SIZE * Len(b.table)
read_wstr_at(b, offset) ==
    LET first == StartOf(b, offset)
        text[k \in Nat] ==
            IF k + 2 > Len(b.bytes) \/ (b.bytes[k + 1] = NUL /\ b.bytes[k + 2] = NUL) THEN <<>>
            ELSE <<b.bytes[k + 1]>> \o text[k + 2]
    IN text[first]
Signed16(n) == ((n + 32768) % 65536) - 32768
unpack_value(b, e) ==
    CASE e.kind = "string" -> read_wstr_at(b, e.union.offset)
      [] e.kind = "blob" -> SubSeq(b.bytes, StartOf(b, e.union.offset) + 1, StartOf(b, e.union.offset) + e.union.count)
      [] e.kind = "i2" -> Signed16(e.union.number)
      [] e.kind = "ui2" -> e.union.number % 65536
      [] e.kind = "bool" -> e.union.number # 0
      [] OTHER -> e.union.number
unpack_record(b) ==
    LET property(e) == [id |-> e.id, kind |-> e.kind, flags |-> e.flags,
                        value |-> IF e.flags = CEDB_PROPNOTFOUND THEN <<>> ELSE unpack_value(b, e)]
        read[k \in 0..Len(b.table)] == IF k = 0 THEN <<>> ELSE Append(read[k - 1], property(b.table[k]))
    IN read[Len(b.table)]

------------------------------------------------------------------------------
(* A record in memory: identifier -> property, one of each.  The device     *)
(* merges what is written to a record into it.                              *)
Record(props) ==
    LET found[k \in 0..Len(props)] == IF k = 0 THEN <<>> ELSE found[k - 1] @@ (props[k].id :> props[k])
    IN found[Len(props)]
merged(r, props) ==
    LET sent == Record(props)
        gone == {id \in DOMAIN sent : sent[id].flags = CEDB_PROPDELETE}
    IN [id \in (DOMAIN r \cup DOMAIN sent) \ gone |-> IF id \in DOMAIN sent THEN sent[id] ELSE r[id]]
has_prop(r, id) == id \in DOMAIN r
prop_value(r, id, default) == IF has_prop(r, id) THEN r[id].value ELSE default
==============================================================================
