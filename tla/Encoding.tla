------------------------------ MODULE Encoding ------------------------------
(***************************************************************************)
(* src/src/db/generic-encoding.ts: the conversion of API objects to the    *)
(* columns of a row and back.  A JavaScript value is a record that says    *)
(* what it is, a column's value one with its SQLite storage class.  A      *)
(* 64-bit integer is its eight bytes, as a DataView holds them; a larger   *)
(* one is TooWide.                                                         *)
(***************************************************************************)
EXTENDS Integers, Sequences

undefined == [is |-> "undefined"]
null == [is |-> "null"]
Js(type, value) == [is |-> type, value |-> value]

NULL == [storage |-> "NULL"]
Column(storage, value) == [storage |-> storage, value |-> value]
Error == [storage |-> "Error"]   \* a conversion that throws

Byte == 0..255
Word == [1..8 -> Byte]
TooWide == [wide |-> TRUE]

-----------------------------------------------------------------------------
\* Blobs made of blocks of one size, one after the other.
Pack(size, blocks) ==
    [k \in 1..(size * Len(blocks)) |-> blocks[1 + ((k - 1) \div size)][1 + ((k - 1) % size)]]

Unpack(size, buf) ==
    [i \in 1..(Len(buf) \div size) |-> [j \in 1..size |-> buf[size * (i - 1) + j]]]

encodeSnowflakeArray(array) == Column("BLOB", Pack(8, array))
decodeSnowflakeArray(col) ==
    IF Len(col.value) % 8 # 0 THEN Error ELSE Js("array", Unpack(8, col.value))

\* type is stored in one byte; the ID and the two sets of flags in eight each.
Overwrite == [type: Byte, id: Word, allow: Word \cup {TooWide}, deny: Word \cup {TooWide}]

Block(type, id, allow, deny) ==
    [j \in 1..25 |-> IF j = 1 THEN type
                     ELSE IF j <= 9 THEN id[j - 1]
                     ELSE IF j <= 17 THEN allow[j - 9]
                     ELSE deny[j - 17]]
OverwriteBlock(o) == Block(o.type, o.id, o.allow, o.deny)

BlockOverwrite(b) ==
    [type |-> b[1],
     id |-> [j \in 1..8 |-> b[j + 1]],
     allow |-> [j \in 1..8 |-> b[j + 9]],
     deny |-> [j \in 1..8 |-> b[j + 17]]]

Fits(overwrites) ==
    \A i \in DOMAIN overwrites : TooWide \notin {overwrites[i].allow, overwrites[i].deny}

encodePermissionOverwrites(overwrites) ==
    IF ~Fits(overwrites) THEN Error
    ELSE Column("BLOB", Pack(25, [i \in DOMAIN overwrites |-> OverwriteBlock(overwrites[i])]))

decodePermissionOverwrites(col) ==
    IF Len(col.value) % 25 # 0 THEN Error
    ELSE LET blocks == Unpack(25, col.value)
         IN Js("array", [i \in DOMAIN blocks |-> BlockOverwrite(blocks[i])])

-----------------------------------------------------------------------------
\* A string that IMAGE_HASH_REGEX matches is whether it begins with "a_" and
\* its sixteen bytes; any other string is stored as it is.
Hash == [is: {"hash"}, animated: BOOLEAN, bytes: [1..16 -> Byte]]

encodeImageHash(hash) ==
    IF hash.is # "hash" THEN Column("TEXT", hash.value)
    ELSE Column("BLOB", [k \in 1..17 |->
            IF k = 1 THEN IF hash.animated THEN 1 ELSE 0 ELSE hash.bytes[k - 1]])

decodeImageHash(col) ==
    IF col.storage = "TEXT" THEN Js("string", col.value)
    ELSE IF Len(col.value) # 17 THEN Error
    ELSE [is |-> "hash", animated |-> col.value[1] % 2 = 1,
          bytes |-> [k \in 1..16 |-> col.value[k + 1]]]

\* emoji_id is null or a number, emoji_name null or a string.
encodeEmojiProps(emoji) ==
    IF emoji.id # null THEN Column("INTEGER", emoji.id.value)
                       ELSE Column("TEXT", emoji.name.value)
decodeEmojiProps(col) ==
    IF col.storage = "INTEGER"
    THEN [is |-> "emoji", id |-> Js("string", col.value), name |-> null]
    ELSE [is |-> "emoji", id |-> null, name |-> Js("string", col.value)]

-----------------------------------------------------------------------------
\* What a property says of its null value; Required when it says nothing.
ValueType == {"STRING", "INTEGER", "BOOLEAN", "STRICT_BOOLEAN", "BIG_INTEGER", "FLOAT",
              "BASE64", "IMAGE_HASH", "BIG_INTEGER_ARRAY", "TIMESTAMP", "EMOJI", "JSON",
              "NULL"}
Required == "undefined"
NullValue == {"ABSENT", "NULL", "EMPTY_ARRAY"}
PropertyInfo == [type: ValueType, nullValue: NullValue \cup {Required}]

EmptyArray == Js("array", <<>>)

\* Only called for null values that are declared.
getNullValue(nullValue) ==
    CASE nullValue = Required      -> Error
      [] nullValue = "ABSENT"      -> undefined
      [] nullValue = "NULL"        -> null
      [] nullValue = "EMPTY_ARRAY" -> EmptyArray

StoredAsNull(p, value) ==
    \/ p.type # "STRICT_BOOLEAN" /\ value = undefined
    \/ p.type \notin {"NULL", "STRICT_BOOLEAN"} /\ value = null
    \/ p.nullValue = "EMPTY_ARRAY" /\ value = EmptyArray

Bit(value) == IF value \in {undefined, null, Js("boolean", FALSE)} THEN 0 ELSE 1

\* A JSON text is the value it says; an instant, the milliseconds of a string
\* that may have had more digits.
encodeValue(p, value) ==
    IF StoredAsNull(p, value)
    THEN IF p.nullValue = Required /\ p.type \notin {"NULL", "STRICT_BOOLEAN"}
         THEN Error ELSE NULL
    ELSE CASE p.type = "STRING"                        -> Column("TEXT", value.value)
           [] p.type \in {"INTEGER", "BIG_INTEGER"}      -> Column("INTEGER", value.value)
           [] p.type \in {"BOOLEAN", "STRICT_BOOLEAN"}   -> Column("INTEGER", Bit(value))
           [] p.type = "FLOAT"                         -> Column("REAL", value.value)
           [] p.type = "BASE64"                        -> Column("BLOB", value.value)
           [] p.type = "IMAGE_HASH"                    -> encodeImageHash(value)
           [] p.type = "BIG_INTEGER_ARRAY"             -> encodeSnowflakeArray(value.value)
           [] p.type = "TIMESTAMP"                     -> Column("INTEGER", value.milliseconds)
           [] p.type = "EMOJI"                         -> encodeEmojiProps(value)
           [] p.type = "JSON"                          -> Column("TEXT", value)
           [] p.type = "NULL"                          -> Column("INTEGER", 0)

decodeValue(p, col) ==
    IF col = NULL THEN getNullValue(p.nullValue)
    ELSE CASE p.type \in {"STRING", "BIG_INTEGER", "BASE64"} -> Js("string", col.value)
           [] p.type \in {"INTEGER", "FLOAT"}              -> Js("number", col.value)
           [] p.type \in {"BOOLEAN", "STRICT_BOOLEAN"}     -> Js("boolean", col.value # 0)
           [] p.type = "IMAGE_HASH"                      -> decodeImageHash(col)
           [] p.type = "BIG_INTEGER_ARRAY"               -> decodeSnowflakeArray(col)
           [] p.type = "TIMESTAMP" ->
                [is |-> "instant", milliseconds |-> col.value, rest |-> 0]
           [] p.type = "EMOJI"                           -> decodeEmojiProps(col)
           [] p.type = "JSON"                            -> col.value
           [] p.type = "NULL"                            -> null

-----------------------------------------------------------------------------
\* A schema maps keys to the information about the property, and the keys of
\* sub-objects to [properties, nullValue].  An object maps its keys to values,
\* and those it does not have to undefined; a sub-object is
\* Js("object", <such a map>).  Columns are named <<key>> and <<key, subKey>>.
Columns(schema) ==
    {<<k>> : k \in DOMAIN schema.properties}
      \cup UNION {{<<k, s>> : s \in DOMAIN schema.subObjects[k].properties} :
                    k \in DOMAIN schema.subObjects}

\* Partial objects do not give the columns of keys that they do not have.
Given(schema, object, partial) ==
    {c \in Columns(schema) : ~(partial /\ object[c[1]] = undefined)}

EncodedColumn(schema, object, c) ==
    IF Len(c) = 1 THEN encodeValue(schema.properties[c[1]], object[c[1]])
    ELSE IF object[c[1]] \in {undefined, null} THEN NULL
    ELSE encodeValue(schema.subObjects[c[1]].properties[c[2]], object[c[1]].value[c[2]])

\* The columns that result; those of a conversion that throws are Error.
encodeObject(schema, object, partial) ==
    [c \in Given(schema, object, partial) |-> EncodedColumn(schema, object, c)]

decodeSubObject(key, sub, row) ==
    IF \E s \in DOMAIN sub.properties :
            row[<<key, s>>] = NULL /\ sub.properties[s].nullValue = Required
    THEN getNullValue(sub.nullValue)
    ELSE Js("object", [s \in DOMAIN sub.properties |->
                          decodeValue(sub.properties[s], row[<<key, s>>])])

decodeObject(schema, row) ==
    [k \in DOMAIN schema.properties \cup DOMAIN schema.subObjects |->
        IF k \in DOMAIN schema.properties
        THEN decodeValue(schema.properties[k], row[<<k>>])
        ELSE decodeSubObject(k, schema.subObjects[k], row)]

\* `Object.assign(oldObject, object)` in addSnapshot
Assigned(row, columns) ==
    [c \in DOMAIN row |-> IF c \in DOMAIN columns THEN columns[c] ELSE row[c]]
=============================================================================
