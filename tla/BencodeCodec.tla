---------------------------- MODULE BencodeCodec ----------------------------
(***************************************************************************)
(* The reader and the writer of mnet/bencode.c, over the bytes of a file.  *)
(* A file is what the daemon wrote, or the beginning of it, or what anyone *)
(* else put together.  What a call does to memory is followed as far as    *)
(* telling a value from one that must not be touched.                      *)
(***************************************************************************)
EXTENDS Integers, Sequences, SequencesExt

CONSTANTS
    Chunk,      \* byte sequences that foreign files are put together from
    MaxChunks,  \* bound: chunks of a file
    Object      \* objects the program writes

\* Bytes are their ASCII codes; EOF is what fgetc returns at the end.
EOF == -1
Colon == 58
Minus == 45
Digit == 48 .. 57
Ce == 101
Ci == 105
Cd == 100
Cl == 108

\* A bencode_obj_t: NULL, a string, an int, a list, or a dict, whose items are
\* kept in the order of its chain.
Nil == <<"nil">>
Str(s) == <<"str", s>>
Int64(i) == <<"int", i>>
List(items) == <<"list", items>>
Dict(items) == <<"dict", items>>

IsDict(o) == o[1] = "dict"
IsList(o) == o[1] = "list"

\* What is left of an object that has been freed.
Freed(o) == IF o = Nil THEN Nil ELSE <<"freed">>

\* bencode_obj_free frees the items of a list, which must not have been freed
\* before.  The items of a dict are copies that are the dict's own.
Freeable(o) == IsList(o) => \A i \in DOMAIN o[2] : o[2][i] = Nil

VARIABLES
    file,       \* the bytes of the file
    chunks,     \* chunks it was put together from
    wrote       \* the object that was written to it, or Nil

vars == <<file, chunks, wrote>>

-----------------------------------------------------------------------------
(* _bencode_write.  A list has a last node without a value, which the writer
   passes on to itself: writing one ends the process. *)

RECURSIVE Decimal(_)
Decimal(n) == IF n < 10 THEN <<48 + n>> ELSE Decimal(n \div 10) \o <<48 + (n % 10)>>

WriteString(s) == Decimal(Len(s)) \o <<Colon>> \o s

RECURSIVE Writable(_)
Writable(o) ==
    CASE IsDict(o) -> \A i \in DOMAIN o[2] : Writable(o[2][i].val)
      [] IsList(o) -> FALSE
      [] OTHER -> TRUE

RECURSIVE Write(_)
Write(o) ==
    CASE o[1] = "str" -> WriteString(o[2])
      [] o[1] = "int" -> <<Ci>> \o Decimal(o[2]) \o <<Ce>>
      [] IsDict(o) ->
            <<Cd>> \o FoldLeft(LAMBDA acc, item :
                                  acc \o WriteString(item.key) \o Write(item.val),
                               <<>>, o[2])
                   \o <<Ce>>

-----------------------------------------------------------------------------
(* _bencode_read.  The state of a read: the position in the file, ctx->read,
   and whether the process is still sound. *)

State(pos, read, sound) == [pos |-> pos, read |-> read, sound |-> sound]

At(f, pos) == IF pos <= Len(f) THEN f[pos] ELSE EOF

Result(pos, read, sound, obj) == [st |-> State(pos, read, sound), obj |-> obj]

RECURSIVE Number(_)
Number(s) == IF s = <<>> \/ s[1] \notin Digit THEN 0
             ELSE LET d == SelectInSeq(s, LAMBDA c : c \notin Digit)
                      n == IF d = 0 THEN Len(s) ELSE d - 1
                  IN  Number(SubSeq(s, 1, n - 1)) * 10 + (s[n] - 48)

\* atoi
Atoi(s) == IF s # <<>> /\ s[1] = Minus THEN -Number(Tail(s)) ELSE Number(s)

\* Characters getdelim takes: to the colon, or to the end.
ToColon(rest) ==
    LET colon == SelectInSeq(rest, LAMBDA c : c = Colon)
    IN  IF colon = 0 THEN Len(rest) ELSE colon

\* The string of sz bytes at pos.  fread of one item of sz bytes returns 1 at
\* most, which is sz for one byte only.
StrAt(f, pos, read, sz) ==
    CASE sz < 0 -> Result(pos, -1, TRUE, Nil)
      [] sz = 0 -> Result(pos, read, TRUE, Str(<<>>))
      [] sz = 1 /\ pos <= Len(f) -> Result(pos + 1, read + 1, TRUE, Str(<<f[pos]>>))
      [] OTHER -> Result(pos + sz, -1, TRUE, Nil)

\* _bencode_read_str.  The first digit of the length, which the caller has
\* read, is put in front of a buffer and left out of the number; a missing
\* colon costs the last byte.
ReadStr(f, st) ==
    LET rest == SubSeq(f, st.pos, Len(f))
        slen == ToColon(rest)
    IN  IF rest = <<>> THEN Result(st.pos, -1, TRUE, Nil)
        ELSE StrAt(f, st.pos + slen, st.read + slen, Atoi(SubSeq(rest, 1, slen - 1)))

\* bencode_obj_clone copies a dict item by item in ascending order, which
\* bencode_obj_dict_set takes one of, and passes the last node of a list,
\* which has no value, to itself.
RECURSIVE Clonable(_)
Clonable(o) ==
    CASE IsDict(o) -> Len(o[2]) <= 1 /\ \A i \in DOMAIN o[2] : Clonable(o[2][i].val)
      [] IsList(o) -> FALSE
      [] OTHER -> TRUE

\* bencode_obj_dict_set takes a key below every one the dict has (module
\* BencodeDict); an empty string has no data to compare or to copy.
Settable(items, k, v) ==
    /\ Clonable(v)
    /\ k # <<>>
    /\ items = <<>> \/ k[1] < items[1].key[1]

RECURSIVE Read(_, _, _), ReadList(_, _, _), ReadDict(_, _, _)

\* Mutant of Read: a byte that begins no object is passed over.
ReadAnyByte(f, st, prefix) ==
    CASE prefix = Cl -> ReadList(f, st, <<>>)
      [] prefix = Cd -> ReadDict(f, st, <<>>)
      [] prefix \in Digit -> ReadStr(f, st)
      [] OTHER -> Result(st.pos, st.read, TRUE, Nil)

\* prefix is the byte the caller has read already.
Read(f, st, prefix) ==
    CASE prefix = Cl -> ReadList(f, st, <<>>)
      [] prefix = Cd -> ReadDict(f, st, <<>>)
      [] prefix \in Digit -> ReadStr(f, st)
      [] OTHER -> Result(st.pos, -1, TRUE, Nil)

\* bencode_obj_list_append keeps the item itself, and the reader frees it: the
\* list is left with items that must not be touched, and such a list is not an
\* item that can be freed.
AppendItem(f, items, item) ==
    IF item.st.sound /\ Freeable(item.obj)
    THEN ReadList(f, item.st, Append(items, Freed(item.obj)))
    ELSE [item EXCEPT !.st.sound = FALSE]

\* A failure of an item is counted on from -1.
ReadList(f, st, items) ==
    LET c == At(f, st.pos)
    IN  CASE c = Ce -> Result(st.pos + 1, st.read, st.sound, List(items))
          [] c = EOF -> Result(st.pos, -1, st.sound, List(items))
          [] OTHER -> AppendItem(f, items, Read(f, State(st.pos + 1, st.read + 1, st.sound), c))

\* _bencode_read_dict_item once the value is read: it is copied if no error is
\* counted, and freed.
SetItem(items, k, v) ==
    LET okay == v.st.read > 0
    IN  [st |-> [v.st EXCEPT !.sound = /\ @ /\ Freeable(v.obj)
                                      /\ okay => Settable(items, k, v.obj)],
         items |-> IF okay THEN <<[key |-> k, val |-> v.obj]>> \o items ELSE items]

\* _bencode_read_dict_item once the key is read.  A byte past the end counts
\* as read until its value is found to be none.
ReadValue(f, items, k) ==
    LET c == At(f, k.st.pos)
    IN  IF k.st.read < 0 THEN [st |-> k.st, items |-> items]
        ELSE SetItem(items, k.obj[2],
                     Read(f, State(IF c = EOF THEN k.st.pos ELSE k.st.pos + 1, k.st.read + 1, TRUE), c))

ReadDictItem(f, st, items) == ReadValue(f, items, ReadStr(f, st))

\* The items of the dict after one.
DictGoesOn(f, item) ==
    IF item.st.sound
    THEN ReadDict(f, item.st, item.items)
    ELSE [st |-> item.st, obj |-> Dict(item.items)]

ReadDict(f, st, items) ==
    LET c == At(f, st.pos)
    IN  CASE c = Ce -> Result(st.pos + 1, st.read, st.sound, Dict(items))
          [] c = EOF -> Result(st.pos, -1, st.sound, Dict(items))
          [] OTHER -> DictGoesOn(f, ReadDictItem(f, State(st.pos + 1, st.read + 1, TRUE), items))

\* bencode_read_file
ReadFile(f) ==
    LET c == At(f, 1)
    IN  Read(f, State(2, 1, TRUE), c)

-----------------------------------------------------------------------------
(* Files. *)

Init == file = <<>> /\ chunks = 0 /\ wrote = Nil

\* bencode_write_file, of which a crash or a full disk may keep a part.
WriteFile(o) ==
    /\ file = <<>> /\ wrote = Nil /\ Writable(o)
    /\ \E n \in 0 .. Len(Write(o)) : file' = SubSeq(Write(o), 1, n)
    /\ wrote' = o
    /\ UNCHANGED chunks

\* Another program's file.
Put(c) ==
    /\ wrote = Nil /\ chunks < MaxChunks
    /\ file' = file \o c
    /\ chunks' = chunks + 1
    /\ UNCHANGED wrote

Next == (\E o \in Object : WriteFile(o)) \/ (\E c \in Chunk : Put(c))

Spec == Init /\ [][Next]_vars

-----------------------------------------------------------------------------
(* Properties. *)

\* A read never claims more bytes than the file has, however often an error
\* inside a list or a dict has been counted on.
ReadWithinFile == ReadFile(file).st.read <= Len(file)

\* router.c reads what mnet_identity_keys_write left: "load existing keys", and
\* bencode.h of bencode_read_file: "number of bytes read or -1 on error".  A dict
\* the program has written whole is not read back: -1 for its first string of
\* more than one byte.
OwnDictIsRead ==
    IsDict(wrote) /\ wrote[2] # <<>> /\ file = Write(wrote) =>
        LET r == ReadFile(file) IN r.st.sound /\ r.st.read # -1 /\ r.obj = wrote

\* bencode.h of bencode_obj_list_append: "item to append, is copied".  What was
\* read can be freed, which router_info_load and mnet_identity_keys_read do; a
\* list is left with the items that the reader has freed.
ReadCanBeFreed == LET r == ReadFile(file) IN r.st.sound => Freeable(r.obj)
=============================================================================
