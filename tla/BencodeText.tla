----------------------------- MODULE BencodeText -----------------------------
(***************************************************************************)
(* Values in bencode, and the callbacks that the streaming reader should   *)
(* make of one.                                                            *)
(***************************************************************************)
EXTENDS BencodeStream

-----------------------------------------------------------------------------
(* The text of a value. *)

RECURSIVE Decimal(_)
Decimal(n) == IF n < 10 THEN <<48 + n>> ELSE Decimal(n \div 10) \o <<48 + (n % 10)>>

StrText(s) == Decimal(Len(s)) \o <<Colon>> \o s

RECURSIVE Text(_)
Text(v) ==
    CASE v.kind = "int" -> <<Ci>> \o Decimal(v.num) \o <<Ce>>
      [] v.kind = "str" -> StrText(v.str)
      [] v.kind = "list" -> <<Cl>> \o FlattenSeq([i \in DOMAIN v.items |-> Text(v.items[i])]) \o <<Ce>>
      [] v.kind = "dict" ->
            <<Cd>> \o FlattenSeq([i \in DOMAIN v.items |->
                                     StrText(v.items[i].key) \o Text(v.items[i].val)]) \o <<Ce>>

-----------------------------------------------------------------------------
(* What a value should be reported as. *)

Also(told, kind, key, val) ==
    Append(told, [kind |-> kind, key |-> key, val |-> val])

\* Callbacks for v, the item of this key, after those told already.  The value
\* at the bottom has no key, and neither has an item of a list.
RECURSIVE Tell(_, _, _)
Tell(v, key, told) ==
    LET Item(t, w) == Also(Tell(w, Null, t), "list_next", Unset, <<>>)
        Pair(t, p) == Also(Tell(p.val, p.key, t), "dict_next", Unset, <<>>)
    IN  CASE v.kind = "int" -> Also(told, "hit_int", key, <<v.num>>)
          [] v.kind = "str" -> Also(told, "hit_str", key, v.str)
          [] v.kind = "list" ->
                Also(FoldLeft(Item, Also(told, "list_enter", key, <<>>), v.items),
                     "list_leave", key, <<>>)
          [] v.kind = "dict" ->
                Also(FoldLeft(Pair, Also(told, "dict_enter", key, <<>>), v.items),
                     "dict_leave", key, <<>>)

RECURSIVE Height(_)
Height(v) ==
    CASE v.kind = "list" -> FoldLeft(LAMBDA h, w : IF Height(w) >= h THEN Height(w) + 1 ELSE h,
                                     0, v.items)
      [] v.kind = "dict" -> FoldLeft(LAMBDA h, p : IF Height(p.val) >= h THEN Height(p.val) + 1 ELSE h,
                                     1, v.items)
      [] OTHER -> 0

Told(v) == Tell(v, Null, <<>>)

-----------------------------------------------------------------------------
(* Properties. *)

\* A callback is the one told, with its key if it has one.
Agrees(got, told) ==
    got.kind = told.kind /\ got.val = told.val /\ (told.key # Null => got.key = told.key)

\* However a value's text is cut into buffers, the callbacks are those of the
\* value, in order, those for items of a dict with their key; the process is
\* ended only by a value higher than the reader was made for, and a buffer
\* refused only when all frames are in use (bencode_dispatch_from_buffer).
ReportsValue ==
    value # None =>
        LET told == Told(value)
        IN  /\ Len(reader.out) <= Len(told)
            /\ \A n \in DOMAIN reader.out : Agrees(reader.out[n], told[n])
            /\ rest = <<>> /\ reader.end = "none" => Len(reader.out) = Len(told)
            /\ reader.end = "assert" => Height(value) > Depth
            /\ reader.end = "refused" => ~inside /\ Height(value) >= Depth
=============================================================================
