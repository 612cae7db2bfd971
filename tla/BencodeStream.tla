---------------------------- MODULE BencodeStream ----------------------------
(***************************************************************************)
(* The streaming reader of contrib/bencode/bencode.c: it is given a text   *)
(* in buffers cut anywhere, keeps a stack of frames between them, and      *)
(* reports what it reads through callbacks.  A step is one byte.           *)
(***************************************************************************)
EXTENDS Integers, Sequences, SequencesExt

CONSTANTS
    Depth,      \* expected_depth of bencode_new
    FirstRoom,  \* bytes of a string or a key when its frame is first pushed: 20
    Value,      \* values whose texts are fed
    TextOf(_),  \* the text of one
    Symbol,     \* bytes that other texts are made of
    MaxFree     \* bound: bytes of such a text

\* Bytes are their ASCII codes.
Byte == 0 .. 255
Digit == 48 .. 57
Colon == 58
Cd == 100
Ce == 101
Ci == 105
Cl == 108

ASSUME RoomAssumption == Depth \in Nat /\ FirstRoom \in Nat \ {0}
ASSUME ByteAssumption == Symbol \subseteq Byte /\ \A v \in Value : TextOf(v) \in Seq(Byte)

Unset == <<-1>>     \* a key that is allocated and was never written
Null == <<-2>>      \* the key of the frame at the bottom

VARIABLES
    reader,     \* the frames, how many are pushed, the callbacks and the end
    inside,     \* bencode_dispatch_from_buffer has not returned yet
    value,      \* the value whose text is fed, or None
    rest,       \* the bytes of that text still to come
    fed         \* how many bytes of another text have been fed

svars == <<reader, inside, value, rest, fed>>

None == [kind |-> "none"]

Frame == [type |-> "none", key |-> Unset, part |-> <<>>, len |-> 0, num |-> 0,
          kroom |-> 0, room |-> 0]

\* bencode_new: all frames are zero, so the one at the bottom has no key.
Fresh == [stk |-> [n \in 0 .. Depth |-> [Frame EXCEPT !.key = IF n = 0 THEN Null ELSE Unset]],
          d |-> 0, out |-> <<>>, end |-> "none"]

SInit ==
    /\ reader = Fresh /\ inside = FALSE /\ fed = 0
    /\ value = None /\ rest = <<>>

-----------------------------------------------------------------------------
(* The stack.  An assertion ends the process, a byte that fits nowhere the
   call: what came first counts. *)

Top(r) == r.stk[r.d]
Ends(r, how) == IF r.end = "none" THEN [r EXCEPT !.end = how] ELSE r
OnTop(r, f) == [r EXCEPT !.stk[r.d] = f]
Becomes(r, type) == OnTop(r, [Top(r) EXCEPT !.type = type, !.part = <<>>])

Report(r, kind, key, val) ==
    IF r.end # "none" THEN r
    ELSE [r EXCEPT !.out = Append(@, [kind |-> kind, key |-> key, val |-> val])]

\* Mutant of Pushed: the length of the last string or key is still there.
PushedWithLen(f) ==
    [Frame EXCEPT !.key = f.key, !.len = f.len,
                  !.kroom = IF f.kroom = 0 THEN FirstRoom ELSE f.kroom,
                  !.room = IF f.room = 0 THEN FirstRoom ELSE f.room]

\* Key and buffers of a frame outlive it.
Pushed(f) ==
    [Frame EXCEPT !.key = f.key,
                  !.kroom = IF f.kroom = 0 THEN FirstRoom ELSE f.kroom,
                  !.room = IF f.room = 0 THEN FirstRoom ELSE f.room]

\* __push_stack
Push(r) ==
    IF r.d >= Depth THEN Ends(r, "assert")
    ELSE OnTop([r EXCEPT !.d = @ + 1], Pushed(r.stk[r.d + 1]))

Leave(r) == IF Top(r).type \in {"list", "dict"}
            THEN Report(r, Top(r).type \o "_leave", Top(r).key, <<>>) ELSE r

GoOn(r) == IF Top(r).type \in {"list", "dict"}
           THEN Report(r, Top(r).type \o "_next", Unset, <<>>) ELSE r

\* Mutant of Pop: the leave is that of the frame below.
PopThenLeave(r) ==
    IF r.d = 0 THEN Leave(r) ELSE GoOn(Leave([r EXCEPT !.d = @ - 1]))

\* __pop_stack: the frame at the bottom stays as it is.
Pop(r) == IF r.d = 0 THEN Leave(r) ELSE GoOn([Leave(r) EXCEPT !.d = @ - 1])

-----------------------------------------------------------------------------
(* __process_tok, by the type of the frame on top. *)

Numbered(n, c) == (c - 48) + n * 10

\* The dict's frame, and one for its first key.
StartDict(r) ==
    LET entered == Report(Becomes(r, "dict"), "dict_enter", Top(r).key, <<>>)
    IN  Becomes(Push(entered), "keylen")

StartStr(r, c) ==
    OnTop(r, [Top(r) EXCEPT !.type = "strlen", !.part = <<>>, !.len = Numbered(@, c)])

\* An item begins in the frame on top.
Begin(r, c) ==
    CASE c = Ci -> Becomes(r, "int")
      [] c = Cd -> StartDict(r)
      [] c = Cl -> Report(Becomes(r, "list"), "list_enter", Top(r).key, <<>>)
      [] c \in Digit -> StartStr(r, c)
      [] OTHER -> Ends(r, "refused")

InList(r, c) ==
    CASE c = Ce -> Pop(r)
      [] c \in {Ci, Cd, Cl} \cup Digit -> Begin(Push(r), c)
      [] OTHER -> Ends(r, "refused")

InInt(r, c) ==
    CASE c = Ce -> Pop(Report(r, "hit_int", Top(r).key, <<Top(r).num>>))
      [] c \in Digit -> OnTop(r, [Top(r) EXCEPT !.num = Numbered(@, c)])
      [] OTHER -> Ends(r, "assert")

InStrLen(r, c) ==
    CASE c = Colon /\ Top(r).len = 0 -> Pop(Report(r, "hit_str", Top(r).key, <<>>))
      [] c = Colon /\ Top(r).len # 0 -> Becomes(r, "str")
      [] c \in Digit -> OnTop(r, [Top(r) EXCEPT !.len = Numbered(@, c)])
      [] OTHER -> Ends(r, "assert")

\* Mutant of Room: no byte is kept for the one that ends the string.
RoomExact(room, used) == IF room <= used THEN 4 + room * 2 ELSE room

\* Room for the next byte and a zero behind it.
Room(room, used) == IF room <= used + 1 THEN 4 + room * 2 ELSE room

InStr(r, c) ==
    LET used == Len(Top(r).part)
        read == OnTop(r, [Top(r) EXCEPT !.room = Room(@, used), !.part = Append(@, c)])
    IN  IF used + 1 = Top(r).len
        THEN Pop(Report(read, "hit_str", Top(r).key, Top(read).part)) ELSE read

\* An e where a key should begin takes away the key's frame, not the dict's.
InKeyLen(r, c) ==
    CASE c = Colon -> Becomes(r, "key")
      [] c \in Digit -> OnTop(r, [Top(r) EXCEPT !.len = Numbered(@, c)])
      [] c = Ce -> Pop(r)
      [] OTHER -> Ends(r, "refused")

InDict(r, c) == IF c = Ce THEN Pop(r) ELSE InKeyLen(Becomes(Push(r), "keylen"), c)

InKey(r, c) ==
    LET used == Len(Top(r).part)
        read == [Top(r) EXCEPT !.kroom = Room(@, used), !.part = Append(@, c)]
    IN  OnTop(r, IF used + 1 = Top(r).len
                 THEN [read EXCEPT !.type = "val", !.key = read.part, !.part = <<>>, !.len = 0]
                 ELSE read)

Process(r, c) ==
    CASE Top(r).type \in {"none", "val"} -> Begin(r, c)
      [] Top(r).type = "list" -> InList(r, c)
      [] Top(r).type = "int" -> InInt(r, c)
      [] Top(r).type = "strlen" -> InStrLen(r, c)
      [] Top(r).type = "str" -> InStr(r, c)
      [] Top(r).type = "dict" -> InDict(r, c)
      [] Top(r).type = "keylen" -> InKeyLen(r, c)
      [] Top(r).type = "key" -> InKey(r, c)

-----------------------------------------------------------------------------
(* The feeding of a text in buffers. *)

Choose(v) ==
    /\ value = None /\ fed = 0 /\ ~inside
    /\ value' = v /\ rest' = TextOf(v)
    /\ UNCHANGED <<reader, inside, fed>>

\* bencode_dispatch_from_buffer is called: a reader with all its frames pushed
\* refuses the buffer.
Dispatch ==
    /\ ~inside /\ reader.end = "none"
    /\ value # None => rest # <<>>
    /\ IF reader.d >= Depth
       THEN reader' = Ends(reader, "refused") /\ UNCHANGED inside
       ELSE inside' = TRUE /\ UNCHANGED reader
    /\ UNCHANGED <<value, rest, fed>>

Feed ==
    /\ inside /\ reader.end = "none" /\ rest # <<>>
    /\ reader' = Process(reader, Head(rest)) /\ rest' = Tail(rest)
    /\ UNCHANGED <<inside, value, fed>>

FeedFree(c) ==
    /\ inside /\ reader.end = "none" /\ value = None /\ fed < MaxFree
    /\ reader' = Process(reader, c) /\ fed' = fed + 1
    /\ UNCHANGED <<inside, value, rest>>

\* The buffer has no more bytes.
Return ==
    /\ inside /\ reader.end = "none"
    /\ inside' = FALSE
    /\ UNCHANGED <<reader, value, rest, fed>>

SNext ==
    \/ \E v \in Value : Choose(v)
    \/ Dispatch
    \/ Feed
    \/ \E c \in Symbol : FeedFree(c)
    \/ Return

SSpec == SInit /\ [][SNext]_svars

-----------------------------------------------------------------------------
(* Properties. *)

\* What is open after the callbacks so far, the innermost last; a leave that
\* is not of the innermost leaves a mark nothing takes away.
Nesting(out) ==
    FoldLeft(LAMBDA open, e :
                CASE e.kind = "list_enter" -> Append(open, "list")
                  [] e.kind = "dict_enter" -> Append(open, "dict")
                  [] e.kind \in {"list_leave", "dict_leave"} ->
                        IF open # <<>> /\ Last(open) \o "_leave" = e.kind
                        THEN Front(open) ELSE Append(open, "wrong")
                  [] OTHER -> open,
             <<>>, out)

\* The value at the bottom has been left.
Over(out) ==
    \E n \in DOMAIN out :
        out[n].kind \in {"list_leave", "dict_leave"} /\ Nesting(SubSeq(out, 1, n)) = <<>>

\* Whatever is fed, until the value at the bottom is left the frames that are
\* lists and dicts are those entered and not left, in that order
\* (__push_stack and __pop_stack; an empty dict stays one of them).
EntersAreOpen ==
    reader.end # "assert" /\ ~Over(reader.out) =>
        Nesting(reader.out) =
            SelectSeq([n \in 1 .. reader.d + 1 |-> reader.stk[n - 1].type],
                      LAMBDA type : type \in {"list", "dict"})

\* Strings and keys never outgrow their buffers, the byte behind them included
\* (the reallocations of __process_tok).
WritesInRoom ==
    \A n \in 0 .. Depth :
        LET f == reader.stk[n]
        IN  /\ f.type = "str" /\ f.part # <<>> => Len(f.part) < f.room
            /\ f.type = "key" => Len(f.part) < f.kroom
            /\ f.key \notin {Unset, Null} => Len(f.key) < f.kroom
=============================================================================
