------------------------------ MODULE MCFormats ------------------------------
(***************************************************************************)
(* The formats, which share no state, in one run: of bencode, the dict,    *)
(* four keys and up to four sets; the reader and writer of files, up to    *)
(* five chunks, and what the program writes; and the streaming reader,     *)
(* values of up to three levels and other texts; and identities and the    *)
(* encodings of their texts.  A behaviour is one of one part; the others   *)
(* stand still.                                                            *)
(***************************************************************************)
EXTENDS BencodeDict, BencodeText

CONSTANTS Chunk, MaxChunks, Object, KeyLen, DataMax, PubKeys, Wire, MaxBytes, MaxText

VARIABLES part, file, chunks, wrote, ident, text, idfile, ok, source, bytes, chars

Codec == INSTANCE BencodeCodec
Ids == INSTANCE MCIdentity WITH file <- idfile

MCKey == 1 .. 4

x == <<120>>
str0a == <<48, 49, 58, 97>>     \* 01:a, a string as the reader of files counts
str0b == <<48, 49, 58, 98>>
empty0 == <<48, 58>>
ab == <<50, 58, 97, 98>>        \* 2:ab

MCChunk == {<<100>>, <<108>>, <<101>>, x, str0a, str0b, empty0, ab}

\* "cert" -> three bytes, "eddsa_privkey" -> a key in which "e" and "d" occur
Keys == <<"dict", <<[key |-> <<99, 101, 114, 116>>, val |-> <<"str", <<0, 0, 0>>>>],
                    [key |-> <<101, 100, 100, 115, 97, 95, 112, 114, 105, 118, 107, 101, 121>>,
                     val |-> <<"str", <<101, 100, 48, 255>>>>]>>>>

MCObject == {Keys, <<"dict", <<>>>>, <<"str", <<>>>>, <<"str", <<97>>>>, <<"str", <<97, 98>>>>,
             <<"int", 12>>}

(* Values for the streaming reader, none with an empty dict or an empty key:
   strings that look like structure and that outgrow their first room, and
   lists and dicts of up to two items, two levels of them in another list. *)
Number(n) == [kind |-> "int", num |-> n]
String(s) == [kind |-> "str", str |-> s]
List(items) == [kind |-> "list", items |-> items]
Dict(items) == [kind |-> "dict", items |-> items]
Item(k, v) == [key |-> k, val |-> v]

Leaves == {Number(12), String(<<>>), String(<<101, 58, 49>>)}
k1 == <<101>>
k2 == <<97, 98, 99>>

Inner == Leaves \cup {List(<<>>), List(<<Number(0), String(x)>>), Dict(<<Item(k1, Number(12))>>),
                      Dict(<<Item(k1, String(<<>>)), Item(k2, Number(0))>>)}

Lists == {List(<<v>>) : v \in Inner} \cup {List(<<v, w>>) : v, w \in Inner}
Dicts == {Dict(<<Item(k2, v)>>) : v \in Inner} \cup {Dict(<<Item(k2, v), Item(k1, w)>>) : v, w \in Inner}

MCValue == Leaves \cup Lists \cup Dicts
               \cup {List(<<Dict(<<Item(k2, List(<<Number(0)>>))>>), Number(12)>>)}

MCSymbol == {48, 49, 58, 100, 101, 105, 108, 120}

-----------------------------------------------------------------------------
(* Identities with keys of four bytes and certificates with none or two bytes
   of data, of which the header may claim up to seven, and texts that end
   before the certificate does. *)
MCPubKeys == {<<1, 0, 0, 9>>, <<2, 0, 0, 9>>, <<7, 0, 5, 9>>}

MCWire ==
    {p \o <<t, 0, l>> \o [i \in 1 .. n |-> 8] :
        p \in {<<1, 0, 0, 9>>, <<3, 4, 5, 6>>}, t \in {5}, l \in {0, 2, 4, 7}, n \in {0, 2}}
    \cup {<<1>>, <<3, 4, 5, 6, 0, 0>>}

-----------------------------------------------------------------------------
codecvars == <<file, chunks, wrote>>
idvars == <<ident, text, idfile, ok, source, bytes, chars>>

\* Each part begins in one state, in which it also stands still.
MCInit ==
    /\ part \in {"dict", "codec", "stream", "ids"}
    /\ Init /\ Codec!Init /\ SInit /\ Ids!MCInit

MCNext ==
    /\ UNCHANGED part
    /\ \/ part = "dict" /\ Next /\ UNCHANGED <<codecvars, svars, idvars>>
       \/ part = "codec" /\ Codec!Next /\ UNCHANGED <<vars, svars, idvars>>
       \/ part = "stream" /\ SNext /\ UNCHANGED <<vars, codecvars, idvars>>
       \/ part = "ids" /\ Ids!MCNext /\ UNCHANGED <<vars, codecvars, svars>>

\* The fairness of BencodeDict: a call that has begun goes on.
MCSpec == MCInit /\ [][MCNext]_<<part, vars, codecvars, svars, idvars>> /\ WF_vars(Step)

(* What BencodeCodec and MCIdentity claim of their parts. *)
OwnDictIsRead == part = "codec" => Codec!OwnDictIsRead
ReadCanBeFreed == part = "codec" => Codec!ReadCanBeFreed
ReadWithinFile == part = "codec" => Codec!ReadWithinFile
PlainHashIsOfSource == part = "ids" => Ids!PlainHashIsOfSource
OwnTextIsAccepted == part = "ids" => Ids!OwnTextIsAccepted
EncodesInDigits == part = "ids" => Ids!EncodesInDigits
DecodeInverts == part = "ids" => Ids!DecodeInverts
=============================================================================
