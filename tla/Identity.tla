------------------------------ MODULE Identity ------------------------------
(***************************************************************************)
(* Identities and certificates as bytes and as text: mnet/identity.c and   *)
(* mnet/cert.c.  An identity is a public key and a certificate, whose      *)
(* buffer is a type, two bytes of length and as much data.                 *)
(***************************************************************************)
EXTENDS Encoding

CONSTANTS
    KeyLen,     \* bytes of an eddsa_pubkey, more than one
    DataMax,    \* bytes of the buffer of mnet_identity_to_base64
    PubKeys,    \* public keys that are generated
    Wire        \* identities as another router writes them, in bytes

Null == <<>>
NoIdentity == [pub |-> Null, cert |-> Null]

Zeros(n) == [i \in 1 .. n |-> 0]

VARIABLES
    ident,      \* the identity at hand
    text,       \* a text of it, or Null
    file,       \* the bytes of a file, or Null
    ok,         \* what the last call returned
    source      \* the bytes the identity was read from, or Null

vars == <<ident, text, file, ok, source>>

-----------------------------------------------------------------------------
(* Certificates. *)

\* mnet_cert_init
CertInit(type, data) == <<type, Len(data) \div 256, Len(data) % 256>> \o data

\* Mutant of CertReadBuffer: the type is not copied either.
CertReadBufferNoType(d) ==
    LET l == d[2] * 256 + d[3]
    IN  IF l > Len(d) THEN [ok |-> FALSE, cert |-> Zeros(l + 3)]
        ELSE [ok |-> TRUE, cert |-> <<0, 0, 0>> \o SubSeq(d \o Zeros(3), 4, l + 3)]

\* mnet_cert_read_buffer of three bytes or more.  The length in the header is
\* not copied; it is compared with what there is, header included, so up to
\* three bytes after the end are data: mnet_base64_decode_str has them zeroed.
CertReadBuffer(d) ==
    LET l == d[2] * 256 + d[3]
    IN  IF l > Len(d) THEN [ok |-> FALSE, cert |-> <<d[1]>> \o Zeros(l + 2)]
        ELSE [ok |-> TRUE, cert |-> <<d[1], 0, 0>> \o SubSeq(d \o Zeros(3), 4, l + 3)]

-----------------------------------------------------------------------------
(* Identities. *)

\* mnet_identity_read_buffer, into an identity that is new.
ReadBuffer(in) ==
    IF Len(in) < 3 + KeyLen THEN [ok |-> FALSE, ident |-> NoIdentity]
    ELSE LET c == CertReadBuffer(SubSeq(in, KeyLen + 1, Len(in)))
         IN  [ok |-> c.ok, ident |-> [pub |-> SubSeq(in, 1, KeyLen), cert |-> c.cert]]

\* Mutant of ToBase64: the key is not counted.
ToBase64Short(i) ==
    LET sz   == Len(i.cert)
        data == i.cert \o SubSeq(i.pub \o Zeros(DataMax), sz + 1, DataMax)
    IN  IF sz + KeyLen <= DataMax THEN EncodeStr(SubSeq(data, 1, KeyLen)) ELSE Null

\* mnet_identity_to_base64: the certificate goes over the beginning of the key,
\* and as many zeros follow it.
ToBase64(i) ==
    LET sz   == Len(i.cert)
        data == i.cert \o SubSeq(i.pub \o Zeros(DataMax), sz + 1, DataMax)
    IN  IF sz + KeyLen <= DataMax THEN EncodeStr(SubSeq(data, 1, sz + KeyLen)) ELSE Null

\* What mnet_identity_hash hashes.
HashInput(i) == i.pub \o i.cert

-----------------------------------------------------------------------------

Init == ident = NoIdentity /\ text = Null /\ file = Null /\ ok = TRUE /\ source = Null

\* mnet_identity_keys_generate
Generate(p) ==
    /\ ident' = [pub |-> p, cert |-> CertInit(0, Null)]
    /\ ok' = TRUE /\ source' = Null
    /\ UNCHANGED <<text, file>>

\* mnet_identity_from_base64, as router_info_process calls it: what it returns
\* is logged, and the identity stays in the router info.  A text that decodes
\* with -1, one of more padding than data, is left out: its bytes are read with a
\* length of SIZE_MAX.
FromBase64(t) ==
    LET d == DecodeStr(t)
        r == ReadBuffer(d.out)
    IN  /\ d.count >= 0
        /\ ident' = IF d.count = 0 THEN NoIdentity ELSE r.ident
        /\ ok' = (d.count # 0 /\ r.ok)
        /\ source' = d.out
        /\ UNCHANGED <<text, file>>

\* mnet_identity_to_base64 of an identity that has a key.
MakeText ==
    /\ ident.pub # Null
    /\ text' = ToBase64(ident) /\ ok' = (ToBase64(ident) # Null)
    /\ UNCHANGED <<ident, file, source>>

\* mnet_identity_write: fwrite of one item returns 1, not its bytes.
WriteFile ==
    /\ ident.pub # Null
    /\ file' = ident.pub \o ident.cert
    /\ ok' = FALSE
    /\ UNCHANGED <<ident, text, source>>

\* mnet_identity_read: fread of one item returns 1 at most, so it never goes
\* on to the certificate.
ReadFile ==
    /\ file # Null
    /\ ok' = ((IF Len(file) < KeyLen THEN 0 ELSE 1) = KeyLen)
    /\ UNCHANGED <<ident, text, file, source>>

Next ==
    \/ \E p \in PubKeys : Generate(p)
    \/ \E w \in Wire : FromBase64(EncodeStr(w))
    \/ text # Null /\ FromBase64(text)
    \/ MakeText \/ WriteFile \/ ReadFile

Spec == Init /\ [][Next]_vars

-----------------------------------------------------------------------------
(* Properties. *)

\* What the text of an identity is hashed as, once it was read, is what the
\* bytes of it are, for a certificate without data: two routers that read the
\* same router info give it the same ident.
PlainHashIsOfSource ==
    source # Null /\ Len(ident.cert) = 3 /\ Len(source) = KeyLen + 3 =>
        HashInput(ident) = source

\* The text of an identity that the program generated is read as one that has
\* the same certificate and, but for the three bytes the certificate was copied
\* to, the same key.
OwnTextIsAccepted ==
    ident.pub # Null /\ ident.cert = CertInit(0, Null) =>
        LET r == ReadBuffer(DecodeStr(ToBase64(ident)).out)
        IN  /\ r.ok /\ r.ident.cert = ident.cert
            /\ SubSeq(r.ident.pub, 4, KeyLen) = SubSeq(ident.pub, 4, KeyLen)
=============================================================================
