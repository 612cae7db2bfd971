------------------------------ MODULE Ed25519 ------------------------------
(***************************************************************************)
(* keypair.c, sign.c and open.c of contrib/ref10 over the points of a      *)
(* small curve.  SHA-512 is a function chosen as it is asked, which        *)
(* remembers what it has answered; sc_reduce and sc_muladd are what        *)
(* Sc25519 shows them to be, and the multiplications of points what        *)
(* EdScalarMult shows.  The two powers of 2 that scalars are held to are    *)
(* parameters, as the order L of B is.                                     *)
(***************************************************************************)
EXTENDS EdScalarMult

CONSTANTS
    L,              \* the order of B
    Short,          \* what S must be below: 2^253
    TopBit,         \* the highest bit of a secret scalar: 2^254
    Answer,         \* what the hash may answer
    Message

ASSUME SignAssumption ==
    /\ L \in 1 .. Short /\ Multiple(L, Base) = Zero
    /\ \A n \in 1 .. L - 1 : Multiple(n, Base) # Zero
    /\ Short \in Nat /\ TopBit \in Nat /\ TopBit >= 8
    /\ Answer \subseteq Nat

VARIABLES
    az,             \* the first half of the hash of sk, clamped; the second is in the queries
    pk,             \* the public key, a string
    sig,            \* [R : String, S : Int], the 64 bytes that crypto_sign fills
    m,              \* the message that goes with it
    asked,          \* what the hash was asked, and its answers
    made,           \* what crypto_sign put into sig, for which message and key
    opened          \* what crypto_sign_open returned, or None

svars == <<az, pk, sig, m, asked, made, opened>>

None == 1

\* 248, 63 and 64 on the first and last bytes: a multiple of 8 with its top bit set
Clamped(x) == TopBit + 8 * ((x \div 8) % (TopBit \div 8))
\* sig[63] & 224: L needs all the bits that this leaves to S but one
TooLong(S) == S >= Short
sc_reduce(x) == x % L
\* mutant: c is added after the reduction
sc_muladdLate(a, b, c) == ((a * b) % L) + c
sc_muladd(a, b, c) == (a * b + c) % L

\* the hash of q: x, as it was, or as it will be from now on
Hash(q, x) ==
    /\ x \in Answer
    /\ q \in DOMAIN asked => asked[q] = x
    /\ asked' = [k \in DOMAIN asked \cup {q} |-> IF k = q THEN x ELSE asked[k]]

PointOf(n) == Extended(MultipleOfBase[n % Order], 1)

\* crypto_sign_pubkey, for a secret key with any hash
SInit ==
    /\ \E x \in Answer : az = Clamped(x)
    /\ pk = ge_p3_tobytes(PointOf(az))
    /\ sig = [R |-> ge_p3_tobytes(ge_p3_0), S |-> 0]
    /\ m \in Message
    /\ asked = <<>> /\ made = <<>> /\ opened = None

\* crypto_sign: the nonce from the other half of the key and m, then R, then S
Sign ==
    /\ made = <<>>
    /\ \E nonce \in Answer, hram \in Answer :
          LET R == ge_p3_tobytes(PointOf(sc_reduce(nonce)))
          IN /\ Hash(<<R, pk, m>>, hram)
             /\ sig' = [R |-> R, S |-> sc_muladd(sc_reduce(hram), az, sc_reduce(nonce))]
             /\ made' = <<sig', m, pk>>
    /\ UNCHANGED <<az, pk, m, opened>>

\* what is opened is another string than what was signed
Altered ==
    /\ made # <<>> /\ opened = None
    /\ <<sig, m, pk>> = made
    /\ \/ \E S \in 0 .. 2 * Short - 1 : S # sig.S /\ sig' = [sig EXCEPT !.S = S] /\ UNCHANGED <<m, pk>>
       \/ \E R \in String : R # sig.R /\ sig' = [sig EXCEPT !.R = R] /\ UNCHANGED <<m, pk>>
       \/ \E n \in Message \ {m} : m' = n /\ UNCHANGED <<sig, pk>>
       \/ \E k \in String \ {pk} : pk' = k /\ UNCHANGED <<sig, m>>
    /\ UNCHANGED <<az, asked, made, opened>>

\* r = h * A + S * B, where A is what the key says, negated
Check(A, hash, S) ==
    ge_p3_to_p2(Extended(PointSum(Multiple(hash % Order, <<A.X.v, A.Y.v>>), MultipleOfBase[S % Order]), 1))

\* crypto_sign_open
Open ==
    /\ made # <<>> /\ opened = None
    /\ LET A == ge_frombytes_negate_vartime(pk)
       IN IF TooLong(sig.S) \/ A.status # 0
          THEN opened' = -1 /\ UNCHANGED asked
          ELSE \E x \in Answer :
                  /\ Hash(<<sig.R, pk, m>>, x)
                  /\ opened' = IF ge_tobytes(Check(A.h, sc_reduce(x), sig.S)) = sig.R THEN 0 ELSE -1
    /\ UNCHANGED <<az, pk, sig, m, made>>

SNext == Sign \/ Altered \/ Open

SSpec == SInit /\ [][SNext]_svars

-----------------------------------------------------------------------------
(* What crypto_sign made opens under the key that crypto_sign_pubkey made,
   whatever the hashes are: through the clamped key, the reduced nonce, a
   product modulo L and the negated point. And what opens is R + h * A for the
   hash over the very strings it was given, with an S that is S of the
   signature up to a multiple of L, when only S was altered. *)
OpensAsSigned ==
    /\ opened # None /\ <<sig, m, pk>> = made => opened = 0
    /\ opened = 0 =>
        /\ ~ TooLong(sig.S)
        /\ \E A \in Named(pk), R \in Named(sig.R) :
              MultipleOfBase[sig.S % Order] = PointSum(R, Multiple(sc_reduce(asked[<<sig.R, pk, m>>]), A))
        /\ <<sig.R, m, pk>> = <<made[1].R, made[2], made[3]>> => sig.S % L = made[1].S
=============================================================================
