------------------------------ MODULE FeChains ------------------------------
(***************************************************************************)
(* The two addition chains of contrib/ref10: fe_invert (pow225521.h) and   *)
(* fe_pow22523 (pow22523.h), a call of fe_sq or fe_mul a step.  A register *)
(* holds the exponent of its power of z, so that fe_sq doubles and fe_mul  *)
(* adds; that the two compute squares and products is Fe25519's matter.    *)
(* out may be the element z itself, as fe.h allows for the other calls.    *)
(***************************************************************************)
EXTENDS Wide

Temp == {"t0", "t1", "t2", "t3"}

\* fe_sq(d,s); for (i = 1;i < n;++i) fe_sq(d,d);
\* mutant: for (i = 0;i < n;++i)
SqCallsOneMore(d, s, n) == <<[op |-> "sq", d |-> d, a |-> s, b |-> s, n |-> n + 1]>>
SqCalls(d, s, n) == <<[op |-> "sq", d |-> d, a |-> s, b |-> s, n |-> n]>>
MulCall(d, a, b) == <<[op |-> "mul", d |-> d, a |-> a, b |-> b, n |-> 1]>>

fe_invert ==
    SqCalls("t0", "z", 1) \o SqCalls("t1", "t0", 2) \o MulCall("t1", "z", "t1") \o
    MulCall("t0", "t0", "t1") \o SqCalls("t2", "t0", 1) \o MulCall("t1", "t1", "t2") \o
    SqCalls("t2", "t1", 5) \o MulCall("t1", "t2", "t1") \o
    SqCalls("t2", "t1", 10) \o MulCall("t2", "t2", "t1") \o
    SqCalls("t3", "t2", 20) \o MulCall("t2", "t3", "t2") \o
    SqCalls("t2", "t2", 10) \o MulCall("t1", "t2", "t1") \o
    SqCalls("t2", "t1", 50) \o MulCall("t2", "t2", "t1") \o
    SqCalls("t3", "t2", 100) \o MulCall("t2", "t3", "t2") \o
    SqCalls("t2", "t2", 50) \o MulCall("t1", "t2", "t1") \o
    SqCalls("t1", "t1", 5) \o MulCall("out", "t1", "t0")

fe_pow22523 ==
    SqCalls("t0", "z", 1) \o SqCalls("t1", "t0", 2) \o MulCall("t1", "z", "t1") \o
    MulCall("t0", "t0", "t1") \o SqCalls("t0", "t0", 1) \o MulCall("t0", "t1", "t0") \o
    SqCalls("t1", "t0", 5) \o MulCall("t0", "t1", "t0") \o
    SqCalls("t1", "t0", 10) \o MulCall("t1", "t1", "t0") \o
    SqCalls("t2", "t1", 20) \o MulCall("t1", "t2", "t1") \o
    SqCalls("t1", "t1", 10) \o MulCall("t0", "t1", "t0") \o
    SqCalls("t1", "t0", 50) \o MulCall("t1", "t1", "t0") \o
    SqCalls("t2", "t1", 100) \o MulCall("t1", "t2", "t1") \o
    SqCalls("t1", "t1", 50) \o MulCall("t0", "t1", "t0") \o
    SqCalls("t0", "t0", 2) \o MulCall("out", "t0", "z")

Chain(which) == IF which = "invert" THEN fe_invert ELSE fe_pow22523

VARIABLES
    which,          \* the chain that runs
    alias,          \* whether out is the element that z is
    pow,            \* the exponent that each register holds
    at,             \* the call that is next
    turn            \* how many of its squarings are done

cvars == <<which, alias, pow, at, turn>>

Call == Chain(which)[at]
Done == at > Len(Chain(which))

CInit ==
    /\ which \in {"invert", "pow22523"}
    /\ alias \in BOOLEAN
    /\ pow = [r \in Temp \cup {"z", "out"} |-> Num(IF r = "z" THEN 1 ELSE 0)]
    /\ at = 1 /\ turn = 0

Write(d, e) ==
    pow' = [r \in DOMAIN pow |-> IF r = d \/ (alias /\ {r, d} = {"z", "out"}) THEN Fit(e, 21) ELSE pow[r]]

Advance(n) == IF turn + 1 = n THEN at' = at + 1 /\ turn' = 0 ELSE at' = at /\ turn' = turn + 1

Square ==
    /\ ~ Done
    /\ Call.op = "sq"
    /\ LET from == pow[IF turn = 0 THEN Call.a ELSE Call.d] IN Write(Call.d, Plus(from, from))
    /\ Advance(Call.n)
    /\ UNCHANGED <<which, alias>>

Multiply ==
    /\ ~ Done
    /\ Call.op = "mul"
    /\ Write(Call.d, Plus(pow[Call.a], pow[Call.b]))
    /\ Advance(1)
    /\ UNCHANGED <<which, alias>>

CNext == Square \/ Multiply

-----------------------------------------------------------------------------
\* p - 2, of which the power of z is its inverse, and (p - 5) / 8 = 2^252 - 3
Exponent(c) ==
    IF c = "invert" THEN Minus(ShiftLeft(Num(1), 255), Num(21))
    ELSE Minus(ShiftLeft(Num(1), 252), Num(3))

(* Some 265 calls end with the power that the name of the chain says, with
   out in a place of its own or in that of z; and z is not written before it
   has been read for the last time. *)
ChainMeets ==
    /\ Done => Equal(pow["out"], Exponent(which))
    /\ ~ Done => Equal(pow["z"], Num(1))
=============================================================================
