------------------------------ MODULE Float32 ------------------------------
(***************************************************************************)
(* The single-precision arithmetic behind                                  *)
(* RouteMappingsRepo.GetCalculatedWeight:                                  *)
(*                                                                         *)
(*     int32((float32(w) / float32(d)) * 100)                              *)
(*                                                                         *)
(* exactly as IEEE 754 computes it (24-bit significand, round to nearest,  *)
(* ties to even) for integers below 2^24.  The quotient is rounded, the    *)
(* product is rounded again, the conversion truncates.  53 of 100 is       *)
(* therefore 52, not 53.                                                   *)
(***************************************************************************)
EXTENDS Int32

Precision == 24

\* The quotient a/d to k binary places and what is left over.
LongDivision(a, d) ==
    LET div[k \in Nat] ==
            IF k = 0 THEN [q |-> a \div d, r |-> a % d]
            ELSE LET p == div[k - 1]
                 IN  [q |-> 2 * p.q + (2 * p.r) \div d, r |-> (2 * p.r) % d]
    IN  div

\* q + rem/unit rounded to an integer, ties to even.
Nearest(q, rem, unit) ==
    IF 2 * rem > unit \/ (2 * rem = unit /\ q % 2 = 1) THEN q + 1 ELSE q

\* float32(a) / float32(d) for a, d > 0, as m * 2^(-e).
Quotient(a, d) ==
    LET div == LongDivision(a, d)
        e == CHOOSE k \in 0 .. 48 : div[k].q >= 2^(Precision - 1)
                                    /\ (k = 0 \/ div[k - 1].q < 2^(Precision - 1))
    IN  [m |-> Nearest(div[e].q, div[e].r, d), e |-> e]

\* x * float32(100), as m * 2^(-e).
TimesHundred(x) ==
    LET p == x.m * 100
        s == CHOOSE k \in 0 .. 8 : p \div 2^k < 2^Precision
                                   /\ (k = 0 \/ p \div 2^(k - 1) >= 2^Precision)
    IN  [m |-> Nearest(p \div 2^s, p % 2^s, 2^s), e |-> x.e - s]

\* int32(x); below 2^(-25) there is nothing left of a 24-bit significand.
Truncate(x) == IF x.e > Precision + 1 THEN 0 ELSE x.m \div 2^(x.e)

\* The values int32((float32(w)/float32(d))*100) can have.  Go leaves the
\* conversion of an infinity (w/0) or a NaN (0/0) to the implementation:
\* amd64 yields the smallest integer, arm64 saturates and turns NaN into 0.
Percent(w, d) ==
    IF d = 0 THEN {MinInt32, IF w = 0 THEN 0 ELSE MaxInt32}
    ELSE IF w = 0 THEN {0}
    ELSE {Truncate(TimesHundred(Quotient(w, d)))}
=============================================================================
