----------------------------- MODULE X25519Field ----------------------------
(***************************************************************************)
(* The hand-written scalar multiplication (crypto/x25519_field.rs): field  *)
(* elements are lists of signed limbs that are added and multiplied before *)
(* they are carried, and the Montgomery ladder works on them bit by bit.   *)
(* The sizes are constants: the code has 16 limbs of 16 bits and the prime *)
(* 2^255 - 19.                                                             *)
(***************************************************************************)
EXTENDS Integers, Sequences, SequencesExt

CONSTANTS
    L, W,               \* limbs and bits of a limb
    C,                  \* the prime is 2^(L * W - 1) - C; the code's 38 is 2C
    A24,                \* the code's 121665, in limbs
    SkipBits,           \* zero bits of the prime minus 2; the code's 2 and 4
    Scalars, Points     \* inputs tried

VARIABLES
    n,                  \* the clamped scalar
    p,                  \* the input coordinate
    i,                  \* the next bit, -1 after the last
    a, b, c, d,         \* as in the loop of scalarmult
    j, inv,             \* the loop of finv: the next bit, the power so far
    q,                  \* the packed result, -1 before
    base, sum           \* reference: the input point and its multiple so far

vars == <<n, p, i, a, b, c, d, j, inv, q, base, sum>>

Bits == L * W - 1
Prime == 2 ^ Bits - C
Limb == 1 .. L              \* limb k weighs 2^(W * (k - 1))
Upwards == [k \in Limb |-> k]
Fe(f(_)) == FoldLeft(LAMBDA x, k : Append(x, f(k)), <<>>, Upwards)
ZERO == Fe(LAMBDA k : 0)
ONE == [ZERO EXCEPT ![1] = 1]

----------------------------------------------------------------------------
\* Field arithmetic on limbs; >> is a division that rounds down.

carry(o) ==
    FoldLeft(LAMBDA f, k :
               LET t == f[k] + 2 ^ W
                   over == t \div 2 ^ W
                   g == [f EXCEPT ![k] = t - over * 2 ^ W]
               IN  IF k < L THEN [g EXCEPT ![k + 1] = @ + over - 1]
                   ELSE [g EXCEPT ![1] = @ + 2 * C * (over - 1)],
             o, Upwards)

fadd(x, y) == Fe(LAMBDA k : x[k] + y[k])

fsub(x, y) == Fe(LAMBDA k : x[k] - y[k])

\* The limbs of the product, those beyond the last wrapped around.
Product(x, y) ==
    LET t == [m \in 1 .. 2 * L |->
                FoldLeft(LAMBDA s, k : IF m + 1 - k \in Limb THEN s + x[k] * y[m + 1 - k] ELSE s,
                         0, Upwards)]
    IN  Fe(LAMBDA k : t[k] + 2 * C * t[k + L])

fmul(x, y) == carry(carry(Product(x, y)))

fsqr(x) == fmul(x, x)

Sign(limb) == (limb \div 2 ^ W) % 2

\* One conditional subtraction of the prime: m is the difference, its top
\* limb negative when t is smaller.
Subtracted(t) ==
    LET Take(k) == IF k = 1 THEN 2 ^ W - C ELSE IF k < L THEN 2 ^ W - 1 ELSE 2 ^ (W - 1) - 1
        m == FoldLeft(LAMBDA f, k :
                        LET borrow == IF k > 1 THEN Sign(f[k - 1]) ELSE 0
                            g == [f EXCEPT ![k] = t[k] - Take(k) - borrow]
                        IN  IF k > 1 THEN [g EXCEPT ![k - 1] = @ % 2 ^ W] ELSE g,
                      ZERO, Upwards)
    IN  IF Sign(m[L]) = 1 THEN t ELSE m

Value(x) == FoldLeft(LAMBDA s, k : s + x[k] * 2 ^ (W * (k - 1)), 0, Upwards)

pack(x) == Value(Subtracted(Subtracted(carry(carry(carry(x))))))

\* The top bit is ignored.
unpack(v) ==
    Fe(LAMBDA k : (v \div 2 ^ (W * (k - 1))) % 2 ^ (IF k = L THEN W - 1 ELSE W))

\* The low three bits cleared, the top one set.
clamp(scalar) == (((scalar \div 8) * 8) % 2 ^ (Bits - 1)) + 2 ^ (Bits - 1)

----------------------------------------------------------------------------
\* The reference: the group of y^2 = x^3 + A x^2 + x with affine addition.

CurveA == 4 * Value(A24) + 2
Mod(v) == v % Prime
Times(x, y) == Mod(Mod(x) * Mod(y))
Inv(x) == CHOOSE y \in 1 .. Prime - 1 : Times(x, y) = 1
Infinity == <<>>
PointAt(x) == LET r == Mod(Times(Times(x, x), x) + Times(CurveA, Times(x, x)) + x)
              IN  <<x, CHOOSE y \in 0 .. Prime - 1 : Times(y, y) = r>>
Plus(s, t) ==
    IF s = Infinity THEN t
    ELSE IF t = Infinity THEN s
    ELSE IF s[1] = t[1] /\ Mod(s[2] + t[2]) = 0 THEN Infinity
    ELSE LET slope == IF s = t
                      THEN Times(3 * Times(s[1], s[1]) + 2 * Times(CurveA, s[1]) + 1,
                                 Inv(2 * s[2]))
                      ELSE Times(t[2] - s[2], Inv(t[1] - s[1]))
             x == Mod(Times(slope, slope) - CurveA - s[1] - t[1])
         IN  <<x, Mod(Times(slope, s[1] - x) - s[2])>>

----------------------------------------------------------------------------
Init ==
    /\ n \in {clamp(s) : s \in Scalars}
    /\ p \in Points
    /\ i = Bits - 1
    /\ a = ONE /\ b = unpack(p) /\ c = ZERO /\ d = ONE
    /\ j = Bits - 1 /\ inv = ZERO
    /\ q = -1
    /\ base = PointAt(p)
    /\ sum = Infinity

\* From the pairs of two successive multiples, the double of the first and
\* their sum.
DoubleAndAdd(A, CC, B, D) ==
    LET Second(h) ==
            LET g == fsub(h.e, h.f)
            IN  <<fmul(h.e, h.f), fmul(g, fadd(fmul(g, A24), h.e)),
                  fsqr(fadd(h.s, h.t)), fmul(fsqr(fsub(h.s, h.t)), unpack(p))>>
        first == [e |-> fsqr(fadd(A, CC)), f |-> fsqr(fsub(A, CC)),
                  s |-> fmul(fadd(B, D), fsub(A, CC)), t |-> fmul(fsub(B, D), fadd(A, CC))]
    IN  CHOOSE r \in {Second(h) : h \in {first}} : TRUE

\* constant_time_swap of both halves.
Swapped(bit, r) == IF bit = 1 THEN <<r[3], r[4], r[1], r[2]>> ELSE r

\* Variant: the halves are not swapped back.
Ladder_unswapped(bit) ==
    LET r == Swapped(bit, <<a, c, b, d>>)
    IN  DoubleAndAdd(r[1], r[2], r[3], r[4])

Ladder(bit) ==
    LET r == Swapped(bit, <<a, c, b, d>>)
    IN  Swapped(bit, DoubleAndAdd(r[1], r[2], r[3], r[4]))

Round ==
    LET bit == (n \div 2 ^ i) % 2
        r == Ladder(bit)
    IN  /\ i >= 0
        /\ a' = r[1] /\ c' = r[2] /\ b' = r[3] /\ d' = r[4]
        /\ i' = i - 1
        /\ sum' = Plus(Plus(sum, sum), IF bit = 1 THEN base ELSE Infinity)
        /\ UNCHANGED <<n, p, j, inv, q, base>>

\* finv: c to the power Prime - 2, from the top bit down.
Invert ==
    /\ i = -1 /\ j > 0
    /\ j' = j - 1
    /\ LET power == IF j = Bits - 1 THEN c ELSE inv
       IN  inv' = IF j - 1 \in SkipBits THEN fsqr(power) ELSE fmul(fsqr(power), c)
    /\ UNCHANGED <<n, p, i, a, b, c, d, q, base, sum>>

Finish ==
    /\ i = -1 /\ j = 0
    /\ q = -1
    /\ q' = pack(fmul(a, inv))
    /\ UNCHANGED <<n, p, i, a, b, c, d, j, inv, base, sum>>

Next == Round \/ Invert \/ Finish

Spec == Init /\ [][Next]_vars

----------------------------------------------------------------------------
Represents(x, z, point) ==
    IF point = Infinity THEN Mod(Value(z)) = 0
    ELSE Mod(Value(z)) # 0 /\ Mod(Value(x)) = Times(point[1], Mod(Value(z)))

(***************************************************************************)
(* After every bit (a : c) is the multiple of the point by the bits read,  *)
(* and (b : d) the next multiple: the limbs compute what affine addition   *)
(* on the curve does (x25519_field.rs:174-222).  Two passes of carries     *)
(* leave limbs within a bit of their width, so that the sums of products   *)
(* of the next round fit a machine word (42-57, 118-131).  The result is   *)
(* "fully reduced mod p": the one canonical number for the coordinate, 0   *)
(* for the point at infinity (71-96).                                      *)
(***************************************************************************)
LadderIsMultiplication ==
    /\ Represents(a, c, sum) /\ Represents(b, d, Plus(sum, base))
    /\ \A k \in Limb, x \in {a, b, c, d} : x[k] > -(2 ^ (W + 1)) /\ x[k] < 2 ^ (W + 1)
    /\ q # -1 => q = IF sum = Infinity THEN 0 ELSE sum[1]

=============================================================================
