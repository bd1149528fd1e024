-------------------------------- MODULE IntMath --------------------------------
(***************************************************************************)
(* The number calls on i64: division with a rounding, roots, logarithms,   *)
(* primes, counting functions and bits, in words of Bits bits.  They are   *)
(* translated from the LLVM emitter, whose sums and products wrap around;  *)
(* in C the same overflows are undefined.                                  *)
(***************************************************************************)
EXTENDS Integers, Sequences, SequencesExt, FiniteSetsExt, Bitwise

CONSTANTS
    None,
    Bits,          \* the width, 64 in the code
    MaxFactorial, MaxFibonacci, \* largest arguments with an answer, 20 and 92 in the code
    Arguments,     \* bound: what the calls are given besides the number
    Allowed        \* the combinations of this run the code does not handle

VARIABLES num, out

Hazards == {"least", "most", "wide range", "past last square", "past last power", "large modulus"}

Span == 2 ^ Bits
Most == Span \div 2 - 1
Least == -Most - 1
I64 == Least .. Most

Wrapped(n) == ((n - Least) % Span) + Least
Unsigned(n) == n % Span
Magnitude(n) == IF n < 0 THEN Wrapped(-n) ELSE n
Abs(n) == IF n < 0 THEN -n ELSE n

\* sdiv and srem round to zero.
Quo(a, b) == LET q == Abs(a) \div Abs(b) IN Wrapped(IF a < 0 <=> b < 0 THEN q ELSE -q)
Rem(a, b) == a - b * (IF a < 0 <=> b < 0 THEN Abs(a) \div Abs(b) ELSE -(Abs(a) \div Abs(b)))
Capped(n) == IF n > Most THEN Most ELSE IF n < Least THEN Least ELSE n
\* A remainder made positive.
Normal(a, m) == Rem(Wrapped(Rem(a, m) + m), m)

-----------------------------------------------------------------------------
\* Division, the roundings, and averages.
i64_div_floor(a, b) == IF Rem(a, b) # 0 /\ (a < 0 <=> b >= 0) THEN Quo(a, b) - 1 ELSE Quo(a, b)
i64_mod_floor(a, b) == IF Rem(a, b) # 0 /\ (a < 0 <=> b >= 0) THEN Rem(a, b) + b ELSE Rem(a, b)
i64_div_ceil(a, b) == IF Rem(a, b) # 0 /\ (a < 0 <=> b < 0) THEN Quo(a, b) + 1 ELSE Quo(a, b)
i64_div_round(a, b) ==
    LET q == Quo(Wrapped(Magnitude(a) + Quo(Magnitude(b), 2)), Magnitude(b))
    IN  IF a < 0 <=> b < 0 THEN q ELSE Wrapped(-q)
i64_safe_div(a, b, default) == IF b = 0 THEN default ELSE Quo(a, b)
AsSigned(u) == IF u > Most THEN u - Span ELSE u
i64_avg(a, b) ==
    LET both == AsSigned(Unsigned(a) & Unsigned(b))
        either == AsSigned(Unsigned(a) ^^ Unsigned(b))
    IN  Wrapped(both + either \div 2)
i64_abs_diff(a, b) == IF a < b THEN Wrapped(b - a) ELSE Wrapped(a - b)
i64_signum(x) == (IF x > 0 THEN 1 ELSE 0) - (IF x < 0 THEN 1 ELSE 0)
i64_saturating_add(a, b) == Capped(a + b)
i64_saturating_sub(a, b) == Capped(a - b)
i64_saturating_mul(a, b) == Capped(a * b)
i64_min(a, b) == IF a < b THEN a ELSE b
i64_max(a, b) == IF a > b THEN a ELSE b
i64_min_3(a, b, c) == i64_min(i64_min(a, b), c)
i64_max_3(a, b, c) == i64_max(i64_max(a, b), c)
i64_clamp(x, lo, hi) == LET raised == IF x < lo THEN lo ELSE x IN IF raised > hi THEN hi ELSE raised
i64_wrap(x, lo, hi) ==
    LET range == Wrapped(hi - lo)
        rest == Rem(Wrapped(x - lo), range)
    IN  IF range <= 0 THEN x ELSE Wrapped(lo + IF rest < 0 THEN rest + range ELSE rest)

RECURSIVE Euclid(_, _)
Euclid(a, b) == IF b = 0 THEN a ELSE Euclid(b, Rem(a, b))
i64_gcd(a, b) == Euclid(Magnitude(a), Magnitude(b))
i64_lcm(a, b) ==
    IF a = 0 \/ b = 0 THEN 0
    ELSE Wrapped(Quo(Magnitude(a), i64_gcd(Magnitude(a), Magnitude(b))) * Magnitude(b))

-----------------------------------------------------------------------------
\* Powers, roots and logarithms.
RECURSIVE Power(_, _, _)
Power(b, e, r) ==
    IF e <= 0 THEN r ELSE Power(Wrapped(b * b), e \div 2, IF e % 2 = 1 THEN Wrapped(r * b) ELSE r)
i64_pow(b, e) == IF e < 0 THEN 0 ELSE Power(b, e, 1)

RECURSIVE PowerMod(_, _, _, _)
PowerMod(b, e, m, r) ==
    IF e <= 0 THEN r
    ELSE PowerMod(Rem(Wrapped(b * b), m), e \div 2, m, IF e % 2 = 1 THEN Rem(Wrapped(r * b), m) ELSE r)
i64_pow_mod(b, e, m) == IF m <= 1 \/ e < 0 THEN 0 ELSE PowerMod(Normal(b, m), e, m, 1)

\* The greatest common divisor g of m and n, as g = m * .. + n * x, modulo m.
RECURSIVE Bezout(_, _, _, _)
Bezout(g, og, x, ox) ==
    IF og = 0 THEN [g |-> g, x |-> x]
    ELSE LET q == Quo(g, og) IN Bezout(og, Wrapped(g - q * og), ox, Wrapped(x - q * ox))
i64_mod_inverse(a, m) ==
    IF m <= 1 THEN 0
    ELSE LET b == Bezout(m, Normal(a, m), 0, 1) IN IF b.g = 1 THEN Normal(b.x, m) ELSE 0

\* Newton's steps, as long as they go down.
RECURSIVE Newton(_, _, _)
Newton(n, x, y) == IF y >= x THEN x ELSE Newton(n, y, Quo(Wrapped(y + Quo(n, y)), 2))
i64_isqrt(n) == IF n < 0 THEN 0 ELSE IF n < 2 THEN n ELSE Newton(n, n, Quo(Wrapped(n + 1), 2))
i64_is_perfect_square(n) == n >= 0 /\ Wrapped(i64_isqrt(n) * i64_isqrt(n)) = n
i64_isqrt_ceil(n) ==
    IF n <= 0 THEN 0 ELSE IF i64_is_perfect_square(n) THEN i64_isqrt(n) ELSE i64_isqrt(n) + 1

RECURSIVE Digits(_)
Digits(u) == IF u = 0 THEN 0 ELSE 1 + Digits(u \div 10)
i64_count_digits(n) == IF n = 0 THEN 1 ELSE Digits(Unsigned(Magnitude(n)))
RECURSIVE i64_log10_floor(_)
i64_log10_floor(n) == IF n < 10 THEN 0 ELSE 1 + i64_log10_floor(n \div 10)
\* None: the walk never ends.
RECURSIVE TenTimes(_, _, _)
TenTimes(m, n, c) == IF m >= n THEN c ELSE IF m = 0 THEN None ELSE TenTimes(Wrapped(10 * m), n, c + 1)
i64_log10_ceil(n) == IF n <= 1 THEN 0 ELSE TenTimes(1, n, 0)

-----------------------------------------------------------------------------
\* Bits, the lowest one numbered 0.  A shift by a count outside the word is
\* undefined.
Bit(n, i) == (Unsigned(n) \div 2 ^ i) % 2
OfBits(f) == AsSigned(FoldLeft(LAMBDA acc, i : 2 * acc + f[Bits - i], 0, [i \in 1 .. Bits |-> i]))
i64_count_set_bits(n) == Cardinality({i \in 0 .. Bits - 1 : Bit(n, i) = 1})
i64_leading_zeros(n) == Cardinality({i \in 0 .. Bits - 1 : \A j \in i .. Bits - 1 : Bit(n, j) = 0})
i64_trailing_zeros(n) == Cardinality({i \in 0 .. Bits - 1 : \A j \in 0 .. i : Bit(n, j) = 0})
i64_reverse_bits(n) == OfBits([i \in 0 .. Bits - 1 |-> Bit(n, Bits - 1 - i)])
i64_rotate_left(n, by) == OfBits([i \in 0 .. Bits - 1 |-> Bit(n, (i - by) % Bits)])
i64_rotate_right(n, by) == OfBits([i \in 0 .. Bits - 1 |-> Bit(n, (i + by) % Bits)])
i64_set_bit(n, i) == AsSigned(Unsigned(n) | (2 ^ i))
i64_clear_bit(n, i) == AsSigned(Unsigned(n) & (Span - 1 - 2 ^ i))
i64_toggle_bit(n, i) == AsSigned(Unsigned(n) ^^ (2 ^ i))
i64_test_bit(n, i) == Bit(n, i) # 0
i64_is_power_of_2(n) == n > 0 /\ Unsigned(n) & Unsigned(n - 1) = 0
i64_next_power_of_2(n) == IF n <= 1 THEN 1 ELSE AsSigned(2 ^ (Bits - i64_leading_zeros(n - 1)))
i64_log2_floor(n) == IF n <= 0 THEN -1 ELSE Bits - 1 - i64_leading_zeros(n)
i64_log2_ceil(n) ==
    IF n <= 0 THEN -1 ELSE IF n = 1 THEN 0 ELSE Bits - i64_leading_zeros(n - 1)

-----------------------------------------------------------------------------
\* Primes and divisors: loops up to the square root, which they find by
\* squaring.  Above the last square of the width the square wraps around.
Past(i, n) == Wrapped(i * i) > n

RECURSIVE Trial(_, _)
Trial(n, i) ==
    Past(i, n) \/ (Rem(n, i) # 0 /\ Rem(n, Wrapped(i + 2)) # 0 /\ Trial(n, Wrapped(i + 6)))
i64_is_prime(n) == n >= 2 /\ (n < 4 \/ (Rem(n, 2) # 0 /\ Rem(n, 3) # 0 /\ Trial(n, 5)))

RECURSIVE PrimeFrom(_, _)
PrimeFrom(c, step) == IF i64_is_prime(c) THEN c ELSE PrimeFrom(Wrapped(c + step), step)
i64_next_prime(n) ==
    CASE n <= 2 -> 2 [] n = 3 -> 3
      [] OTHER -> PrimeFrom(IF n % 2 = 0 THEN Wrapped(n + 1) ELSE n, 2)
i64_prev_prime(n) ==
    CASE n < 2 -> 0 [] n = 2 -> 2 [] n \in {3, 4} -> 3
      [] OTHER -> PrimeFrom(IF n % 2 = 0 THEN n - 1 ELSE n, -2)

\* Each divisor up to the root counts with its partner.  None: division by 0,
\* once i has gone through all words.
RECURSIVE OverDivisors(_, _, _, _)
OverDivisors(n, i, r, what) ==
    LET partner == Quo(n, i)
        worth == IF what = "count" THEN (IF Wrapped(i * i) = n THEN 1 ELSE 2)
                                   ELSE (IF Wrapped(i * i) = n THEN i ELSE i + partner)
    IN  CASE Past(i, n) -> r
          [] i = 0 -> None
          [] OTHER -> OverDivisors(n, Wrapped(i + 1), IF Rem(n, i) = 0 THEN Wrapped(r + worth) ELSE r, what)
i64_divisor_count(n) == IF n <= 0 THEN 0 ELSE OverDivisors(n, 1, 0, "count")
i64_divisor_sum(n) == IF n <= 0 THEN 0 ELSE OverDivisors(n, 1, 0, "sum")

\* Each prime factor is taken out of m; what is left at last is prime or 1.
RECURSIVE Stripped(_, _)
Stripped(m, i) == IF Rem(m, i) = 0 THEN Stripped(Quo(m, i), i) ELSE m
Factored(r, p, what) == IF what = "totient" THEN r - Quo(r, p) ELSE Wrapped(r * p)
RECURSIVE OverPrimes(_, _, _, _)
OverPrimes(m, i, r, what) ==
    CASE Past(i, m) -> IF m > 1 THEN Factored(r, m, what) ELSE r
      [] i = 0 -> None
      [] OTHER -> LET divides == Rem(m, i) = 0
                  IN  OverPrimes(IF divides THEN Stripped(m, i) ELSE m, Wrapped(i + 1),
                                 IF divides THEN Factored(r, i, what) ELSE r, what)
i64_totient(n) == IF n <= 0 THEN 0 ELSE OverPrimes(n, 2, n, "totient")
i64_radical(n) == IF n <= 0 THEN 0 ELSE OverPrimes(n, 2, 1, "radical")

-----------------------------------------------------------------------------
\* Counting functions stop at Most.
Product(f, n) == FoldLeft(LAMBDA r, i : r * f[i], 1, [i \in 1 .. n |-> i])
i64_factorial(n) ==
    IF n < 0 THEN 0 ELSE IF n > MaxFactorial THEN Most ELSE Product([i \in 1 .. n |-> i], n)
i64_fibonacci(n) ==
    LET F[i \in 0 .. MaxFibonacci] == IF i < 2 THEN i ELSE F[i - 1] + F[i - 2]
    IN  IF n < 0 THEN 0 ELSE IF n > MaxFibonacci THEN Most ELSE F[n]

Times(r, by) == IF r = None \/ r * by > Most THEN None ELSE r * by
OrMost(r) == IF r = None THEN Most ELSE r
i64_perm(n, k) ==
    IF k < 0 \/ n < 0 \/ k > n THEN 0
    ELSE OrMost(FoldLeft(LAMBDA r, i : Times(r, n + 1 - i), 1, [i \in 1 .. k |-> i]))
i64_binomial(n, k) ==
    LET few == i64_min(k, n - k)
    IN  CASE k < 0 \/ n < 0 \/ k > n -> 0
          [] k = 0 \/ k = n -> 1
          [] OTHER -> OrMost(FoldLeft(LAMBDA r, i : LET p == Times(r, n + 1 - i)
                                                    IN  IF p = None THEN None ELSE p \div i,
                                      1, [i \in 1 .. few |-> i]))

-----------------------------------------------------------------------------
\* A program reads one number after the other.
Init ==
    /\ num = [x |-> 0]
    /\ out = [op |-> "new", arg |-> None, result |-> None]
Next ==
    /\ UNCHANGED out
    /\ \E x \in I64 : num' = [x |-> x]

TypeOK == num.x \in I64

-----------------------------------------------------------------------------
\* What the names promise, in the integers.  No call looks for a divisor of 0,
\* and those with a divisor none for Least divided by -1.
Handled(common, what) == common \/ what \in Allowed
Floor(a, b) == IF b > 0 THEN a \div b ELSE (-a) \div (-b)
Divisors(n) == {d \in 1 .. n : n % d = 0}
Prime(n) == n > 1 /\ Divisors(n) = {1, n}
Greatest(S) == CHOOSE x \in S : \A y \in S : y <= x
Gcd(a, b) == IF a = 0 THEN Abs(b) ELSE Greatest({d \in Divisors(Abs(a)) : b % d = 0})
LastSquare == i64_isqrt(Most - 1) ^ 2

DivisionsRound(a, b) ==
    b # 0 /\ ~(a = Least /\ b = -1) =>
        /\ i64_div_floor(a, b) = Floor(a, b) /\ i64_mod_floor(a, b) = a - b * Floor(a, b)
        /\ i64_div_ceil(a, b) = -Floor(-a, b)
        /\ Handled(Least \notin {a, b} /\ Abs(a) + Abs(b) \div 2 <= Most, "most") =>
              i64_div_round(a, b) = (IF a < 0 <=> b < 0 THEN 1 ELSE -1)
                                        * ((2 * Abs(a) + Abs(b)) \div (2 * Abs(b)))

BetweenTwo(a, b) ==
    /\ i64_avg(a, b) = (a + b) \div 2
    /\ Handled(Abs(a - b) <= Most, "wide range") => i64_abs_diff(a, b) = Abs(a - b)
    /\ b # Least => i64_saturating_sub(a, b) = i64_saturating_add(a, -b)
    /\ a # Least => i64_signum(a) * i64_saturating_mul(a, i64_signum(a)) = a
    /\ \A c \in Arguments :
          /\ i64_min_3(a, b, c) = -1 - i64_max_3(-1 - a, -1 - b, -1 - c)
          /\ i64_min_3(a, b, c) \in {a, b, c} \ {x \in I64 : a < x \/ b < x \/ c < x}
          /\ b <= c => i64_clamp(a, b, c) = i64_min(i64_max(a, b), c)
          /\ b < c /\ Handled(c - b <= Most /\ a - b \in I64, "wide range") =>
                LET w == i64_wrap(a, b, c) IN w \in b .. c - 1 /\ (a - w) % (c - b) = 0

DivisorsAreCommon(a, b) ==
    Handled(Least \notin {a, b}, "least") =>
        /\ i64_gcd(a, b) = Gcd(a, b)
        /\ a # 0 /\ b # 0 /\ Abs(a * b) <= Most * Gcd(a, b) =>
              i64_lcm(a, b) * Gcd(a, b) = Abs(a * b)

PowersMultiply(a, e) ==
    /\ i64_pow(a, 0) = 1 /\ (e > 0 => i64_pow(a, e) = Wrapped(a * i64_pow(a, e - 1)))
    /\ \A m \in Arguments : m > 1 =>
          /\ Handled((m - 1) ^ 2 <= Most, "large modulus") =>
                /\ i64_pow_mod(a, 0, m) = 1
                /\ e > 0 => i64_pow_mod(a, e, m) = (a * i64_pow_mod(a, e - 1, m)) % m
          /\ Handled(2 * m <= Most, "large modulus") =>
                LET r == i64_mod_inverse(a, m)
                IN  r \in 0 .. m - 1 /\ IF Gcd(m, a) = 1 THEN (a * r) % m = 1 ELSE r = 0

RootsAndLogarithms(n) ==
    /\ n >= 0 /\ Handled(n # Most, "most") =>
          LET r == i64_isqrt(n)
          IN  /\ r * r <= n /\ n < (r + 1) ^ 2
              /\ i64_is_perfect_square(n) <=> \E s \in 0 .. n : s * s = n
              /\ i64_isqrt_ceil(n) = Cardinality({s \in 0 .. n : s * s < n})
    /\ LET d == i64_count_digits(n) IN d > 0 /\ Abs(n) < 10 ^ d /\ (d > 1 => Abs(n) >= 10 ^ (d - 1))
    /\ n > 0 => /\ 10 ^ i64_log10_floor(n) <= n /\ n < 10 ^ (i64_log10_floor(n) + 1)
                /\ 2 ^ i64_log2_floor(n) <= n /\ n < 2 ^ (i64_log2_floor(n) + 1)
                /\ 2 ^ i64_log2_ceil(n) = Greatest({2 ^ i : i \in {i \in 0 .. Bits : i = 0 \/ 2 ^ (i - 1) < n}})
                /\ i64_is_power_of_2(n) <=> i64_log2_floor(n) = i64_log2_ceil(n)
                /\ Handled(n <= Span \div 4, "past last power") =>
                      i64_next_power_of_2(n) = 2 ^ i64_log2_ceil(n)
                /\ Handled(\E c \in 0 .. Bits : n <= 10 ^ c /\ 10 ^ c <= Most, "past last power") =>
                      i64_log10_ceil(n) = Cardinality({c \in 0 .. Bits : 10 ^ c < n})

PrimesAndDivisors(n) ==
    n > 0 /\ Handled(n < LastSquare, "past last square") =>
        LET D == Divisors(n)
            P == {p \in D : Prime(p)}
        IN  /\ i64_is_prime(n) <=> Prime(n)
            /\ n > 1 => i64_prev_prime(n) = Greatest({p \in 2 .. n : Prime(p)})
            /\ (\E p \in n .. LastSquare : Prime(p)) =>
                  i64_next_prime(n) \in {p \in n .. LastSquare : Prime(p)}
                  /\ \A p \in n .. i64_next_prime(n) - 1 : ~Prime(p)
            /\ i64_divisor_count(n) = Cardinality(D)
            /\ i64_divisor_sum(n) = Wrapped(SumSet(D))
            /\ i64_totient(n) = Cardinality({m \in 1 .. n : Gcd(n, m) = 1})
            /\ i64_radical(n) = ProductSet(P)

CountsSaturate(n, k) ==
    /\ i64_factorial(0) = 1 /\ (n > 0 => i64_factorial(n) = Capped(n * i64_factorial(n - 1)))
    /\ n > 1 => i64_fibonacci(n) = Capped(i64_fibonacci(n - 1) + i64_fibonacci(n - 2))
    /\ 0 < k /\ k <= n => i64_perm(n, k) = Capped((n + 1 - k) * i64_perm(n, k - 1))
    /\ 0 < k /\ k < n =>
          LET both == i64_binomial(n - 1, k - 1) + i64_binomial(n - 1, k)
          IN  i64_binomial(n, k) = both \/ (i64_binomial(n, k) = Most /\ both * i64_min(k, n - k) > Most)

BitsMove(n) ==
    /\ i64_count_set_bits(n) + i64_count_set_bits(-1 - n) = Bits
    /\ LET z == i64_trailing_zeros(n)
       IN  Unsigned(n) % 2 ^ z = 0 /\ (n # 0 => (Unsigned(n) \div 2 ^ z) % 2 = 1)
    /\ i64_reverse_bits(i64_reverse_bits(n)) = n
    /\ i64_leading_zeros(i64_reverse_bits(n)) = i64_trailing_zeros(n)
    /\ \A i \in 0 .. Bits - 1 :
          /\ Unsigned(i64_rotate_left(n, i)) % (Span - 1) = (Unsigned(n) * 2 ^ i) % (Span - 1)
          /\ i64_rotate_right(i64_rotate_left(n, i), i) = n
          /\ i64_set_bit(n, i) = IF i64_test_bit(n, i) THEN n ELSE i64_toggle_bit(n, i)
          /\ i64_clear_bit(n, i) = IF i64_test_bit(n, i) THEN i64_toggle_bit(n, i) ELSE n
          /\ Unsigned(i64_set_bit(n, i)) - Unsigned(i64_clear_bit(n, i)) = 2 ^ i

\* Each call answers what its name says, as far as the answer and what the
\* call computes on the way fit the word.
LookupsAgree ==
    LET x == num.x
    IN  /\ RootsAndLogarithms(x) /\ PrimesAndDivisors(x) /\ BitsMove(x)
        /\ \A y \in Arguments :
              /\ DivisionsRound(x, y) /\ BetweenTwo(x, y) /\ DivisorsAreCommon(x, y)
              /\ PowersMultiply(x, y) /\ CountsSaturate(x, y)
=============================================================================
