------------------------------ MODULE Numbers ------------------------------
\* The pure functions: Math.h, Prime.cc, remap_index() of AtomicQueue.h and class
\* blocks of samples/contrib/BS_thread_pool.hpp.  32-bit products of the primality
\* test stay far below 2^31 for the inputs TLC tries.
EXTENDS Integers

CONSTANT NuMax  \* bound: the inputs

VARIABLE nuInput
nuVars == nuInput
NuInit == nuInput = 0
NuNext == nuInput < NuMax /\ nuInput' = nuInput + 1

MSB[n \in Nat] == IF n > 1 THEN 1 + MSB[n \div 2] ELSE 0

\* As IsPrime, when the loop ends before the divisors reach the square root.
IsPrimeStopsEarly(n) ==
    /\ ~ ((n % 2 = 0 /\ n # 2) \/ n < 2 \/ (n % 3 = 0 /\ n # 3))
    /\ \A k \in 1 .. n : 36 * k * k + 12 * k < n =>
         n % (6 * k + 1) # 0 /\ n % (6 * k - 1) # 0

\* IsPrime() for n < 1373653: trial division by 6k - 1 and 6k + 1
IsPrime(n) ==
    /\ ~ ((n % 2 = 0 /\ n # 2) \/ n < 2 \/ (n % 3 = 0 /\ n # 3))
    /\ \A k \in 1 .. n : 36 * k * k - 12 * k < n =>
         n % (6 * k + 1) # 0 /\ n % (6 * k - 1) # 0

\* IsPrime_power(): square and multiply, from the lowest bit of n
PowerLoop[n \in Nat, power \in Nat, result \in Nat, mod \in Nat] ==
    IF n = 0 THEN result
    ELSE PowerLoop[n \div 2, (power * power) % mod,
                   IF n % 2 = 1 THEN (result * power) % mod ELSE result, mod]
Power(a, n, mod) == PowerLoop[n, a, 1, mod]

\* IsPrime_witness(): n - 1 = u * 2^t with u odd; n is composite if a^u squared t
\* times meets a root of one other than 1 and n - 1, or does not end in one
Odd[n \in Nat] == IF n % 2 = 1 THEN n ELSE Odd[n \div 2]
Witness(a, n) ==
    LET u == Odd[n \div 2]
        t == MSB[(n - 1) \div u]
        x[i \in 0 .. t] == IF i = 0 THEN Power(a, u, n) ELSE (x[i - 1] * x[i - 1]) % n
    IN  \/ \E i \in 1 .. t : x[i] = 1 /\ x[i - 1] # 1 /\ x[i - 1] # n - 1
        \/ x[t] # 1

\* NextPrime(): odd candidates from n on
NextPrime(n) ==
    IF n \leq 2 THEN 2
    ELSE LET first == IF n % 2 = 0 THEN n + 1 ELSE n
             next[c \in Nat] == IF IsPrime(c) THEN c ELSE next[c + 2]
         IN  next[first]

BitXor[a \in Nat, b \in Nat] ==
    IF a = 0 /\ b = 0 THEN 0 ELSE ((a + b) % 2) + 2 * BitXor[a \div 2, b \div 2]

\* remap_index(): swaps the lowest bits of the index with the next ones
Remap(bits, index) ==
    LET mix == BitXor[index, index \div 2^bits] % 2^bits
    IN  BitXor[BitXor[index, mix], mix * 2^bits]

\* class blocks of the thread pool, for the indices 0 .. total - 1
Blocks(total, num) ==
    LET n == IF num > total THEN total ELSE num
        size == total \div n
        rem  == total % n
        start(b) == b * size + (IF b < rem THEN b ELSE rem)
    IN  IF total = 0 THEN {}
        ELSE {<<start(b), IF b = n - 1 THEN total ELSE start(b + 1)>> : b \in 0 .. n - 1}

----------------------------------------------------------------------------
Divides(d, n) == n % d = 0
Prime(n) == n > 1 /\ \A d \in 2 .. n - 1 : ~Divides(d, n)

\* The primality tests agree with the definition (the one with witnesses where it
\* has them, above the largest), and NextPrime() returns the least prime
\* not below n.
PrimesRight ==
    LET n == nuInput
        p == NextPrime(n)
    IN  /\ IsPrime(n) <=> Prime(n)
        /\ n > 61 /\ n % 2 = 1 => (Prime(n) <=> \A a \in {2, 7, 61} : ~Witness(a, n))
        /\ Prime(p) /\ p >= n /\ \A m \in n .. p - 1 : ~Prime(m)

\* remap_index() is its own inverse and keeps the index in the ring, so no two
\* positions of a queue of 2^(2 bits) or more elements share a cell.
RemapIsBijective ==
    \A bits \in 0 .. 3 : \A m \in 2 * bits .. 7 : nuInput < 2^m =>
      Remap(bits, nuInput) < 2^m /\ Remap(bits, Remap(bits, nuInput)) = nuInput

\* The blocks of a loop cover every index exactly once, none is empty, and their
\* sizes differ by one at most.
BlocksPartition ==
    \A num \in 1 .. 9 :
      LET bs == Blocks(nuInput, num)
      IN  /\ \A b \in bs : b[1] < b[2]
          /\ \A i \in 0 .. nuInput - 1 :
               \E b \in bs : b[1] \leq i /\ i < b[2] /\ \A c \in bs \ {b} :
                               ~ (c[1] \leq i /\ i < c[2])
          /\ \A b, c \in bs : b[2] - b[1] \leq c[2] - c[1] + 1

\* The pure functions agree with their definitions.
FunctionsRight == PrimesRight /\ RemapIsBijective /\ BlocksPartition
=============================================================================
