------------------------------ MODULE Backoff ------------------------------
(***************************************************************************)
(* The backoff formula in the arithmetic the program runs it in: a         *)
(* time.Duration is an int64 count of nanoseconds and products wrap modulo *)
(* 2^64.  A value is four 16-bit limbs, the least significant first, since *)
(* TLC's own integers are narrower than 64 bits.                           *)
(***************************************************************************)
EXTENDS Integers, Sequences

Limb == 65536
Zero == <<0, 0, 0, 0>>
Second == <<51712, 15258, 0, 0>>        \* 1 000 000 000 = 0x3B9ACA00
MaxDelay == <<22528, 63559, 13, 0>>     \* 60 000 000 000 = 0xDF8475800

\* 1 << r for an r below the width of a limb.
PowerOfTwo(r) ==
  <<1, 2, 4, 8, 16, 32, 64, 128, 256, 512, 1024, 2048, 4096, 8192, 16384, 32768>>[r + 1]

\* (1 << n) * time.Second modulo 2^64: each limb moves up n \div 16 places and
\* n % 16 bits, and its high bits go to the limb above.
ShiftedSecond(n) ==
  LET limb(i) == IF i \in 1 .. 4 THEN Second[i] ELSE 0
      up == n \div 16
      by == PowerOfTwo(n % 16)
  IN  [i \in 1 .. 4 |-> ((limb(i - up) * by) % Limb) + ((limb(i - up - 1) * by) \div Limb)]

\* The sign bit of an int64.
Negative(x) == 2 * x[4] >= Limb

\* x > y for non-negative int64 values.
Greater(x, y) ==
  \E i \in 1 .. 4 : x[i] > y[i] /\ \A j \in i + 1 .. 4 : x[j] = y[j]

\* Mutant: the check for a negative product is missing.
ClampPositive(d) == IF ~Negative(d) /\ Greater(d, MaxDelay) THEN MaxDelay ELSE d

\* The clamp both copies of the formula end with.
Clamp(d) == IF Negative(d) \/ Greater(d, MaxDelay) THEN MaxDelay ELSE d

-----------------------------------------------------------------------------
\* ratelimit.computeDelay: the sleep Acquire imposes.
computeDelay(n) ==
  IF n <= 0 THEN Zero
  ELSE IF n - 1 > 62 THEN MaxDelay
  ELSE Clamp(ShiftedSecond(n - 1))

\* server.nextDelay: the copy of the formula that auth-fail reports.
nextDelay(n) ==
  IF n <= 0 THEN Zero
  ELSE IF n - 1 > 62 THEN MaxDelay
  ELSE Clamp(ShiftedSecond(n - 1))

=============================================================================
