------------------------------ MODULE AesBytes ------------------------------
(***************************************************************************)
(* The arithmetic of AES: bytes as polynomials over the field of two.      *)
(***************************************************************************)
EXTENDS ExclusiveOr

Byte == 0..255

Bit(x, n) == (x \div 2^n) % 2

Twice(p) == IF p < 128 THEN 2 * p ELSE (2 * p - 256) ^^ 27

\* The product of two polynomials modulo x^8 + x^4 + x^3 + x + 1: one bit of b after
\* the other, the highest first.
Product(a, b) ==
  LET Step(p, n) == IF Bit(b, n) = 0 THEN Twice(p) ELSE Twice(p) ^^ a
      high == Step(Step(Step(Step(0, 7), 6), 5), 4)
  IN  Step(Step(Step(Step(high, 3), 2), 1), 0)

\* x^254, since x^255 is 1 for all but 0: six steps from x^n to x^(2n + 1), and a square.
ByteInverse(x) ==
  LET Step(p) == Product(Product(p, p), x)
      p == Step(Step(Step(Step(Step(Step(x))))))
  IN  Product(p, p)

\* Bit n of the result is the sum of five bits of x and one of 99.
Affine(x) ==
  LET bit(n) == (Bit(x, n) + Bit(x, (n + 4) % 8) + Bit(x, (n + 5) % 8)
                 + Bit(x, (n + 6) % 8) + Bit(x, (n + 7) % 8) + Bit(99, n)) % 2
  IN  bit(0) + 2 * bit(1) + 4 * bit(2) + 8 * bit(3)
      + 16 * bit(4) + 32 * bit(5) + 64 * bit(6) + 128 * bit(7)

Sbox == [x \in Byte |-> Affine(ByteInverse(x))]
InvSbox == LET s == Sbox
               graph == {<<x, s[x]>> : x \in Byte}
           IN  [y \in Byte |-> CHOOSE x \in Byte : <<x, y>> \in graph]
============================================================================
