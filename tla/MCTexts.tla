------------------------------ MODULE MCTexts ------------------------------
EXTENDS Texts

MCAlphabet ==
  [number  |-> 0 .. 9,
   string  |-> {0, 8, 31, Quote, 47, Backslash, 65, LetterU, 195},
   unicode |-> {0, 127, 128, 2047, 2048, 55296, 56319, 56320, 57343, 57344, 65535},
   digits  |-> {"-", "9", ".", "e", "+", ","},
   comment |-> {"/", "*", "9", ",", "\n", "\r"},
   word    |-> {"n", "u", "l", " ", "-"},
   body    |-> {Percent, Plus, Space, Amp, Equals, 50, 65, 13, 255},
   key     |-> {1, 2}]

MCLongest ==
  [number |-> 4, string |-> 5, unicode |-> 3, digits |-> 6, comment |-> 6, word |-> 6, body |-> 4, key |-> 3]

(* Doubles with five bits before their exponent, which ends at 496 halves:
   the even one next to a number, but for some fractions near an integer. *)
MCSpacing(h) == CASE h < 32 -> 1 [] h < 64 -> 2 [] h < 128 -> 4 [] h < 256 -> 8 [] OTHER -> 16

MCNearest(h) ==
  LET step == MCSpacing(h)
      low  == h \div step
      over == 2 * (h % step)
  IN  IF h \in {13, 15} THEN 14
      ELSE IF h = 17 THEN 16
      ELSE IF over < step \/ (over = step /\ low % 2 = 0) THEN low * step
      ELSE (low + 1) * step

MCRounded ==
  [h \in -503 .. 503 |-> IF h < 0 THEN -MCNearest(-h) ELSE MCNearest(h)]
=============================================================================
