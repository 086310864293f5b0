-------------------------- MODULE QuizDatesProofs --------------------------
(***************************************************************************)
(* Proofs about QuizDates: qid() tells all students and all local times    *)
(* apart although its month has one digit or two, and its texts pass every *)
(* reader.                                                                 *)
(***************************************************************************)
EXTENDS QuizDates, TLAPS

Letters == {"A", "B", "C", "D", "E", "F", "G", "J", "L", "M", "N", "O", "P", "R", "S", "T",
            "U", "V", "Y"}

Char == {D(n) : n \in 0..9} \cup {"_", ":"} \cup Letters

\* The texts, and the texts of k characters.
Any == Seq(Char)

Text(k) == {t \in Any : Len(t) = k}

-----------------------------------------------------------------------------
(* What joining texts does.                                                *)

LEMMA Joined ==
  ASSUME NEW a \in Any, NEW b \in Any
  PROVE  /\ a \o b \in Any /\ Len(a \o b) = Len(a) + Len(b)
         /\ \A i \in 1..Len(a) : (a \o b)[i] = a[i]
         /\ \A i \in 1..Len(b) : (a \o b)[Len(a) + i] = b[i]
BY DEF Any

LEMMA SameText ==
  ASSUME NEW a \in Any, NEW b \in Any, Len(a) = Len(b), \A i \in 1..Len(a) : a[i] = b[i]
  PROVE  a = b
BY DEF Any

\* Texts whose first parts are equally long, or whose last parts are, can be
\* taken apart.
LEMMA Lengths ==
  ASSUME NEW a \in Any, NEW b \in Any, NEW c \in Any, NEW d \in Any, a \o b = c \o d
  PROVE  /\ Len(a) \in Nat /\ Len(b) \in Nat /\ Len(c) \in Nat /\ Len(d) \in Nat
         /\ Len(a) + Len(b) = Len(c) + Len(d)
<1>1. /\ Len(a) \in Nat /\ Len(b) \in Nat /\ Len(c) \in Nat /\ Len(d) \in Nat
  BY DEF Any
<1> QED  BY <1>1, Joined

LEMMA SameHeads ==
  ASSUME NEW a \in Any, NEW b \in Any, NEW c \in Any, NEW d \in Any,
         a \o b = c \o d, Len(a) = Len(c)
  PROVE  a = c /\ b = d
<1>1. Len(b) = Len(d)
  BY Lengths
<1>2. ASSUME NEW i \in 1..Len(a)
      PROVE  a[i] = c[i]
  <2>1. (a \o b)[i] = a[i]
    BY Joined
  <2>2. (c \o d)[i] = c[i]
    BY Joined
  <2> QED  BY <2>1, <2>2
<1>3. ASSUME NEW i \in 1..Len(b)
      PROVE  b[i] = d[i]
  <2>1. (a \o b)[Len(a) + i] = b[i]
    BY Joined
  <2>2. (c \o d)[Len(a) + i] = d[i]
    BY <1>1, Joined
  <2> QED  BY <2>1, <2>2
<1> QED  BY <1>1, <1>2, <1>3, SameText

LEMMA SameTails ==
  ASSUME NEW a \in Any, NEW b \in Any, NEW c \in Any, NEW d \in Any,
         a \o b = c \o d, Len(b) = Len(d)
  PROVE  a = c /\ b = d
<1>1. Len(a) = Len(c)
  BY Lengths
<1> QED  BY <1>1, SameHeads

\* The same text taken apart twice, at a place that is the same from one end.
Aligned(a, b, c, d) ==
  /\ a \in Any /\ b \in Any /\ c \in Any /\ d \in Any
  /\ a \o b = c \o d
  /\ Len(a) = Len(c) \/ Len(b) = Len(d)

LEMMA SameParts == \A a, b, c, d : Aligned(a, b, c, d) => a = c /\ b = d
<1> SUFFICES ASSUME NEW a, NEW b, NEW c, NEW d, Aligned(a, b, c, d)
             PROVE  a = c /\ b = d
  OBVIOUS
<1>1. a \in Any /\ b \in Any /\ c \in Any /\ d \in Any /\ a \o b = c \o d
  BY Zenon DEF Aligned
<1>2. CASE Len(a) = Len(c)
  BY <1>1, <1>2, SameHeads, ZenonT(30)
<1>3. CASE Len(b) = Len(d)
  BY <1>1, <1>3, SameTails, ZenonT(30)
<1>4. Len(a) = Len(c) \/ Len(b) = Len(d)
  BY Zenon DEF Aligned
<1> QED  BY <1>2, <1>3, <1>4, Zenon

LEMMA JoinedTexts ==
  ASSUME NEW k \in Nat, NEW l \in Nat, NEW a \in Text(k), NEW b \in Text(l)
  PROVE  a \o b \in Text(k + l)
<1>1. a \in Any /\ b \in Any /\ Len(a) = k /\ Len(b) = l
  BY Zenon DEF Text
<1>2. a \o b \in Any /\ Len(a \o b) = Len(a) + Len(b)
  BY <1>1, Joined, Zenon
<1>3. Len(a \o b) = k + l
  BY <1>1, <1>2, Zenon
<1> QED  BY <1>2, <1>3, Zenon DEF Text

LEMMA TextIsAny ==
  ASSUME NEW k, NEW a \in Text(k)
  PROVE  a \in Any
BY Zenon DEF Text

LEMMA NoPrefix ==
  ASSUME NEW t \in Any
  PROVE  <<>> \o t = t
BY DEF Any

LEMMA Tuples ==
  /\ \A a \in Char : <<a>> \in Text(1)
  /\ \A a, b \in Char : <<a, b>> \in Text(2)
  /\ \A a, b, c \in Char : <<a, b, c>> \in Text(3)
  /\ \A a, b : <<a>> = <<b>> => a = b
  /\ \A a, b, c, d : <<a, b>> = <<c, d>> => a = c /\ b = d
  /\ \A a, b \in Char : <<a>> \o <<b>> = <<a, b>>
<1> HIDE DEF Char
<1>1. \A a \in Char : <<a>> \in Text(1)
  BY DEF Text, Any
<1>2. \A a, b \in Char : <<a, b>> \in Text(2)
  BY DEF Text, Any
<1>3. \A a, b, c \in Char : <<a, b, c>> \in Text(3)
  BY DEF Text, Any
<1>4. ASSUME NEW a \in Char, NEW b \in Char
      PROVE  <<a>> \o <<b>> = <<a, b>>
  <2>1. <<a>> \in Any /\ <<b>> \in Any /\ <<a, b>> \in Any
    BY DEF Any
  <2>2. /\ Len(<<a>>) = 1 /\ Len(<<b>>) = 1 /\ Len(<<a, b>>) = 2
        /\ <<a>>[1] = a /\ <<b>>[1] = b /\ <<a, b>>[1] = a /\ <<a, b>>[2] = b
    OBVIOUS
  <2> DEFINE x == <<a>>
             y == <<b>>
             z == <<a, b>>
  <2>3. x \in Any /\ y \in Any /\ z \in Any /\ Len(x) = 1 /\ Len(y) = 1 /\ Len(z) = 2
        /\ x[1] = z[1] /\ y[1] = z[2]
    BY <2>1, <2>2
  <2> HIDE DEF x, y, z
  <2>4. /\ x \o y \in Any /\ Len(x \o y) = Len(x) + Len(y)
        /\ \A i \in 1..Len(x) : (x \o y)[i] = x[i]
        /\ \A i \in 1..Len(y) : (x \o y)[Len(x) + i] = y[i]
    BY <2>3, Joined, Zenon
  <2> DEFINE w == x \o y
  <2>5. /\ w \in Any /\ Len(w) = 1 + 1
        /\ \A i \in 1..1 : w[i] = x[i] /\ w[1 + i] = y[i]
    BY <2>3, <2>4, Zenon
  <2> HIDE DEF w
  <2>6. Len(w) = Len(z) /\ \A i \in 1..Len(w) : w[i] = z[i]
    <3>1. w[1] = z[1] /\ w[2] = z[2]
      BY <2>3, <2>5
    <3> QED  BY <2>3, <2>5, <3>1
  <2>7. w = z
    BY <2>3, <2>5, <2>6, SameText, Zenon
  <2> QED  BY <2>7 DEF w, x, y, z
<1>5. /\ \A a, b : <<a>> = <<b>> => a = b
      /\ \A a, b, c, d : <<a, b>> = <<c, d>> => a = c /\ b = d
  OBVIOUS
<1> QED  BY <1>1, <1>2, <1>3, <1>4, <1>5, Zenon

-----------------------------------------------------------------------------
(* Numbers.                                                                *)

LEMMA Digits ==
  /\ \A n \in 0..9 : D(n) \in Char
  /\ \A m, n \in 0..9 : D(m) = D(n) => m = n
<1>1. /\ D(0) = "0" /\ D(1) = "1" /\ D(2) = "2" /\ D(3) = "3" /\ D(4) = "4"
      /\ D(5) = "5" /\ D(6) = "6" /\ D(7) = "7" /\ D(8) = "8" /\ D(9) = "9"
  BY DEF D
<1>2. \A n \in 0..9 : n \in {0, 1, 2, 3, 4, 5, 6, 7, 8, 9}
  OBVIOUS
<1>3. \A n \in 0..9 : D(n) \in Char
  BY DEF Char
<1> HIDE DEF D
<1>4. ASSUME NEW m \in 0..9, NEW n \in 0..9, D(m) = D(n)
      PROVE  m = n
  BY <1>1, <1>2, <1>4
<1> QED  BY <1>3, <1>4

\* What is left after a division, and that both together are the number.
LEMMA Divided ==
  ASSUME NEW n \in Nat, NEW b \in Nat \ {0}
  PROVE  /\ n \div b \in Nat /\ n % b \in 0..(b - 1)
         /\ n % b = n - b * (n \div b)
OBVIOUS

LEMMA SameNumber ==
  ASSUME NEW m \in Nat, NEW n \in Nat, NEW b \in Nat \ {0},
         m \div b = n \div b, m % b = n % b
  PROVE  m = n
<1>1. m % b = m - b * (m \div b) /\ n % b = n - b * (n \div b)
  BY Divided, Zenon
<1>2. PICK q \in Nat : q = m \div b
  BY Divided, Zenon
<1>3. m - b * q = n - b * q
  BY <1>1, <1>2, Zenon
<1>4. b * q \in Int
  OBVIOUS
<1> DEFINE k == b * q
<1>5. k \in Int /\ m - k = n - k
  BY <1>3, <1>4, Zenon
<1> HIDE DEF k
<1> QED  BY <1>5

LEMMA Small ==
  /\ \A n \in Nat : n < 100 => n \div 10 \in 0..9 /\ n % 10 \in 0..9
  /\ \A n \in Nat : n < TenThousand => n \div 100 \in Nat /\ n \div 100 < 100
  /\ \A n \in Nat : n % 100 \in Nat /\ n % 100 < 100
<1>1. ASSUME NEW n \in Nat, n < 100
      PROVE  n \div 10 \in 0..9 /\ n % 10 \in 0..9
  BY <1>1
<1>2. ASSUME NEW n \in Nat, n < TenThousand
      PROVE  n \div 100 \in Nat /\ n \div 100 < 100
  BY <1>2 DEF TenThousand
<1>3. ASSUME NEW n \in Nat
      PROVE  n % 100 \in Nat /\ n % 100 < 100
  OBVIOUS
<1> QED  BY <1>1, <1>2, <1>3, Zenon

LEMMA FirstOfFive ==
  ASSUME NEW n \in Nat, n < 100000
  PROVE  n \div 10000 \in 0..9
<1>1. n \div 10000 < 10
  OBVIOUS
<1>2. n \div 10000 \in Nat
  OBVIOUS
<1> QED  BY <1>1, <1>2

\* What is known of the numbers of students and of years.
LEMMA Large ==
  /\ TenThousand \in Nat \ {0}
  /\ \A n \in SID : /\ n \in Nat /\ ~(n < 10) /\ ~(n < 100) /\ ~(n < TenThousand)
                    /\ n \div TenThousand \in 0..9
                    /\ n % TenThousand \in Nat /\ n % TenThousand < TenThousand
  /\ \A n \in 70..138 : /\ n + Epoch \in Nat /\ ~(n + Epoch < 10) /\ ~(n + Epoch < 100)
                         /\ n + Epoch < TenThousand
  /\ \A m, n \in 70..138 : m + Epoch = n + Epoch => m = n
<1>0. TenThousand \in Nat /\ TenThousand > 100
  BY SMT DEF TenThousand
<1>1. TenThousand \in Nat \ {0}
  BY <1>0
\* TenThousand stays folded: the provers would write the interval out.
<1>2. ASSUME NEW n \in SID
      PROVE  n \in Nat /\ ~(n < 10) /\ ~(n < 100) /\ ~(n < TenThousand)
  BY <1>0, SMT DEF SID
<1>3. ASSUME NEW n \in SID
      PROVE  n \div TenThousand \in 0..9
  <2>1. n < 100000
    BY <1>0, SMT DEF SID
  <2> QED  BY <1>2, <2>1, FirstOfFive DEF TenThousand
<1>4. ASSUME NEW n \in SID
      PROVE  n % TenThousand \in Nat /\ n % TenThousand < TenThousand
  <2>1. n \in Nat /\ TenThousand \in Nat /\ TenThousand > 0
    BY <1>1, <1>2
  <2> QED  BY <2>1
<1>5. ASSUME NEW n \in 70..138
      PROVE  /\ n + Epoch \in Nat /\ ~(n + Epoch < 10) /\ ~(n + Epoch < 100)
             /\ n + Epoch < TenThousand
  BY SMT DEF TenThousand, Epoch
<1>6. ASSUME NEW m \in 70..138, NEW n \in 70..138, m + Epoch = n + Epoch
      PROVE  m = n
  BY <1>6, SMT DEF Epoch
<1> QED  BY <1>1, <1>2, <1>3, <1>4, <1>5, <1>6, Zenon

LEMMA TwoFacts ==
  /\ \A n \in Nat : n < 100 => Two(n) \in Text(2)
  /\ \A m, n \in Nat : m < 100 /\ n < 100 /\ Two(m) = Two(n) => m = n
<1>1. ASSUME NEW n \in Nat, n < 100
      PROVE  Two(n) \in Text(2)
  <2>1. D(n \div 10) \in Char /\ D(n % 10) \in Char
    BY <1>1, Small, Digits
  <2> QED  BY <2>1, Tuples DEF Two
<1>2. ASSUME NEW m \in Nat, NEW n \in Nat, m < 100, n < 100, Two(m) = Two(n)
      PROVE  m = n
  <2>1. D(m \div 10) = D(n \div 10) /\ D(m % 10) = D(n % 10)
    BY <1>2, Tuples DEF Two
  <2>2. /\ m \div 10 \in 0..9 /\ n \div 10 \in 0..9
        /\ m % 10 \in 0..9 /\ n % 10 \in 0..9
    BY <1>2, Small
  <2>3. m \div 10 = n \div 10 /\ m % 10 = n % 10
    BY <2>1, <2>2, Digits
  <2>4. 10 \in Nat \ {0}
    OBVIOUS
  <2> QED  BY <2>3, <2>4, SameNumber
<1> QED  BY <1>1, <1>2

\* Four digits are a number below ten thousand.
LEMMA FourFacts ==
  /\ \A n \in Nat : n < TenThousand => Four(n) \in Text(4)
  /\ \A m, n \in Nat : m < TenThousand /\ n < TenThousand /\ Four(m) = Four(n) => m = n
<1>1. ASSUME NEW n \in Nat, n < TenThousand
      PROVE  Two(n \div 100) \in Text(2) /\ Two(n % 100) \in Text(2)
  <2>1. n \div 100 \in Nat /\ n \div 100 < 100 /\ n % 100 \in Nat /\ n % 100 < 100
    BY <1>1, Small
  <2> QED  BY <2>1, TwoFacts
<1>2. ASSUME NEW n \in Nat, n < TenThousand
      PROVE  Four(n) \in Text(4)
  <2>1. 2 \in Nat /\ 2 + 2 = 4
    OBVIOUS
  <2>2. Four(n) \in Text(2 + 2)
    BY <1>1, <1>2, <2>1, JoinedTexts DEF Four
  <2> QED  BY <2>1, <2>2
<1>3. ASSUME NEW m \in Nat, NEW n \in Nat, m < TenThousand, n < TenThousand, Four(m) = Four(n)
      PROVE  m = n
  <2> DEFINE a == Two(m \div 100)
             b == Two(m % 100)
             c == Two(n \div 100)
             d == Two(n % 100)
  <2>1. a \in Text(2) /\ b \in Text(2) /\ c \in Text(2) /\ d \in Text(2)
    BY <1>1, <1>3
  <2>2. Four(m) = Four(n)
    BY <1>3
  <2>3. a \o b = Four(m) /\ c \o d = Four(n)
    BY DEF Four
  <2> HIDE DEF a, b, c, d
  <2>4. /\ a \in Any /\ b \in Any /\ c \in Any /\ d \in Any /\ Len(a) = Len(c)
        /\ a \o b = c \o d
    BY <2>1, <2>2, <2>3, Zenon DEF Text
  <2>5. a = c /\ b = d
    BY <2>4, SameHeads
  <2>6. Two(m \div 100) = Two(n \div 100) /\ Two(m % 100) = Two(n % 100)
    BY <2>5 DEF a, b, c, d
  <2>7. /\ m \div 100 \in Nat /\ m \div 100 < 100 /\ m % 100 \in Nat /\ m % 100 < 100
        /\ n \div 100 \in Nat /\ n \div 100 < 100 /\ n % 100 \in Nat /\ n % 100 < 100
    BY <1>3, Small
  <2>8. m \div 100 = n \div 100 /\ m % 100 = n % 100
    BY <2>6, <2>7, TwoFacts
  <2>9. 100 \in Nat \ {0}
    OBVIOUS
  <2> QED  BY <2>8, <2>9, SameNumber
<1> QED  BY <1>2, <1>3

\* How many digits a number takes.
LEMMA DecimalIs ==
  ASSUME NEW n \in Nat
  PROVE  /\ n < 10 => Decimal(n) = <<D(n)>>
         /\ ~(n < 10) /\ n < 100 => Decimal(n) = Two(n)
         /\ ~(n < 100) /\ ~(n < 10) /\ n < TenThousand => Decimal(n) = Four(n)
         /\ ~(n < TenThousand) /\ ~(n < 100) /\ ~(n < 10) =>
              Decimal(n) = <<D(n \div TenThousand)>> \o Four(n % TenThousand)
BY DEF Decimal

LEMMA ShortDecimal ==
  /\ \A n \in 0..9 : Decimal(n) = <<D(n)>> /\ Decimal(n) \in Text(1)
  /\ \A n \in 10..98 : Decimal(n) = Two(n) /\ Decimal(n) \in Text(2)
<1>1. ASSUME NEW n \in 0..9
      PROVE  Decimal(n) = <<D(n)>> /\ Decimal(n) \in Text(1)
  <2>1. n \in Nat /\ n < 10
    OBVIOUS
  <2>2. Decimal(n) = <<D(n)>>
    BY <2>1, DecimalIs
  <2> QED  BY <2>2, Digits, Tuples, ZenonT(60)
<1>2. ASSUME NEW n \in 10..98
      PROVE  Decimal(n) = Two(n) /\ Decimal(n) \in Text(2)
  <2>1. n \in Nat /\ ~(n < 10) /\ n < 100
    OBVIOUS
  <2>2. Decimal(n) = Two(n)
    BY <2>1, DecimalIs
  <2> QED  BY <2>1, <2>2, TwoFacts
<1> QED  BY <1>1, <1>2, Zenon

\* A student number takes five digits.
LEMMA SidFacts ==
  /\ \A n \in SID : Decimal(n) \in Text(5)
  /\ \A m, n \in SID : Decimal(m) = Decimal(n) => m = n
<1>1. ASSUME NEW n \in SID
      PROVE  /\ n \in Nat /\ n \div TenThousand \in 0..9 /\ n % TenThousand \in Nat /\ n % TenThousand < TenThousand
             /\ Decimal(n) = <<D(n \div TenThousand)>> \o Four(n % TenThousand)
             /\ <<D(n \div TenThousand)>> \in Text(1) /\ Four(n % TenThousand) \in Text(4)
  <2>1. n \in Nat /\ ~(n < 10) /\ ~(n < 100) /\ ~(n < TenThousand)
    BY Large, Zenon
  <2>2. n \div TenThousand \in 0..9 /\ n % TenThousand \in Nat /\ n % TenThousand < TenThousand
    BY Large, Zenon
  <2>3. Decimal(n) = <<D(n \div TenThousand)>> \o Four(n % TenThousand)
    BY <2>1, DecimalIs
  <2>4. D(n \div TenThousand) \in Char
    BY <2>2, Digits
  <2>5. <<D(n \div TenThousand)>> \in Text(1)
    BY <2>4, Tuples
  <2>6. Four(n % TenThousand) \in Text(4)
    BY <2>2, FourFacts
  <2> QED  BY <2>1, <2>2, <2>3, <2>5, <2>6
<1>2. ASSUME NEW n \in SID
      PROVE  Decimal(n) \in Text(5)
  <2> DEFINE a == <<D(n \div TenThousand)>>
             b == Four(n % TenThousand)
             s == Decimal(n)
  <2>1. a \in Text(1) /\ b \in Text(4) /\ s = a \o b
    BY <1>1
  <2>2. 1 \in Nat /\ 4 \in Nat /\ 1 + 4 = 5
    OBVIOUS
  <2> HIDE DEF a, b, s
  <2>3. s \in Text(1 + 4)
    BY <2>1, <2>2, JoinedTexts, Zenon
  <2>4. s \in Text(5)
    BY <2>2, <2>3, Zenon
  <2> QED  BY <2>4 DEF s
<1>3. ASSUME NEW m \in SID, NEW n \in SID, Decimal(m) = Decimal(n)
      PROVE  m = n
  <2> DEFINE a == <<D(m \div TenThousand)>>
             b == Four(m % TenThousand)
             c == <<D(n \div TenThousand)>>
             d == Four(n % TenThousand)
             s == Decimal(m)
  <2>1. /\ a \in Text(1) /\ b \in Text(4) /\ c \in Text(1) /\ d \in Text(4)
        /\ s = a \o b
    BY <1>1
  <2>2. s = c \o d
    <3>1. Decimal(n) = c \o d
      BY <1>1
    <3>2. Decimal(n) = s
      BY <1>3
    <3> HIDE DEF c, d, s
    <3> QED  BY <3>1, <3>2, Zenon
  <2> HIDE DEF a, b, c, d, s
  <2>3. /\ a \in Any /\ b \in Any /\ c \in Any /\ d \in Any /\ Len(a) = Len(c)
        /\ a \o b = c \o d
    BY <2>1, <2>2, Zenon DEF Text
  <2>4. a = c /\ b = d
    BY <2>3, SameHeads
  <2>5. D(m \div TenThousand) = D(n \div TenThousand)
    BY <2>4, Tuples DEF a, c
  <2>6. m \div TenThousand = n \div TenThousand
    BY <2>5, <1>1, Digits
  <2>7. Four(m % TenThousand) = Four(n % TenThousand)
    BY <2>4 DEF b, d
  <2>8. m % TenThousand = n % TenThousand
    BY <2>7, <1>1, FourFacts
  <2> QED  BY <2>6, <2>8, <1>1, Large, SameNumber
<1> QED  BY <1>2, <1>3

LEMMA YearFacts ==
  /\ \A n \in 70..138 : Decimal(n + Epoch) \in Text(4)
  /\ \A m, n \in 70..138 : Decimal(m + Epoch) = Decimal(n + Epoch) => m = n
<1>1. ASSUME NEW n \in 70..138
      PROVE  n + Epoch \in Nat /\ n + Epoch < TenThousand /\ Decimal(n + Epoch) = Four(n + Epoch)
  <2>1. n + Epoch \in Nat /\ ~(n + Epoch < 10) /\ ~(n + Epoch < 100) /\ n + Epoch < TenThousand
    BY Large, Zenon
  <2> QED  BY <2>1, DecimalIs
<1>2. ASSUME NEW n \in 70..138
      PROVE  Decimal(n + Epoch) \in Text(4)
  BY <1>1, FourFacts
<1>3. ASSUME NEW m \in 70..138, NEW n \in 70..138, Decimal(m + Epoch) = Decimal(n + Epoch)
      PROVE  m = n
  <2>1. Four(m + Epoch) = Four(n + Epoch)
    BY <1>1, <1>3
  <2>2. m + Epoch = n + Epoch
    BY <2>1, <1>1, FourFacts
  <2> QED  BY <2>2, Large, Zenon
<1> QED  BY <1>2, <1>3

\* One digit with a zero before it.
LEMMA Padded ==
  ASSUME NEW n \in 0..9
  PROVE  <<"0">> \o Decimal(n) = Two(n)
<1>1. D(0) = "0" /\ D(0) \in Char /\ D(n) \in Char
  <2>1. D(0) = "0"
    BY DEF D
  <2>2. 0 \in 0..9
    OBVIOUS
  <2> QED  BY <2>1, <2>2, Digits, Zenon
<1>2. <<"0">> \o Decimal(n) = <<D(0), D(n)>>
  BY <1>1, ShortDecimal, Tuples, Zenon
<1>3. n \div 10 = 0 /\ n % 10 = n
  OBVIOUS
<1> QED  BY <1>2, <1>3, Zenon DEF Two

\* A day, an hour, a minute or a second takes two digits whatever it is.
LEMMA FieldTwo ==
  ASSUME NEW n \in 0..97
  PROVE  Field(n, 9) = Two(n + 1)
<1>1. CASE n < 9
  <2>1. Field(n, 9) = <<"0">> \o Decimal(n + 1)
    BY <1>1, Zenon DEF Field
  <2>2. n + 1 \in 0..9
    BY <1>1
  <2> QED  BY <2>1, <2>2, Padded, Zenon
<1>2. CASE ~(n < 9)
  <2>1. Field(n, 9) = <<>> \o Decimal(n + 1)
    BY <1>2, Zenon DEF Field
  <2>2. n + 1 \in 10..98
    BY <1>2
  <2>3. Decimal(n + 1) = Two(n + 1) /\ Decimal(n + 1) \in Any
    BY <2>2, ShortDecimal, Zenon DEF Text
  <2> QED  BY <2>1, <2>3, NoPrefix, Zenon
<1> QED  BY <1>1, <1>2

LEMMA FieldFacts ==
  /\ \A n \in 0..97 : Field(n, 9) \in Text(2)
  /\ \A m, n \in 0..97 : Field(m, 9) = Field(n, 9) => m = n
<1>1. ASSUME NEW n \in 0..97
      PROVE  Field(n, 9) = Two(n + 1) /\ Field(n, 9) \in Text(2)
  <2>1. Field(n, 9) = Two(n + 1)
    BY FieldTwo
  <2>2. n + 1 \in Nat /\ n + 1 < 100
    OBVIOUS
  <2> QED  BY <2>1, <2>2, TwoFacts
<1>2. ASSUME NEW m \in 0..97, NEW n \in 0..97, Field(m, 9) = Field(n, 9)
      PROVE  m = n
  <2>1. Two(m + 1) = Two(n + 1)
    BY <1>1, <1>2
  <2>2. m + 1 \in Nat /\ m + 1 < 100 /\ n + 1 \in Nat /\ n + 1 < 100
    OBVIOUS
  <2>3. m + 1 = n + 1
    BY <2>1, <2>2, TwoFacts
  <2> QED  BY <2>3
<1> QED  BY <1>1, <1>2

\* A month takes two digits, but September.
LEMMA MonthFacts ==
  /\ \A n \in 0..11 : Field(n, 8) \in Text(IF n = 8 THEN 1 ELSE 2)
  /\ \A m, n \in 0..11 : Field(m, 8) = Field(n, 8) => m = n
<1>1. ASSUME NEW n \in 0..11, n # 8
      PROVE  Field(n, 8) = Two(n + 1) /\ Field(n, 8) \in Text(2)
  <2>1. n + 1 \in Nat /\ n + 1 < 100
    OBVIOUS
  <2>2. CASE n < 8
    <3>1. Field(n, 8) = <<"0">> \o Decimal(n + 1)
      BY <2>2, Zenon DEF Field
    <3>2. n + 1 \in 0..9
      BY <2>2
    <3>3. Field(n, 8) = Two(n + 1)
      BY <3>1, <3>2, Padded, Zenon
    <3> QED  BY <3>3, <2>1, TwoFacts
  <2>3. CASE ~(n < 8)
    <3>1. Field(n, 8) = <<>> \o Decimal(n + 1)
      BY <2>3, Zenon DEF Field
    <3>2. n + 1 \in 10..98
      BY <2>3, <1>1
    <3>3. Decimal(n + 1) = Two(n + 1) /\ Decimal(n + 1) \in Any
      BY <3>2, ShortDecimal, Zenon DEF Text
    <3>4. Field(n, 8) = Two(n + 1)
      BY <3>1, <3>3, NoPrefix, Zenon
    <3> QED  BY <3>4, <2>1, TwoFacts
  <2> QED  BY <2>2, <2>3
<1>2. Field(8, 8) \in Text(1)
  <2>1. ~(8 < 8) /\ 8 + 1 = 9 /\ 9 \in 0..9
    OBVIOUS
  <2>2. Field(8, 8) = <<>> \o Decimal(9)
    BY <2>1, Zenon DEF Field
  <2>3. Decimal(9) \in Text(1)
    BY <2>1, ShortDecimal, Zenon
  <2> QED  BY <2>2, <2>3, TextIsAny, NoPrefix, Zenon
<1>3. \A a : ~(a \in Text(1) /\ a \in Text(2))
  BY DEF Text
<1>4. \A n \in 0..11 : Field(n, 8) \in Text(IF n = 8 THEN 1 ELSE 2)
  BY <1>1, <1>2, Zenon
<1>5. ASSUME NEW m \in 0..11, NEW n \in 0..11, Field(m, 8) = Field(n, 8)
      PROVE  m = n
  <2>1. CASE m = 8 \/ n = 8
    BY <2>1, <1>1, <1>2, <1>3, <1>5, Zenon
  <2>2. CASE m # 8 /\ n # 8
    <3>1. Two(m + 1) = Two(n + 1)
      BY <2>2, <1>1, <1>5, Zenon
    <3>2. m + 1 \in Nat /\ m + 1 < 100 /\ n + 1 \in Nat /\ n + 1 < 100
      OBVIOUS
    <3>3. m + 1 = n + 1
      BY <3>1, <3>2, TwoFacts
    <3> QED  BY <3>3
  <2> QED  BY <2>1, <2>2, Zenon
<1> QED  BY <1>4, <1>5, Zenon

-----------------------------------------------------------------------------
(* The texts.                                                              *)

LEMMA Marks == <<"_">> \in Text(1) /\ <<":">> \in Text(1)
<1>1. "_" \in Char /\ ":" \in Char
  BY Zenon DEF Char
<1> QED  BY <1>1, Tuples, Zenon

\* Joined texts of known lengths, element by element.
LEMMA Elements ==
  ASSUME NEW k \in Nat, NEW l \in Nat, NEW a \in Text(k), NEW b \in Text(l)
  PROVE  /\ \A i \in 1..k : (a \o b)[i] = a[i]
         /\ \A i \in 1..l : (a \o b)[k + i] = b[i]
<1>1. a \in Any /\ b \in Any /\ Len(a) = k
  BY Zenon DEF Text
<1>2. Len(b) = l
  BY Zenon DEF Text
<1>3. /\ \A i \in 1..Len(a) : (a \o b)[i] = a[i]
      /\ \A i \in 1..Len(b) : (a \o b)[Len(a) + i] = b[i]
  BY <1>1, Joined, Zenon
<1> QED  BY <1>1, <1>2, <1>3, Zenon

\* hh:mm:ss.
LEMMA TimeParts ==
  ASSUME NEW a \in Text(2), NEW b \in Text(2), NEW c \in Text(2)
  PROVE  /\ a \o <<":">> \in Text(3) /\ a \o <<":">> \o b \in Text(5)
         /\ a \o <<":">> \o b \o <<":">> \in Text(6)
         /\ a \o <<":">> \o b \o <<":">> \o c \in Text(8)
<1>1. /\ 1 \in Nat /\ 2 \in Nat /\ 3 \in Nat /\ 5 \in Nat /\ 6 \in Nat
      /\ 2 + 1 = 3 /\ 3 + 2 = 5 /\ 5 + 1 = 6 /\ 6 + 2 = 8
  OBVIOUS
<1>2. a \o <<":">> \in Text(3)
  <2>1. a \o <<":">> \in Text(2 + 1)
    BY <1>1, Marks, JoinedTexts, Zenon
  <2> QED  BY <2>1, <1>1, Zenon
<1>3. a \o <<":">> \o b \in Text(5)
  <2>1. a \o <<":">> \o b \in Text(3 + 2)
    BY <1>1, <1>2, JoinedTexts, Zenon
  <2> QED  BY <2>1, <1>1, Zenon
<1>4. a \o <<":">> \o b \o <<":">> \in Text(6)
  <2>1. a \o <<":">> \o b \o <<":">> \in Text(5 + 1)
    BY <1>1, <1>3, Marks, JoinedTexts, Zenon
  <2> QED  BY <2>1, <1>1, Zenon
<1>5. a \o <<":">> \o b \o <<":">> \o c \in Text(8)
  <2>1. a \o <<":">> \o b \o <<":">> \o c \in Text(6 + 2)
    BY <1>1, <1>4, JoinedTexts, Zenon
  <2> QED  BY <2>1, <1>1, Zenon
<1> QED  BY <1>2, <1>3, <1>4, <1>5, Zenon

Fields(a, b, c) == a \in Text(2) /\ b \in Text(2) /\ c \in Text(2)

HourMinSec(a, b, c) == a \o <<":">> \o b \o <<":">> \o c

LEMMA SameTimeParts ==
  \A a, b, c, e, f, g :
    Fields(a, b, c) /\ Fields(e, f, g) /\ HourMinSec(a, b, c) = HourMinSec(e, f, g)
      => a = e /\ b = f /\ c = g
<1> SUFFICES ASSUME NEW a, NEW b, NEW c, NEW e, NEW f, NEW g,
                    Fields(a, b, c), Fields(e, f, g), HourMinSec(a, b, c) = HourMinSec(e, f, g)
             PROVE  a = e /\ b = f /\ c = g
  BY Zenon
<1>0. /\ a \in Text(2) /\ b \in Text(2) /\ c \in Text(2)
      /\ e \in Text(2) /\ f \in Text(2) /\ g \in Text(2)
  BY Zenon DEF Fields
<1>a. a \o <<":">> \o b \o <<":">> \o c = e \o <<":">> \o f \o <<":">> \o g
  BY Zenon DEF HourMinSec
<1> DEFINE p1 == a \o <<":">>
           p2 == p1 \o b
           p3 == p2 \o <<":">>
           q1 == e \o <<":">>
           q2 == q1 \o f
           q3 == q2 \o <<":">>
<1>1. /\ p1 \in Any /\ p2 \in Any /\ p3 \in Any /\ q1 \in Any /\ q2 \in Any /\ q3 \in Any
      /\ a \in Any /\ e \in Any /\ b \in Any /\ f \in Any /\ c \in Any /\ g \in Any
      /\ <<":">> \in Any
  BY <1>0, TimeParts, Marks, TextIsAny, Zenon
<1>2. Len(b) = Len(f) /\ Len(c) = Len(g)
  BY <1>0, Zenon DEF Text
<1>3. p3 \o c = q3 \o g /\ p3 = p2 \o <<":">> /\ q3 = q2 \o <<":">>
      /\ p2 = p1 \o b /\ q2 = q1 \o f /\ p1 = a \o <<":">> /\ q1 = e \o <<":">>
  BY <1>a
<1> HIDE DEF p1, p2, p3, q1, q2, q3
<1>4. Aligned(p3, c, q3, g)
  BY <1>1, <1>2, <1>3, Zenon DEF Aligned
<1>5. Aligned(p2, <<":">>, q2, <<":">>)
  <2>1. p3 = q3
    BY <1>4, SameParts, Zenon
  <2>2. p2 \o <<":">> = q2 \o <<":">>
    BY <2>1, <1>3, Zenon
  <2> QED  BY <2>2, <1>1, Zenon DEF Aligned
<1>6. Aligned(p1, b, q1, f)
  <2>1. p2 = q2
    BY <1>5, SameParts, Zenon
  <2>2. p1 \o b = q1 \o f
    BY <2>1, <1>3, Zenon
  <2> QED  BY <2>2, <1>1, <1>2, Zenon DEF Aligned
<1>7. Aligned(a, <<":">>, e, <<":">>)
  <2>1. p1 = q1
    BY <1>6, SameParts, Zenon
  <2>2. a \o <<":">> = e \o <<":">>
    BY <2>1, <1>3, Zenon
  <2> QED  BY <2>2, <1>1, Zenon DEF Aligned
<1> QED  BY <1>4, <1>6, <1>7, SameParts, Zenon

LEMMA Ranges ==
  ASSUME NEW t \in Tm
  PROVE  /\ t.year \in 70..138 /\ t.mon \in 0..11 /\ t.mday \in 0..97
         /\ t.hour \in 0..97 /\ t.min \in 0..97 /\ t.sec \in 0..97
BY DEF Tm

LEMMA TimeFacts ==
  /\ \A t \in Tm : TimeText(t) \in Text(8)
  /\ \A t, u \in Tm : TimeText(t) = TimeText(u) =>
       t.hour = u.hour /\ t.min = u.min /\ t.sec = u.sec
<1>1. ASSUME NEW t \in Tm
      PROVE  Field(t.hour, 9) \in Text(2) /\ Field(t.min, 9) \in Text(2) /\ Field(t.sec, 9) \in Text(2)
  BY Ranges, FieldFacts, ZenonT(60)
<1>2. ASSUME NEW t \in Tm
      PROVE  TimeText(t) \in Text(8)
  BY <1>1, TimeParts, Zenon DEF TimeText
<1>3. ASSUME NEW t \in Tm, NEW u \in Tm, TimeText(t) = TimeText(u)
      PROVE  t.hour = u.hour /\ t.min = u.min /\ t.sec = u.sec
  <2> DEFINE a == Field(t.hour, 9)
             b == Field(t.min, 9)
             c == Field(t.sec, 9)
             e == Field(u.hour, 9)
             f == Field(u.min, 9)
             g == Field(u.sec, 9)
  <2>1. Fields(a, b, c) /\ Fields(e, f, g)
    BY <1>1, Zenon DEF Fields
  <2>2. HourMinSec(a, b, c) = HourMinSec(e, f, g)
    BY <1>3, Zenon DEF TimeText, HourMinSec
  <2> HIDE DEF a, b, c, e, f, g
  <2>3. a = e /\ b = f /\ c = g
    BY <2>1, <2>2, SameTimeParts
  <2> USE DEF a, b, c, e, f, g
  <2>4. /\ Field(t.hour, 9) = Field(u.hour, 9) /\ Field(t.min, 9) = Field(u.min, 9)
        /\ Field(t.sec, 9) = Field(u.sec, 9)
    BY <2>3, Zenon
  <2>5. /\ t.hour \in 0..97 /\ t.min \in 0..97 /\ t.sec \in 0..97
        /\ u.hour \in 0..97 /\ u.min \in 0..97 /\ u.sec \in 0..97
    <3>1. t.hour \in 0..97 /\ t.min \in 0..97 /\ t.sec \in 0..97
      BY Ranges, ZenonT(60)
    <3>2. u.hour \in 0..97 /\ u.min \in 0..97 /\ u.sec \in 0..97
      BY Ranges, ZenonT(60)
    <3> QED  BY <3>1, <3>2
  <2>6. t.hour = u.hour
    BY <2>4, <2>5, FieldFacts, Zenon
  <2>7. t.min = u.min
    BY <2>4, <2>5, FieldFacts, Zenon
  <2>8. t.sec = u.sec
    BY <2>4, <2>5, FieldFacts, Zenon
  <2> QED  BY <2>6, <2>7, <2>8
<1> QED  BY <1>2, <1>3, Zenon

\* The parts of a qid: its month has k characters.
Parts(k, s, y, m, d, x) ==
  k \in Nat /\ s \in Text(5) /\ y \in Text(4) /\ m \in Text(k) /\ d \in Text(2) /\ x \in Text(8)

LEMMA QidParts ==
  \A k, s, y, m, d, x : Parts(k, s, y, m, d, x) =>
    /\ s \o <<"_">> \in Text(6)
    /\ s \o <<"_">> \o y \in Text(10)
    /\ s \o <<"_">> \o y \o m \in Text(10 + k)
    /\ s \o <<"_">> \o y \o m \o d \in Text(12 + k)
    /\ s \o <<"_">> \o y \o m \o d \o <<"_">> \in Text(13 + k)
    /\ s \o <<"_">> \o y \o m \o d \o <<"_">> \o x \in Text(21 + k)
<1> SUFFICES ASSUME NEW k, NEW s, NEW y, NEW m, NEW d, NEW x, Parts(k, s, y, m, d, x)
             PROVE  /\ s \o <<"_">> \in Text(6)
                    /\ s \o <<"_">> \o y \in Text(10)
                    /\ s \o <<"_">> \o y \o m \in Text(10 + k)
                    /\ s \o <<"_">> \o y \o m \o d \in Text(12 + k)
                    /\ s \o <<"_">> \o y \o m \o d \o <<"_">> \in Text(13 + k)
                    /\ s \o <<"_">> \o y \o m \o d \o <<"_">> \o x \in Text(21 + k)
  BY Zenon
<1>0. /\ k \in Nat /\ s \in Text(5) /\ y \in Text(4) /\ m \in Text(k) /\ d \in Text(2)
      /\ x \in Text(8)
  BY Zenon DEF Parts
<1>1. /\ 1 \in Nat /\ 2 \in Nat /\ 4 \in Nat /\ 5 \in Nat /\ 6 \in Nat /\ 8 \in Nat
      /\ 10 \in Nat /\ 5 + 1 = 6 /\ 6 + 4 = 10
  OBVIOUS
<1>2. /\ 10 + k \in Nat /\ 12 + k \in Nat /\ 13 + k \in Nat
      /\ (10 + k) + 2 = 12 + k /\ (12 + k) + 1 = 13 + k /\ (13 + k) + 8 = 21 + k
  BY <1>0
<1>3. s \o <<"_">> \in Text(6)
  <2>1. s \o <<"_">> \in Text(5 + 1)
    BY <1>0, <1>1, Marks, JoinedTexts, Zenon
  <2> QED  BY <2>1, <1>1, Zenon
<1>4. s \o <<"_">> \o y \in Text(10)
  <2>1. s \o <<"_">> \o y \in Text(6 + 4)
    BY <1>0, <1>1, <1>3, JoinedTexts, Zenon
  <2> QED  BY <2>1, <1>1, Zenon
<1>5. s \o <<"_">> \o y \o m \in Text(10 + k)
  BY <1>0, <1>1, <1>4, JoinedTexts, Zenon
<1>6. s \o <<"_">> \o y \o m \o d \in Text(12 + k)
  <2>1. s \o <<"_">> \o y \o m \o d \in Text((10 + k) + 2)
    BY <1>0, <1>1, <1>2, <1>5, JoinedTexts, Zenon
  <2> QED  BY <2>1, <1>2, Zenon
<1>7. s \o <<"_">> \o y \o m \o d \o <<"_">> \in Text(13 + k)
  <2>1. s \o <<"_">> \o y \o m \o d \o <<"_">> \in Text((12 + k) + 1)
    BY <1>0, <1>1, <1>2, <1>6, Marks, JoinedTexts, Zenon
  <2> QED  BY <2>1, <1>2, Zenon
<1>8. s \o <<"_">> \o y \o m \o d \o <<"_">> \o x \in Text(21 + k)
  <2>1. s \o <<"_">> \o y \o m \o d \o <<"_">> \o x \in Text((13 + k) + 8)
    BY <1>0, <1>1, <1>2, <1>7, JoinedTexts, Zenon
  <2> QED  BY <2>1, <1>2, Zenon
<1> QED  BY <1>3, <1>4, <1>5, <1>6, <1>7, <1>8, Zenon

QidOf(s, y, m, d, x) == s \o <<"_">> \o y \o m \o d \o <<"_">> \o x

\* The month is the only part whose length is not known: what is before it and
\* what is after it settles where it stands.
LEMMA SameQidParts ==
  \A k, s, y, m, d, x, l, r, z, n, e, w :
    Parts(k, s, y, m, d, x) /\ Parts(l, r, z, n, e, w) /\ QidOf(s, y, m, d, x) = QidOf(r, z, n, e, w)
      => s = r /\ y = z /\ m = n /\ d = e /\ x = w
<1> SUFFICES ASSUME NEW k, NEW s, NEW y, NEW m, NEW d, NEW x,
                    NEW l, NEW r, NEW z, NEW n, NEW e, NEW w,
                    Parts(k, s, y, m, d, x), Parts(l, r, z, n, e, w),
                    QidOf(s, y, m, d, x) = QidOf(r, z, n, e, w)
             PROVE  s = r /\ y = z /\ m = n /\ d = e /\ x = w
  OBVIOUS
<1>b. /\ k \in Nat /\ s \in Text(5) /\ y \in Text(4) /\ m \in Text(k) /\ d \in Text(2) /\ x \in Text(8)
      /\ l \in Nat /\ r \in Text(5) /\ z \in Text(4) /\ n \in Text(l) /\ e \in Text(2) /\ w \in Text(8)
  BY Zenon DEF Parts
<1>c. s \o <<"_">> \o y \o m \o d \o <<"_">> \o x
        = r \o <<"_">> \o z \o n \o e \o <<"_">> \o w
  BY Zenon DEF QidOf
<1> DEFINE p1 == s \o <<"_">>
           p2 == p1 \o y
           p3 == p2 \o m
           p4 == p3 \o d
           p5 == p4 \o <<"_">>
           q1 == r \o <<"_">>
           q2 == q1 \o z
           q3 == q2 \o n
           q4 == q3 \o e
           q5 == q4 \o <<"_">>
<1>0. /\ p1 \in Text(6) /\ p2 \in Text(10) /\ p3 \in Text(10 + k) /\ p4 \in Text(12 + k)
      /\ p5 \in Text(13 + k)
  <2>1. /\ s \o <<"_">> \in Text(6)
        /\ s \o <<"_">> \o y \in Text(10)
        /\ s \o <<"_">> \o y \o m \in Text(10 + k)
        /\ s \o <<"_">> \o y \o m \o d \in Text(12 + k)
        /\ s \o <<"_">> \o y \o m \o d \o <<"_">> \in Text(13 + k)
    <3> HIDE DEF p1, p2, p3, p4, p5
    <3>1. Parts(k, s, y, m, d, x)
      OBVIOUS
    <3> QED  BY <3>1, QidParts, Zenon
  <2> QED  BY <2>1, Zenon
<1>a. /\ q1 \in Text(6) /\ q2 \in Text(10) /\ q3 \in Text(10 + l) /\ q4 \in Text(12 + l)
      /\ q5 \in Text(13 + l)
  <2>1. /\ r \o <<"_">> \in Text(6)
        /\ r \o <<"_">> \o z \in Text(10)
        /\ r \o <<"_">> \o z \o n \in Text(10 + l)
        /\ r \o <<"_">> \o z \o n \o e \in Text(12 + l)
        /\ r \o <<"_">> \o z \o n \o e \o <<"_">> \in Text(13 + l)
    <3> HIDE DEF q1, q2, q3, q4, q5
    <3>1. Parts(l, r, z, n, e, w)
      OBVIOUS
    <3> QED  BY <3>1, QidParts, Zenon
  <2> QED  BY <2>1, Zenon
<1>1. /\ p1 \in Any /\ p2 \in Any /\ p3 \in Any /\ p4 \in Any /\ p5 \in Any
      /\ q1 \in Any /\ q2 \in Any /\ q3 \in Any /\ q4 \in Any /\ q5 \in Any
      /\ Len(p2) = Len(q2)
  <2> HIDE DEF p1, p2, p3, p4, p5, q1, q2, q3, q4, q5
  <2> QED  BY <1>0, <1>a, Zenon DEF Text
<1>2. /\ s \in Any /\ y \in Any /\ m \in Any /\ d \in Any /\ x \in Any /\ <<"_">> \in Any
      /\ r \in Any /\ z \in Any /\ n \in Any /\ e \in Any /\ w \in Any
  BY <1>b, Marks, TextIsAny, Zenon
<1>3. Len(x) = Len(w) /\ Len(d) = Len(e) /\ Len(p2) = Len(q2) /\ Len(y) = Len(z)
  <2> HIDE DEF p2, q2
  <2> QED  BY <1>b, <1>1, Zenon DEF Text
<1>4. /\ p1 = s \o <<"_">> /\ p2 = p1 \o y /\ p3 = p2 \o m /\ p4 = p3 \o d /\ p5 = p4 \o <<"_">>
      /\ q1 = r \o <<"_">> /\ q2 = q1 \o z /\ q3 = q2 \o n /\ q4 = q3 \o e /\ q5 = q4 \o <<"_">>
      /\ p5 \o x = q5 \o w
  BY <1>c, Zenon
<1> HIDE DEF p1, p2, p3, p4, p5, q1, q2, q3, q4, q5
<1>5. Aligned(p5, x, q5, w)
  BY <1>1, <1>2, <1>3, <1>4, Zenon DEF Aligned
<1>6. Aligned(p4, <<"_">>, q4, <<"_">>)
  <2>1. p5 = q5
    BY <1>5, SameParts, Zenon
  <2>2. p4 \o <<"_">> = q4 \o <<"_">>
    BY <2>1, <1>4, Zenon
  <2> QED  BY <2>2, <1>1, <1>2, Zenon DEF Aligned
<1>7. Aligned(p3, d, q3, e)
  <2>1. p4 = q4
    BY <1>6, SameParts, Zenon
  <2>2. p3 \o d = q3 \o e
    BY <2>1, <1>4, Zenon
  <2> QED  BY <2>2, <1>1, <1>2, <1>3, Zenon DEF Aligned
<1>8. Aligned(p2, m, q2, n)
  <2>1. p3 = q3
    BY <1>7, SameParts, Zenon
  <2>2. p2 \o m = q2 \o n
    BY <2>1, <1>4, Zenon
  <2> QED  BY <2>2, <1>1, <1>2, <1>3, Zenon DEF Aligned
<1>9. Aligned(p1, y, q1, z)
  <2>1. p2 = q2
    BY <1>8, SameParts, Zenon
  <2>2. p1 \o y = q1 \o z
    BY <2>1, <1>4, Zenon
  <2> QED  BY <2>2, <1>1, <1>2, <1>3, Zenon DEF Aligned
<1>10. Aligned(s, <<"_">>, r, <<"_">>)
  <2>1. p1 = q1
    BY <1>9, SameParts, Zenon
  <2>2. s \o <<"_">> = r \o <<"_">>
    BY <2>1, <1>4, Zenon
  <2> QED  BY <2>2, <1>2, Zenon DEF Aligned
<1> QED  BY <1>5, <1>7, <1>8, <1>9, <1>10, SameParts, Zenon

\* The length of the month.
MonthLen(n) == IF n = 8 THEN 1 ELSE 2

LEMMA PartsOf ==
  ASSUME NEW sid \in SID, NEW t \in Tm
  PROVE  /\ MonthLen(t.mon) \in Nat /\ MonthLen(t.mon) \in 1..2
         /\ Decimal(sid) \in Text(5) /\ Decimal(t.year + Epoch) \in Text(4)
         /\ Field(t.mon, 8) \in Text(MonthLen(t.mon)) /\ Field(t.mday, 9) \in Text(2)
         /\ TimeText(t) \in Text(8)
<1>1. MonthLen(t.mon) \in Nat /\ MonthLen(t.mon) \in 1..2
  BY DEF MonthLen
<1>2. Field(t.mon, 8) \in Text(MonthLen(t.mon))
  BY Ranges, MonthFacts, Zenon DEF MonthLen
<1>3. Decimal(sid) \in Text(5) /\ Decimal(t.year + Epoch) \in Text(4)
  BY Ranges, SidFacts, YearFacts, ZenonT(60)
<1>4. Field(t.mday, 9) \in Text(2) /\ TimeText(t) \in Text(8)
  BY Ranges, FieldFacts, TimeFacts, ZenonT(60)
<1> QED  BY <1>1, <1>2, <1>3, <1>4, Zenon

\* qid() gives different students, and the same student at different local
\* times, different texts - whatever the numbers are, in the year of 1970 or
\* 2038, on the 31st, at 23:59:60 or in September.
THEOREM QidTellsApart ==
  \A sid, oid \in SID, t, u \in Tm : qid(sid, t) = qid(oid, u) => sid = oid /\ t = u
<1> SUFFICES ASSUME NEW sid \in SID, NEW oid \in SID, NEW t \in Tm, NEW u \in Tm,
                    qid(sid, t) = qid(oid, u)
             PROVE  sid = oid /\ t = u
  OBVIOUS
<1> DEFINE s == Decimal(sid)
           y == Decimal(t.year + Epoch)
           m == Field(t.mon, 8)
           d == Field(t.mday, 9)
           x == TimeText(t)
           k == MonthLen(t.mon)
           r == Decimal(oid)
           z == Decimal(u.year + Epoch)
           n == Field(u.mon, 8)
           e == Field(u.mday, 9)
           w == TimeText(u)
           l == MonthLen(u.mon)
<1>1. Parts(k, s, y, m, d, x) /\ Parts(l, r, z, n, e, w)
  BY PartsOf, Zenon DEF Parts
<1>2. QidOf(s, y, m, d, x) = QidOf(r, z, n, e, w)
  BY Zenon DEF qid, QidOf
<1> HIDE DEF s, y, m, d, x, k, r, z, n, e, w, l
<1>3. s = r /\ y = z /\ m = n /\ d = e /\ x = w
  BY <1>1, <1>2, SameQidParts
<1> USE DEF s, y, m, d, x, k, r, z, n, e, w, l
<1>4. sid = oid /\ t.year = u.year /\ t.mon = u.mon /\ t.mday = u.mday
  <2>1. sid = oid
    BY <1>3, SidFacts, Zenon
  <2>2. t.year = u.year
    BY <1>3, Ranges, YearFacts, ZenonT(60)
  <2>3. t.mon = u.mon
    BY <1>3, Ranges, MonthFacts, Zenon
  <2>4. t.mday = u.mday
    BY <1>3, Ranges, FieldFacts, ZenonT(60)
  <2> QED  BY <2>1, <2>2, <2>3, <2>4
<1>5. t.hour = u.hour /\ t.min = u.min /\ t.sec = u.sec
  BY <1>3, TimeFacts, Zenon
<1>6. t = u
  BY <1>4, <1>5 DEF Tm
<1> QED  BY <1>4, <1>6

\* A qid takes twenty-two characters or twenty-three: everybody who reads one
\* takes up to twenty-four.
THEOREM QidFits == \A sid \in SID, t \in Tm : ReadsQid(qid(sid, t))
<1> SUFFICES ASSUME NEW sid \in SID, NEW t \in Tm
             PROVE  ReadsQid(qid(sid, t))
  OBVIOUS
<1>1. qid(sid, t) \in Text(21 + MonthLen(t.mon))
  <2>1. Parts(MonthLen(t.mon), Decimal(sid), Decimal(t.year + Epoch), Field(t.mon, 8),
              Field(t.mday, 9), TimeText(t))
    BY PartsOf, Zenon DEF Parts
  <2> QED  BY <2>1, QidParts, Zenon DEF qid
<1>2. Len(qid(sid, t)) = 21 + MonthLen(t.mon) /\ MonthLen(t.mon) \in 1..2
  BY <1>1, PartsOf, Zenon DEF Text
<1> QED  BY <1>2, SMTT(30) DEF ReadsQid

-----------------------------------------------------------------------------
(* The deadline that is shown.                                             *)

LEMMA TwoDigits ==
  \A n \in Nat : n < 100 => IsDigit(Two(n)[1]) /\ IsDigit(Two(n)[2])
<1> SUFFICES ASSUME NEW n \in Nat, n < 100
             PROVE  IsDigit(Two(n)[1]) /\ IsDigit(Two(n)[2])
  OBVIOUS
<1>1. n \div 10 \in 0..9 /\ n % 10 \in 0..9
  BY Small, Zenon
<1>2. Two(n)[1] = D(n \div 10) /\ Two(n)[2] = D(n % 10)
  BY DEF Two
<1> QED  BY <1>1, <1>2, Zenon DEF IsDigit

LEMMA FieldDigits ==
  \A n \in 0..97 : Field(n, 9) \in Text(2) /\ IsDigit(Field(n, 9)[1]) /\ IsDigit(Field(n, 9)[2])
<1> SUFFICES ASSUME NEW n \in 0..97
             PROVE  /\ Field(n, 9) \in Text(2)
                    /\ IsDigit(Field(n, 9)[1]) /\ IsDigit(Field(n, 9)[2])
  OBVIOUS
<1>1. Field(n, 9) = Two(n + 1) /\ Field(n, 9) \in Text(2)
  BY FieldTwo, FieldFacts, Zenon
<1>2. n + 1 \in Nat /\ n + 1 < 100
  OBVIOUS
<1>3. IsDigit(Two(n + 1)[1]) /\ IsDigit(Two(n + 1)[2])
  BY <1>2, TwoDigits
<1> QED  BY <1>1, <1>3, Zenon

LEMMA YearDigits ==
  \A n \in 70..138 :
    /\ Decimal(n + Epoch) \in Text(4)
    /\ IsDigit(Decimal(n + Epoch)[1]) /\ IsDigit(Decimal(n + Epoch)[2])
    /\ IsDigit(Decimal(n + Epoch)[3]) /\ IsDigit(Decimal(n + Epoch)[4])
<1> SUFFICES ASSUME NEW n \in 70..138
             PROVE  /\ Decimal(n + Epoch) \in Text(4)
                    /\ IsDigit(Decimal(n + Epoch)[1]) /\ IsDigit(Decimal(n + Epoch)[2])
                    /\ IsDigit(Decimal(n + Epoch)[3]) /\ IsDigit(Decimal(n + Epoch)[4])
  OBVIOUS
<1> DEFINE y == n + Epoch
           p == Two(y \div 100)
           q == Two(y % 100)
           s == Decimal(y)
<1>1. y \in Nat /\ y < TenThousand /\ ~(y < 10) /\ ~(y < 100)
  BY Large, Zenon
<1> HIDE DEF y
<1>2. y \div 100 \in Nat /\ y \div 100 < 100 /\ y % 100 \in Nat /\ y % 100 < 100
  BY <1>1, Small
<1>3. /\ p \in Text(2) /\ q \in Text(2)
      /\ IsDigit(p[1]) /\ IsDigit(p[2]) /\ IsDigit(q[1]) /\ IsDigit(q[2])
  BY <1>2, TwoFacts, TwoDigits
<1>4. s = p \o q
  BY <1>1, DecimalIs DEF Four
<1> HIDE DEF p, q, s
<1>5. /\ 2 \in Nat /\ 1 \in 1..2 /\ 2 \in 1..2 /\ 2 + 1 = 3 /\ 2 + 2 = 4
  OBVIOUS
<1>6. (p \o q)[1] = p[1] /\ (p \o q)[2] = p[2] /\ (p \o q)[2 + 1] = q[1] /\ (p \o q)[2 + 2] = q[2]
  BY <1>3, <1>5, Elements, Zenon
<1>7. s[1] = p[1] /\ s[2] = p[2] /\ s[3] = q[1] /\ s[4] = q[2]
  BY <1>4, <1>5, <1>6, Zenon
<1>8. IsDigit(s[1]) /\ IsDigit(s[2]) /\ IsDigit(s[3]) /\ IsDigit(s[4])
  BY <1>3, <1>7, Zenon
<1>9. Decimal(n + Epoch) \in Text(4)
  BY YearFacts, Zenon
<1> USE DEF s, y
<1> QED  BY <1>8, <1>9, Zenon

LEMMA MonthNames ==
  \A m \in 1..12 :
    /\ Month[m] \in Text(3)
    /\ <<Month[m][1], Month[m][2], Month[m][3]>> = Month[m]
<1>1. \A c \in Letters : c \in Char
  BY Zenon DEF Char
<1>2. \A a, b, c \in Letters : <<a, b, c>> \in Text(3)
  BY <1>1, Tuples, Zenon
<1>3. \A m \in 1..12 : \E a, b, c \in Letters : Month[m] = <<a, b, c>>
  <2>1. \A m \in 1..12 : m \in {1, 2, 3, 4, 5, 6, 7, 8, 9, 10, 11, 12}
    OBVIOUS
  <2>2. /\ Month[1] = <<"J", "A", "N">> /\ Month[2] = <<"F", "E", "B">>
        /\ Month[3] = <<"M", "A", "R">> /\ Month[4] = <<"A", "P", "R">>
        /\ Month[5] = <<"M", "A", "Y">> /\ Month[6] = <<"J", "U", "N">>
        /\ Month[7] = <<"J", "U", "L">> /\ Month[8] = <<"A", "U", "G">>
        /\ Month[9] = <<"S", "E", "P">> /\ Month[10] = <<"O", "C", "T">>
        /\ Month[11] = <<"N", "O", "V">> /\ Month[12] = <<"D", "E", "C">>
    BY DEF Month
  <2>3. /\ "J" \in Letters /\ "A" \in Letters /\ "N" \in Letters /\ "F" \in Letters
        /\ "E" \in Letters /\ "B" \in Letters /\ "M" \in Letters /\ "R" \in Letters
        /\ "P" \in Letters /\ "Y" \in Letters /\ "U" \in Letters /\ "L" \in Letters
        /\ "G" \in Letters /\ "S" \in Letters /\ "O" \in Letters /\ "C" \in Letters
        /\ "T" \in Letters /\ "V" \in Letters /\ "D" \in Letters
    BY Zenon DEF Letters
  <2> QED  BY <2>1, <2>2, <2>3
<1>4. \A a, b, c : <<a, b, c>>[1] = a /\ <<a, b, c>>[2] = b /\ <<a, b, c>>[3] = c
  OBVIOUS
<1>5. ASSUME NEW m \in 1..12
      PROVE  /\ Month[m] \in Text(3)
             /\ <<Month[m][1], Month[m][2], Month[m][3]>> = Month[m]
  <2>1. PICK a \in Letters, b \in Letters, c \in Letters : Month[m] = <<a, b, c>>
    BY <1>3, Zenon
  <2>2. Month[m] \in Text(3)
    BY <2>1, <1>2, Zenon
  <2>3. Month[m][1] = a /\ Month[m][2] = b /\ Month[m][3] = c
    BY <2>1
  <2> QED  BY <2>1, <2>2, <2>3, Zenon
<1> QED  BY <1>5, Zenon

LEMMA TimeDigits ==
  \A t \in Tm :
    /\ IsDigit(TimeText(t)[1]) /\ IsDigit(TimeText(t)[2]) /\ TimeText(t)[3] = ":"
    /\ IsDigit(TimeText(t)[4]) /\ IsDigit(TimeText(t)[5]) /\ TimeText(t)[6] = ":"
    /\ IsDigit(TimeText(t)[7]) /\ IsDigit(TimeText(t)[8])
<1> SUFFICES ASSUME NEW t \in Tm
             PROVE  /\ IsDigit(TimeText(t)[1]) /\ IsDigit(TimeText(t)[2]) /\ TimeText(t)[3] = ":"
                    /\ IsDigit(TimeText(t)[4]) /\ IsDigit(TimeText(t)[5]) /\ TimeText(t)[6] = ":"
                    /\ IsDigit(TimeText(t)[7]) /\ IsDigit(TimeText(t)[8])
  OBVIOUS
<1> DEFINE a == Field(t.hour, 9)
           b == Field(t.min, 9)
           c == Field(t.sec, 9)
           p1 == a \o <<":">>
           p2 == p1 \o b
           p3 == p2 \o <<":">>
           x == TimeText(t)
<1>1. /\ a \in Text(2) /\ IsDigit(a[1]) /\ IsDigit(a[2])
      /\ b \in Text(2) /\ IsDigit(b[1]) /\ IsDigit(b[2])
      /\ c \in Text(2) /\ IsDigit(c[1]) /\ IsDigit(c[2])
  <2>1. t.hour \in 0..97 /\ t.min \in 0..97 /\ t.sec \in 0..97
    BY Ranges, ZenonT(60)
  <2>2. a \in Text(2) /\ IsDigit(a[1]) /\ IsDigit(a[2])
    BY <2>1, FieldDigits, Zenon
  <2>3. b \in Text(2) /\ IsDigit(b[1]) /\ IsDigit(b[2])
    BY <2>1, FieldDigits, Zenon
  <2>4. c \in Text(2) /\ IsDigit(c[1]) /\ IsDigit(c[2])
    BY <2>1, FieldDigits, Zenon
  <2> QED  BY <2>2, <2>3, <2>4, Zenon
<1>2. x = p3 \o c
  BY Zenon DEF TimeText
<1> HIDE DEF a, b, c, x
<1>3. p1 \in Text(3) /\ p2 \in Text(5) /\ p3 \in Text(6)
  BY <1>1, TimeParts, Zenon
<1>4. 1 \in Nat /\ 2 \in Nat /\ 3 \in Nat /\ 5 \in Nat /\ 6 \in Nat
  OBVIOUS
<1>5. <<":">>[1] = ":"
  OBVIOUS
<1>6. p1[1] = a[1] /\ p1[2] = a[2] /\ p1[3] = ":"
  <2>1. (\A i \in 1..2 : p1[i] = a[i]) /\ (\A i \in 1..1 : p1[2 + i] = <<":">>[i])
    BY <1>1, <1>4, Marks, Elements, Zenon
  <2> HIDE DEF p1
  <2> QED  BY <2>1, <1>5
<1>7. p2[1] = p1[1] /\ p2[2] = p1[2] /\ p2[3] = p1[3] /\ p2[4] = b[1] /\ p2[5] = b[2]
  <2> HIDE DEF p1
  <2>1. (\A i \in 1..3 : p2[i] = p1[i]) /\ (\A i \in 1..2 : p2[3 + i] = b[i])
    BY <1>1, <1>3, <1>4, Elements, ZenonT(60)
  <2> HIDE DEF p2
  <2> QED  BY <2>1
<1>8. /\ p3[1] = p2[1] /\ p3[2] = p2[2] /\ p3[3] = p2[3] /\ p3[4] = p2[4] /\ p3[5] = p2[5]
      /\ p3[6] = ":"
  <2> HIDE DEF p2
  <2>1. (\A i \in 1..5 : p3[i] = p2[i]) /\ (\A i \in 1..1 : p3[5 + i] = <<":">>[i])
    BY <1>3, <1>4, Marks, Elements, Zenon
  <2> HIDE DEF p3
  <2> QED  BY <2>1, <1>5
<1> HIDE DEF p1, p2, p3
<1>9. /\ x[1] = p3[1] /\ x[2] = p3[2] /\ x[3] = p3[3] /\ x[4] = p3[4] /\ x[5] = p3[5]
      /\ x[6] = p3[6] /\ x[7] = c[1] /\ x[8] = c[2]
  <2>1. (\A i \in 1..6 : (p3 \o c)[i] = p3[i]) /\ (\A i \in 1..2 : (p3 \o c)[6 + i] = c[i])
    BY <1>1, <1>3, <1>4, Elements, Zenon
  <2>2. (\A i \in 1..6 : x[i] = p3[i]) /\ (\A i \in 1..2 : x[6 + i] = c[i])
    BY <2>1, <1>2, Zenon
  <2> QED  BY <2>2
<1>10. /\ IsDigit(x[1]) /\ IsDigit(x[2]) /\ x[3] = ":" /\ IsDigit(x[4]) /\ IsDigit(x[5])
       /\ x[6] = ":" /\ IsDigit(x[7]) /\ IsDigit(x[8])
  BY <1>1, <1>6, <1>7, <1>8, <1>9, Zenon
<1> USE DEF x
<1> QED  BY <1>10, Zenon

\* The checks UserManager::request makes of a deadline let every deadline pass
\* that toStringDeadline() writes, whatever the time.
THEOREM DeadlineIsRead == \A t \in Tm : ReadsDeadline(toStringDeadline(t))
<1> SUFFICES ASSUME NEW t \in Tm
             PROVE  ReadsDeadline(toStringDeadline(t))
  OBVIOUS
<1> DEFINE d == Field(t.mday, 9)
           m == Month[t.mon + 1]
           y == Decimal(t.year + Epoch)
           x == TimeText(t)
           p1 == d \o m
           p2 == p1 \o y
           p3 == p2 \o <<"_">>
           s == toStringDeadline(t)
<1>1. t.mday \in 0..97 /\ t.mon + 1 \in 1..12 /\ t.year \in 70..138
  <2>1. t.mday \in 0..97 /\ t.mon \in 0..11 /\ t.year \in 70..138
    BY Ranges, ZenonT(60)
  <2> QED  BY <2>1
<1>2. d \in Text(2) /\ IsDigit(d[1]) /\ IsDigit(d[2])
  BY <1>1, FieldDigits, Zenon
<1>3. m \in Text(3) /\ <<m[1], m[2], m[3]>> = m
  BY <1>1, MonthNames, Zenon
<1>4. y \in Text(4) /\ IsDigit(y[1]) /\ IsDigit(y[2]) /\ IsDigit(y[3]) /\ IsDigit(y[4])
  BY <1>1, YearDigits, Zenon
<1>5. /\ x \in Text(8)
      /\ IsDigit(x[1]) /\ IsDigit(x[2]) /\ x[3] = ":" /\ IsDigit(x[4]) /\ IsDigit(x[5])
      /\ x[6] = ":" /\ IsDigit(x[7]) /\ IsDigit(x[8])
  BY TimeFacts, TimeDigits, Zenon
<1>6. s = p3 \o x
  BY Zenon DEF toStringDeadline
<1>7. m = Month[t.mon + 1]
  OBVIOUS
<1> HIDE DEF d, m, y, x, s
<1>8. /\ 1 \in Nat /\ 2 \in Nat /\ 3 \in Nat /\ 4 \in Nat /\ 5 \in Nat /\ 8 \in Nat
      /\ 9 \in Nat /\ 10 \in Nat /\ 2 + 3 = 5 /\ 5 + 4 = 9 /\ 9 + 1 = 10 /\ 10 + 8 = 18
  OBVIOUS
<1>9. p1 \in Text(5)
  <2>1. p1 \in Text(2 + 3)
    BY <1>2, <1>3, <1>8, JoinedTexts, Zenon
  <2> QED  BY <2>1, <1>8, Zenon
<1>10. (\A i \in 1..2 : p1[i] = d[i]) /\ (\A i \in 1..3 : p1[2 + i] = m[i])
  BY <1>2, <1>3, <1>8, Elements, ZenonT(60)
<1> HIDE DEF p1
<1>11. p2 \in Text(9)
  <2>1. p2 \in Text(5 + 4)
    BY <1>4, <1>8, <1>9, JoinedTexts, Zenon
  <2> QED  BY <2>1, <1>8, Zenon
<1>12. (\A i \in 1..5 : p2[i] = p1[i]) /\ (\A i \in 1..4 : p2[5 + i] = y[i])
  BY <1>4, <1>8, <1>9, Elements, ZenonT(60)
<1> HIDE DEF p2
<1>13. p3 \in Text(10)
  <2>1. p3 \in Text(9 + 1)
    BY <1>8, <1>11, Marks, JoinedTexts, Zenon
  <2> QED  BY <2>1, <1>8, Zenon
<1> DEFINE u == "_"
<1>14. (\A i \in 1..9 : p3[i] = p2[i]) /\ (\A i \in 1..1 : p3[9 + i] = <<u>>[i])
  BY <1>8, <1>11, Marks, Elements, ZenonT(60)
<1> HIDE DEF p3
<1>15. s \in Text(18)
  <2>1. s \in Text(10 + 8)
    BY <1>5, <1>6, <1>8, <1>13, JoinedTexts, Zenon
  <2> QED  BY <2>1, <1>8, Zenon
<1>16. (\A i \in 1..10 : s[i] = p3[i]) /\ (\A i \in 1..8 : s[10 + i] = x[i])
  <2>1. (\A i \in 1..10 : (p3 \o x)[i] = p3[i]) /\ (\A i \in 1..8 : (p3 \o x)[10 + i] = x[i])
    BY <1>5, <1>8, <1>13, Elements, ZenonT(60)
  <2> QED  BY <2>1, <1>6, Zenon
<1> HIDE DEF u
<1>17. p3[10] = u
  BY <1>14
<1>18. /\ s[1] = d[1] /\ s[2] = d[2] /\ s[3] = m[1] /\ s[4] = m[2] /\ s[5] = m[3]
       /\ s[6] = y[1] /\ s[7] = y[2] /\ s[8] = y[3] /\ s[9] = y[4] /\ s[10] = u
       /\ s[11] = x[1] /\ s[12] = x[2] /\ s[13] = x[3] /\ s[14] = x[4] /\ s[15] = x[5]
       /\ s[16] = x[6] /\ s[17] = x[7] /\ s[18] = x[8]
  <2>1. /\ p1[1] = d[1] /\ p1[2] = d[2] /\ p1[3] = m[1] /\ p1[4] = m[2] /\ p1[5] = m[3]
    BY <1>10
  <2>2. /\ p2[1] = p1[1] /\ p2[2] = p1[2] /\ p2[3] = p1[3] /\ p2[4] = p1[4] /\ p2[5] = p1[5]
        /\ p2[6] = y[1] /\ p2[7] = y[2] /\ p2[8] = y[3] /\ p2[9] = y[4]
    BY <1>12
  <2>3. /\ p3[1] = p2[1] /\ p3[2] = p2[2] /\ p3[3] = p2[3] /\ p3[4] = p2[4] /\ p3[5] = p2[5]
        /\ p3[6] = p2[6] /\ p3[7] = p2[7] /\ p3[8] = p2[8] /\ p3[9] = p2[9]
    BY <1>14
  <2>4. /\ s[1] = p3[1] /\ s[2] = p3[2] /\ s[3] = p3[3] /\ s[4] = p3[4] /\ s[5] = p3[5]
        /\ s[6] = p3[6] /\ s[7] = p3[7] /\ s[8] = p3[8] /\ s[9] = p3[9] /\ s[10] = p3[10]
        /\ s[11] = x[1] /\ s[12] = x[2] /\ s[13] = x[3] /\ s[14] = x[4] /\ s[15] = x[5]
        /\ s[16] = x[6] /\ s[17] = x[7] /\ s[18] = x[8]
    BY <1>16
  <2> QED  BY <2>1, <2>2, <2>3, <2>4, <1>17, Zenon
<1>19. Len(s) = 18
  BY <1>15, Zenon DEF Text
<1>20. \A i \in {1, 2, 6, 7, 8, 9, 11, 12, 14, 15, 17, 18} : IsDigit(s[i])
  <2>1. /\ IsDigit(s[1]) /\ IsDigit(s[2]) /\ IsDigit(s[6]) /\ IsDigit(s[7]) /\ IsDigit(s[8])
        /\ IsDigit(s[9]) /\ IsDigit(s[11]) /\ IsDigit(s[12]) /\ IsDigit(s[14])
        /\ IsDigit(s[15]) /\ IsDigit(s[17]) /\ IsDigit(s[18])
    BY <1>2, <1>4, <1>5, <1>18, Zenon
  <2> QED  BY <2>1, Zenon
<1>21. <<s[3], s[4], s[5]>> = Month[t.mon + 1]
  BY <1>3, <1>7, <1>18, Zenon
<1>22. s[10] = "_" /\ s[13] = ":" /\ s[16] = ":"
  BY <1>5, <1>18, Zenon DEF u
<1>23. ReadsDeadline(s)
  BY <1>1, <1>19, <1>20, <1>21, <1>22, Zenon DEF ReadsDeadline
<1> QED  BY <1>23, Zenon DEF s

-----------------------------------------------------------------------------
(* The invariant: whatever is kept or was told under a qid was made by      *)
(* qid() from the student it is kept for.                                   *)

CurMade == cur # None =>
  cur.sid \in SID /\ cur.at \in Tm /\ cur.qid = qid(cur.sid, cur.at)

QuizzesMade ==
  /\ quizzes = [q \in DOMAIN quizzes |-> quizzes[q]]
  /\ \A q \in DOMAIN quizzes : quizzes[q] \in SID /\ \E t \in Tm : q = qid(quizzes[q], t)

ToldMade == \A x \in told :
  /\ x.sid \in SID /\ x.at \in Tm /\ x.qid = qid(x.sid, x.at)
  /\ \E t \in Tm : x.shown = toStringDeadline(t)

MadeInv == clock \in Instants /\ CurMade /\ QuizzesMade /\ ToldMade

LEMMA LocalTm == \A i \in Instants : Local[i] \in Tm
<1>1. Local \in [Instants -> Tm]
  BY DatesAssumption, Zenon
<1> QED  BY <1>1, Zenon

LEMMA SidsAreSid == \A sid \in Sids : sid \in SID
BY DatesAssumption, Zenon

LEMMA MadeInit == Init => MadeInv
<1> SUFFICES ASSUME Init
             PROVE  MadeInv
  OBVIOUS
<1>1. clock \in Instants /\ CurMade /\ ToldMade
  BY DEF Init, CurMade, ToldMade
<1>2. QuizzesMade
  BY DEF Init, QuizzesMade
<1> QED  BY <1>1, <1>2 DEF MadeInv

LEMMA MadeNext == MadeInv /\ [Next]_vars => MadeInv'
<1> SUFFICES ASSUME MadeInv, [Next]_vars
             PROVE  MadeInv'
  OBVIOUS
<1> USE DEF MadeInv
<1>1. CASE Tick
  <2>1. clock' \in Instants /\ UNCHANGED <<cur, quizzes, told>>
    BY <1>1 DEF Tick
  <2> QED  BY <2>1 DEF CurMade, QuizzesMade, ToldMade
<1>2. CASE Register
  <2>1. clock' \in Instants
    BY <1>2 DEF Register
  <2>2. CurMade'
    BY <1>2 DEF Register, CurMade
  <2>3. cur.sid \in SID /\ cur.at \in Tm /\ cur.qid = qid(cur.sid, cur.at)
    BY <1>2 DEF Register, CurMade
  <2>4. QuizzesMade'
    <3>1. quizzes' = [q \in DOMAIN quizzes \cup {cur.qid} |->
                        IF q = cur.qid THEN cur.sid ELSE quizzes[q]]
      BY <1>2 DEF Register
    <3>2. DOMAIN quizzes' = DOMAIN quizzes \cup {cur.qid}
      BY <3>1
    <3>3. ASSUME NEW q \in DOMAIN quizzes'
          PROVE  quizzes'[q] \in SID /\ \E t \in Tm : q = qid(quizzes'[q], t)
      <4>1. CASE q = cur.qid
        <5>1. quizzes'[q] = cur.sid
          BY <3>1, <3>2, <4>1
        <5> QED  BY <5>1, <4>1, <2>3, Zenon
      <4>2. CASE q # cur.qid
        <5>1. quizzes'[q] = quizzes[q] /\ q \in DOMAIN quizzes
          BY <3>1, <3>2, <4>2
        <5> QED  BY <5>1, Zenon DEF QuizzesMade
      <4> QED  BY <4>1, <4>2
    <3>4. quizzes' = [q \in DOMAIN quizzes' |-> quizzes'[q]]
      BY <3>1, <3>2
    <3> QED  BY <3>3, <3>4 DEF QuizzesMade
  <2>5. ToldMade'
    <3> DEFINE new == [sid |-> cur.sid, at |-> cur.at, qid |-> cur.qid,
                       shown |-> toStringDeadline(Local[clock])]
    <3>1. told' = told \cup {new}
      BY <1>2 DEF Register
    <3>2. new.sid = cur.sid /\ new.at = cur.at /\ new.qid = cur.qid
          /\ new.shown = toStringDeadline(Local[clock])
      OBVIOUS
    <3>3. Local[clock] \in Tm
      BY LocalTm, Zenon
    <3> HIDE DEF new
    <3>4. /\ new.sid \in SID /\ new.at \in Tm /\ new.qid = qid(new.sid, new.at)
          /\ \E t \in Tm : new.shown = toStringDeadline(t)
      BY <3>2, <3>3, <2>3, Zenon
    <3> QED  BY <3>1, <3>4, Zenon DEF ToldMade
  <2> QED  BY <2>1, <2>2, <2>4, <2>5
<1>3. ASSUME NEW sid \in Sids, TakeQid(sid)
      PROVE  MadeInv'
  <2>1. /\ UNCHANGED <<clock, quizzes, told>>
        /\ cur' = [sid |-> sid, at |-> Local[clock], qid |-> qid(sid, Local[clock])]
    BY <1>3 DEF TakeQid
  <2>2. cur'.sid = sid /\ cur'.at = Local[clock] /\ cur'.qid = qid(sid, Local[clock])
    BY <2>1
  <2>3. CurMade'
    BY <2>2, LocalTm, SidsAreSid, Zenon DEF CurMade
  <2>4. clock' \in Instants /\ QuizzesMade' /\ ToldMade'
    BY <2>1 DEF QuizzesMade, ToldMade
  <2> QED  BY <2>3, <2>4
<1>4. ASSUME NEW text \in DOMAIN quizzes, Submit(text)
      PROVE  MadeInv'
  <2>1. /\ UNCHANGED <<clock, cur, told>>
        /\ quizzes' = [q \in DOMAIN quizzes \ {text} |-> quizzes[q]]
    BY <1>4 DEF Submit
  <2>2. clock' \in Instants /\ CurMade' /\ ToldMade'
    BY <2>1 DEF CurMade, ToldMade
  <2>3. QuizzesMade'
    <3>1. DOMAIN quizzes' = DOMAIN quizzes \ {text}
      BY <2>1
    <3>2. \A q \in DOMAIN quizzes' : q \in DOMAIN quizzes /\ quizzes'[q] = quizzes[q]
      BY <2>1, <3>1
    <3>3. quizzes' = [q \in DOMAIN quizzes' |-> quizzes'[q]]
      BY <2>1, <3>1
    <3> QED  BY <3>2, <3>3 DEF QuizzesMade
  <2> QED  BY <2>2, <2>3
<1>5. CASE UNCHANGED vars
  BY <1>5 DEF vars, CurMade, QuizzesMade, ToldMade
<1> QED  BY <1>1, <1>2, <1>3, <1>4, <1>5 DEF Next

LEMMA MadeAlways == Spec => []MadeInv
<1>1. Init => MadeInv
  BY MadeInit
<1>2. MadeInv /\ [Next]_vars => MadeInv'
  BY MadeNext
<1> QED  BY <1>1, <1>2, PTL DEF Spec

\* For any students and any moments, in any order of requests, ticks of the
\* clock and submissions: students who were told the same qid are one, who got
\* both questionnaires in one second, and the quiz kept under it is theirs.
THEOREM OneStudentPerQidAlways == Spec => []OneStudentPerQid
<1>1. MadeInv => OneStudentPerQid
  <2> SUFFICES ASSUME MadeInv, NEW x \in told
               PROVE  /\ x.qid \in DOMAIN quizzes => quizzes[x.qid] = x.sid
                      /\ \A y \in told : y.qid = x.qid => y.sid = x.sid /\ y.at = x.at
    BY Zenon DEF OneStudentPerQid
  <2>1. x.sid \in SID /\ x.at \in Tm /\ x.qid = qid(x.sid, x.at)
    BY Zenon DEF MadeInv, ToldMade
  <2>2. ASSUME x.qid \in DOMAIN quizzes
        PROVE  quizzes[x.qid] = x.sid
    <3>1. PICK t \in Tm : x.qid = qid(quizzes[x.qid], t)
      BY <2>2, Zenon DEF MadeInv, QuizzesMade
    <3>2. quizzes[x.qid] \in SID
      BY <2>2, Zenon DEF MadeInv, QuizzesMade
    <3>3. qid(quizzes[x.qid], t) = qid(x.sid, x.at)
      BY <3>1, <2>1, Zenon
    <3> QED  BY <3>2, <3>3, <2>1, QidTellsApart
  <2>3. ASSUME NEW y \in told, y.qid = x.qid
        PROVE  y.sid = x.sid /\ y.at = x.at
    <3>1. y.sid \in SID /\ y.at \in Tm /\ y.qid = qid(y.sid, y.at)
      BY Zenon DEF MadeInv, ToldMade
    <3>2. qid(y.sid, y.at) = qid(x.sid, x.at)
      BY <3>1, <2>1, <2>3, Zenon
    <3> QED  BY <3>1, <3>2, <2>1, QidTellsApart
  <2> QED  BY <2>2, <2>3, Zenon
<1> QED  BY <1>1, MadeAlways, PTL

\* Whatever the topic server answers to TQR, the qid and the deadline in it pass
\* every check on their way.
THEOREM ReadByAllAlways == Spec => []ReadByAll
<1>1. MadeInv => ReadByAll
  <2> SUFFICES ASSUME MadeInv, NEW x \in told
               PROVE  ReadsQid(x.qid) /\ ReadsDeadline(x.shown)
    BY Zenon DEF ReadByAll
  <2>1. /\ x.sid \in SID /\ x.at \in Tm /\ x.qid = qid(x.sid, x.at)
        /\ \E t \in Tm : x.shown = toStringDeadline(t)
    BY Zenon DEF MadeInv, ToldMade
  <2>2. ReadsQid(x.qid)
    BY <2>1, QidFits, Zenon
  <2>3. ReadsDeadline(x.shown)
    BY <2>1, DeadlineIsRead, Zenon
  <2> QED  BY <2>2, <2>3
<1> QED  BY <1>1, MadeAlways, PTL
=============================================================================
