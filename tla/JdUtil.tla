-------------------------------- MODULE JdUtil --------------------------------
(***************************************************************************)
(* The algorithms of source/jd_util.c, source/jd_numfmt.c,                 *)
(* services/jd_env.c and storage/crc32.c, each compared with what it       *)
(* stands for: checksums, formatting into a buffer, numbers and            *)
(* hexadecimal text, sampling times, delays chosen at random, numbers with *)
(* a binary point, tables of errors.                                       *)
(*                                                                         *)
(* Text is a sequence of digits or marks.  Machine words have W values     *)
(* where 2^32 would not fit, so that every wrap is met.  A floating-point  *)
(* number is n * 10^e, and calculated with exactly.                        *)
(***************************************************************************)
EXTENDS Integers, Sequences, SequencesExt, Bitwise

CONSTANTS W,          \* values of a machine word
          Calls       \* what is called, with which input

VARIABLES call,   \* the function and its input
          out     \* its result, once it has returned; <<>> before

vars == <<call, out>>

Smaller(x, y) == IF x < y THEN x ELSE y
Word(n) == n % W
Signed(n) == IF n % W < W \div 2 THEN n % W ELSE (n % W) - W

-----------------------------------------------------------------------------
(* Checksums.                                                              *)

\* Mutant: the low half of the index is not folded in.
Crc16StepFlat(crc, byte) ==
  LET x == (crc \div 256) ^^ byte IN
  (((crc * 256) % 65536) ^^ ((x * 4096) % 65536)) ^^ ((x * 32) ^^ x)

\* A byte at a time, without a table.
Crc16Step(crc, byte) ==
  LET x0 == (crc \div 256) ^^ byte
      x == x0 ^^ (x0 \div 16)
  IN  (((crc * 256) % 65536) ^^ ((x * 4096) % 65536)) ^^ (((x * 32) % 65536) ^^ x)

jd_crc16(data) == FoldLeft(Crc16Step, 65535, data)

crc7tab(byte) ==
  FoldLeft(LAMBDA c, i : ((IF c >= 128 THEN c ^^ 137 ELSE c) * 2) % 256, byte, <<1, 2, 3, 4, 5, 6, 7, 8>>) \div 2

jd_sd_crc7(data) == 2 * FoldLeft(LAMBDA crc, byte : crc7tab(byte ^^ ((crc * 2) % 256)), 0, data) + 1

\* Long division, bit by bit: the remainder of (start, data) by x^n + poly.
Divided(start, poly, n, data) ==
  LET bits == FlattenSeq([i \in DOMAIN data |-> [b \in 1..8 |-> (data[i] \div 2^(8 - b)) % 2]])
      step(r, bit) == LET top == (r \div 2^(n - 1)) % 2
                          r1 == (2 * r) % 2^n
                      IN  IF top # bit THEN r1 ^^ poly ELSE r1
  IN  FoldLeft(step, start, bits)

-----------------------------------------------------------------------------
(* Formatting into a buffer of a given size: pieces are written in turn.   *)

write_n(ctx, src) ==
  LET left == ctx.size - ctx.dst
      trimmed == IF Len(src) >= left THEN left - 1 ELSE Len(src)
  IN  [ctx EXCEPT !.dst = @ + Len(src),
                  !.buf = IF left <= 0 THEN @
                          ELSE [i \in DOMAIN @ |-> IF i <= ctx.dst THEN @[i]
                                                      ELSE IF i <= ctx.dst + trimmed THEN src[i - ctx.dst]
                                                      ELSE IF i = ctx.dst + trimmed + 1 THEN 0 ELSE @[i]]]

\* The buffer starts with something else in it, and so does what lies behind it; the
\* result counts the terminating zero.
jd_vsprintf(size, pieces) ==
  LET end == FoldLeft(write_n, [dst |-> 0, size |-> size, buf |-> [i \in 1..(size + 4) |-> -1]], pieces)
  IN  [ret |-> end.dst + 1, buf |-> end.buf]

\* Measures, then writes.
jd_vsprintf_a(pieces) == jd_vsprintf(jd_vsprintf(0, pieces).ret, pieces)

-----------------------------------------------------------------------------
(* Numbers and hexadecimal text.  -1 is a minus sign, 16 a separator.      *)

RECURSIVE Reversed(_)
Reversed(k) == IF k < 10 THEN <<k>> ELSE <<k % 10>> \o Reversed(k \div 10)

jd_utoa(k) == Reverse(Reversed(Word(k)))

jd_itoa(n) == IF n < 0 THEN <<-1>> \o jd_utoa(-n) ELSE jd_utoa(n)

jd_atoi(s) ==
  LET neg == s[1] = -1
      r == FoldLeft(LAMBDA v, d : Signed(10 * v + d), 0, IF neg THEN Tail(s) ELSE s)
  IN  IF neg THEN Signed(-r) ELSE r

jd_to_hex(data) == FlattenSeq([i \in DOMAIN data |-> <<data[i] \div 16, data[i] % 16>>])

\* Separators are skipped wherever they are; a last lone digit is dropped.
jd_from_hex(src) ==
  LET step(st, c) == CASE c = 16 -> st
                       [] c # 16 /\ st.prev < 0 -> [st EXCEPT !.prev = c]
                       [] OTHER -> [prev |-> -1, dst |-> Append(st.dst, 16 * st.prev + c)]
  IN  FoldLeft(step, [prev |-> -1, dst |-> <<>>], src).dst

Plain(c) == c < 100   \* a letter, a digit or one of - . _ ~

urlencode_core(src) ==
  FlattenSeq([i \in DOMAIN src |-> IF Plain(src[i]) THEN <<src[i]>> ELSE <<-37>> \o jd_to_hex(<<src[i]>>)])

\* The length that is allocated, counted without writing.
UrlLength(src) == 1 + FoldLeft(LAMBDA n, c : n + (IF Plain(c) THEN 1 ELSE 3), 0, src)

\* The pieces one after the other, in as many bytes as they have together.
jd_concat_many(parts) ==
  LET len == FoldLeft(LAMBDA n, part : n + Len(part), 0, parts) IN
  FoldLeft(LAMBDA st, part : [dst |-> [i \in 1..(len + 1) |-> IF i \in (st.len + 1)..(st.len + Len(part))
                                                              THEN part[i - st.len] ELSE st.dst[i]],
                              len |-> st.len + Len(part)],
           [dst |-> [i \in 1..(len + 1) |-> 0], len |-> 0], parts).dst

-----------------------------------------------------------------------------
(* Decimal text of a floating-point number n * 10^e.  16 is the decimal    *)
(* point.  Products with powers of ten are taken to be exact.              *)

MAXDIGITS == 15
POINT == 16

Digits(n) == Reverse(Reversed(n))
Zeros(k) == [i \in 1..k |-> 0]

\* (int)log10(n * 10^e), which drops the fraction.
Log10(n, e) ==
  LET k == Len(Digits(n)) - 1 + e IN
  IF k < 0 /\ n # 10^(Len(Digits(n)) - 1) THEN k + 1 ELSE k

\* (uint64_t)(n * 10^e + 0.5), e < 0
Rounded(n, e) == (2 * n + 10^(-e)) \div (2 * 10^(-e))

\* dd in as many digits as are printed.  The first one is ten when rounding has carried
\* into one more digit: ':' is printed for it.
Normalized(n, e, numdigits) ==
  LET dd == IF e >= 0 THEN Digits(n) \o Zeros(e) ELSE Digits(Rounded(n, e)) IN
  IF Len(dd) > numdigits THEN <<10 * dd[1] + dd[2]>> \o SubSeq(dd, 3, Len(dd))
  ELSE Zeros(numdigits - Len(dd)) \o dd

\* The digits up to where only zeroes are left behind the point.
NumberDigits(dd, dotAfter) ==
  LET stop == {j \in DOMAIN dd : (j >= dotAfter /\ \A i \in j + 1..Len(dd) : dd[i] = 0) \/ j = Len(dd)}
      last == CHOOSE j \in stop : \A i \in stop : j <= i
  IN  [j \in 1..(IF dotAfter \in 1..(last - 1) THEN last + 1 ELSE last) |->
         IF dotAfter < 1 \/ j <= dotAfter THEN dd[j] ELSE IF j = dotAfter + 1 THEN POINT ELSE dd[j - 1]]

\* How many digits are printed: those asked for, at least four, and a whole number in full.
NumDigits(pw, digits) ==
  LET asked == IF digits < 4 THEN 4 ELSE Smaller(digits, MAXDIGITS) IN
  IF pw >= asked THEN Smaller(pw + 1, MAXDIGITS) ELSE asked

\* Outside of 1e-6 to 1e21 it is printed with an exponent.
Scientific(n, e) ==
  LET size == Len(Digits(n)) - 1 + e IN size < -6 \/ size > 21 \/ (size = 21 /\ n # 10^(Len(Digits(n)) - 1))

jd_print_double(n, ex, digits) ==
  LET pw0 == Log10(n, ex)
      sci == Scientific(n, ex)
      e == IF sci THEN ex - pw0 ELSE ex
      pw == IF sci THEN 0 ELSE pw0
      numdigits == NumDigits(pw, digits)
      trailingZ == IF pw >= numdigits THEN pw - numdigits + 1 ELSE 0
      dotAfter == pw + 1
      dd == Normalized(n, e + (IF trailingZ > 0 THEN -trailingZ ELSE numdigits - pw - 1), numdigits)
  IN  [text |-> (IF dotAfter < 1 THEN <<0, POINT>> \o Zeros(-dotAfter) ELSE <<>>)
                \o NumberDigits(dd, dotAfter) \o Zeros(trailingZ),
       exp |-> IF sci THEN pw0 ELSE 0]

-----------------------------------------------------------------------------
(* Tables of pairs, a value and its error, in ascending order of values.   *)

\* Division in C drops the fraction.
Quotient(a, b) == IF a >= 0 THEN a \div b ELSE -((-a) \div b)

env_extrapolate_error(value, table) ==
  LET above == {i \in 2..Len(table) : value <= table[i][1]}
      i == CHOOSE k \in above : \A j \in above : k <= j
      size == table[i][1] - table[i - 1][1]
      pos == value - table[i - 1][1]
  IN  IF value < table[1][1] THEN table[1][2]
      ELSE IF above = {} THEN table[Len(table)][2]
      ELSE Quotient(pos * (table[i][2] - table[i - 1][2]), size) + table[i - 1][2]

\* Grams per cubic metre at full saturation, by temperature; both in units of 1/1024,
\* tenths dropped in the conversion to an integer.
abs_hum ==
  [i \in 1..16 |-> <<1024 * (5 * i - 30), (1024 * <<6, 9, 16, 23, 34, 48, 68, 94, 128, 173,
                                                   230, 304, 396, 511, 654, 830>>[i]) \div 10>>]

\* Humidity is a whole percentage here, which the code has in units of 1/1024: the
\* product is one of 32 bits.
env_absolute_humidity(temp, percent) ==
  LET product == (env_extrapolate_error(temp, abs_hum) * percent) % 2^22
      signed == IF product < 2^21 THEN product ELSE product - 2^22
  IN  Quotient(signed * 1024, 100) \div 1024

-----------------------------------------------------------------------------
(* Time.  Polls come after the given gaps, from a moment on.               *)

is_before(a, b) == Word(b - a) < W \div 2
in_future(now, moment) == is_before(now, moment)

jd_should_sample(st, gap) ==
  LET now == Word(st.now + gap)
      next == Word(st.sample + st.period)
  IN  IF in_future(now, st.sample) THEN [st EXCEPT !.now = now, !.yes = Append(@, FALSE)]
      ELSE [st EXCEPT !.now = now, !.yes = Append(@, TRUE),
                      !.sample = IF in_future(now, next) THEN next ELSE Word(now + st.period)]

\* The same with a clock that never wraps; at the very moment it is still to come.
Sampled(st, gap) ==
  LET now == st.now + gap IN
  IF st.sample >= now THEN [st EXCEPT !.now = now, !.yes = Append(@, FALSE)]
  ELSE [st EXCEPT !.now = now, !.yes = Append(@, TRUE),
                  !.sample = IF st.sample + st.period >= now THEN @ + st.period ELSE now + st.period]

Polls(f(_, _), c) ==
  FoldLeft(f, [now |-> c.start, sample |-> c.start + c.period, period |-> c.period, yes |-> <<>>], c.gaps).yes

Mask(v) == CHOOSE k \in {2^i - 1 : i \in 0..28} : k <= v /\ (2 * k + 1 > v \/ k = 2^28 - 1)

\* The least and the greatest that jd_random_around may return.
jd_random_around(v) ==
  LET least == v - (Mask(v) \div 2) IN [least |-> least, greatest |-> least + Mask(v)]

-----------------------------------------------------------------------------
(* Formats: signed or not, bits, shift.  q counts sixteenths.              *)

Least(f) == IF f.signed THEN -(2^(f.bits - 1)) ELSE 0
Greatest(f) == IF f.signed THEN 2^(f.bits - 1) - 1 ELSE 2^f.bits - 1

ClampInt(v, l, h) == IF v < l THEN l ELSE IF v > h THEN h ELSE v

\* A conversion to an integer drops the fraction.
Truncated(s) == IF s >= 0 THEN s \div 16 ELSE -((-s) \div 16)

\* clamp_double, which adds a half to round, and the conversion.
clamp_double(s, l, h) == IF s < 16 * l THEN l ELSE IF s > 16 * h THEN h ELSE Truncated(s + 8)

\* The wide formats are clamped once, the others to a word first.
jd_numfmt_write_float(f, q) ==
  LET s == q * 2^f.shift IN
  IF f.wide THEN clamp_double(s, Least(f), Greatest(f))
  ELSE ClampInt(clamp_double(s, -(W \div 2), (W \div 2) - 1), Least(f), Greatest(f))

jd_numfmt_read_float(f, data) == (16 * data) \div 2^f.shift

-----------------------------------------------------------------------------
\* What the called function computes.
Result(c) ==
  CASE c.fn = "crc16" -> jd_crc16(c.data)
    [] c.fn = "crc7" -> jd_sd_crc7(c.data)
    [] c.fn = "sprintf" -> jd_vsprintf(c.size, c.pieces)
    [] c.fn = "sprintf_a" -> jd_vsprintf_a(c.pieces)
    [] c.fn = "itoa" -> jd_itoa(c.n)
    [] c.fn = "from_hex" -> jd_from_hex(c.src)
    [] c.fn = "urlencode" -> urlencode_core(c.src)
    [] c.fn = "sample" -> Polls(jd_should_sample, c)
    [] c.fn = "around" -> jd_random_around(c.n)
    [] c.fn = "concat" -> jd_concat_many(c.pieces)
    [] c.fn = "double" -> jd_print_double(c.n, c.e, c.digits)
    [] c.fn = "error" -> env_extrapolate_error(c.n, c.table)
    [] c.fn = "humidity" -> env_absolute_humidity(c.n, c.percent)
    [] c.fn = "numfmt" -> jd_numfmt_read_float(c.fmt, jd_numfmt_write_float(c.fmt, c.n))

Init == call \in Calls /\ out = <<>>

Return ==
  /\ out = <<>>
  /\ out' = <<Result(call)>>
  /\ UNCHANGED call

Next == Return

Spec == Init /\ [][Next]_vars

-----------------------------------------------------------------------------
\* A number that is not negative comes back as the nearest the format holds, and a
\* larger one as its greatest.  A negative one comes back one step too high, an exact
\* one too: a half is added to it as well, and the fraction dropped towards zero.  Only
\* one below the least the format holds comes back as that.
Kept(c, r) ==
  LET step == 16 \div 2^c.fmt.shift
      units == (2 * c.n + step) \div (2 * step)
      least == IF c.fmt.wide THEN Least(c.fmt) ELSE -(W \div 2)
      half == (2 * c.n) % (2 * step) = step
      kept == IF c.n >= 0 \/ c.n < least * step THEN units
              ELSE IF half THEN units ELSE Smaller(units + 1, 0)
  IN  r = ClampInt(kept, Least(c.fmt), Greatest(c.fmt)) * step

\* Drops zeroes at the end of <<m, x>>, which stands for m * 10^x.
Stripped(m, x) ==
  LET ds == Digits(m)
      used == {i \in DOMAIN ds : ds[i] # 0}
      last == CHOOSE i \in used : \A j \in used : j <= i
  IN  <<SubSeq(ds, 1, last), x + Len(ds) - last>>

\* The number a text stands for; a first digit that is ten counts as ten.
ReadBack(r) ==
  LET point == {i \in DOMAIN r.text : r.text[i] = POINT}
      digits == SelectSeq(r.text, LAMBDA d : d # POINT)
      after == IF point = {} THEN 0 ELSE Len(r.text) - (CHOOSE i \in point : TRUE)
      used == {i \in DOMAIN digits : digits[i] # 0}
      last == CHOOSE i \in used : \A j \in used : j <= i
  IN  Stripped(FoldLeft(LAMBDA v, d : 10 * v + d, 0, SubSeq(digits, 1, last)),
               Len(digits) - last - after + r.exp)

\* The text is the number rounded to the last digit that is printed.  It is not one when
\* rounding has made a power of ten of the number: then its first digit is ':', for ten.
Reads(c, r) ==
  LET pw == Log10(c.n, c.e)
      unit == pw - NumDigits(IF Scientific(c.n, c.e) THEN 0 ELSE pw, c.digits) + 1
  IN  /\ ReadBack(r) = IF unit <= c.e THEN Stripped(c.n, c.e) ELSE Stripped(Rounded(c.n, c.e - unit), unit)
      /\ \A i \in DOMAIN r.text : r.text[i] >= 10 /\ r.text[i] # POINT =>
           i = 1 /\ r.text[i] = 10 /\ ReadBack(r)[1] = <<1>> /\ unit > c.e

\* Between two entries of a table, and on them, the result is between theirs.
Between(v, table, r) ==
  /\ \A i \in DOMAIN table : v = table[i][1] => r = table[i][2]
  /\ \A i \in 2..Len(table) :
       v \in table[i - 1][1]..table[i][1] =>
         \/ r \in table[i - 1][2]..table[i][2]
         \/ r \in table[i][2]..table[i - 1][2]

\* Every algorithm computes what it stands for: the checksums are the remainders
\* of their polynomials; formatted text is the pieces, cut where the buffer ends
\* but for a terminating zero, nothing beyond that touched and its full length
\* returned; numbers and bytes written as text are read back; sampling does not
\* notice that the clock wraps; a random delay has what is asked in its middle, and is
\* spread over at least half and at most all of it: by a quarter either way ("v +/- 25%
\* or so", jd_util.c) or by up to a half, and by less only where the mask ends; an
\* error is between those of its neighbours in the table, and humid air holds no more
\* water than saturated air, where 32 bits hold the product.
Computes ==
  out # <<>> =>
    LET r == out[1]
        c == call
        text == FlattenSeq(c.pieces)
    IN  CASE c.fn = "crc16" -> r = Divided(65535, 4129, 16, c.data)
          [] c.fn = "crc7" -> r = 2 * Divided(0, 9, 7, c.data) + 1
          [] c.fn = "sprintf" ->
               /\ r.ret = Len(text) + 1
               /\ \A i \in DOMAIN r.buf : r.buf[i] = IF i <= Len(text) /\ i < c.size THEN text[i]
                                                      ELSE IF i = Smaller(Len(text) + 1, c.size) THEN 0 ELSE -1
          [] c.fn = "sprintf_a" -> r.buf = text \o <<0, -1, -1, -1, -1>>
          [] c.fn = "itoa" -> jd_atoi(r) = c.n /\ (Len(r) > 1 => r[1] # 0)
          [] c.fn = "from_hex" ->
               jd_to_hex(r) = LET digits == SelectSeq(c.src, LAMBDA d : d # 16)
                              IN  SubSeq(digits, 1, 2 * (Len(digits) \div 2))
          [] c.fn = "urlencode" -> Len(r) + 1 = UrlLength(c.src)
          [] c.fn = "sample" -> r = Polls(Sampled, c)
          [] c.fn = "around" ->
               LET spread == r.greatest - r.least IN
               /\ r.greatest - c.n - (c.n - r.least) \in {0, 1}
               /\ spread <= c.n /\ (c.n < 2^29 => c.n <= 2 * spread + 1)
          [] c.fn = "concat" -> r = text \o <<0>>
          [] c.fn = "double" -> Reads(c, r)
          [] c.fn = "error" -> Between(c.n, c.table, r)
          [] c.fn = "humidity" ->
               \A i \in DOMAIN abs_hum :
                 c.n <= abs_hum[i][1] /\ abs_hum[i][2] * c.percent < 2^21 => r >= 0 /\ r <= abs_hum[i][2]
          [] c.fn = "numfmt" -> Kept(c, r)
=============================================================================
