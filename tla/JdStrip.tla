------------------------------- MODULE JdStrip -------------------------------
(***************************************************************************)
(* The programs of a LED strip (services/ledstrip.c): a client sends bytes *)
(* that set, fade and rotate the pixels of a range.  The interpreter is    *)
(* modelled on the bytes, with its loops; it is compared with what the     *)
(* commands mean for the whole range at once.                              *)
(*                                                                         *)
(* A colour is a triple of components.  What is sent to the strip, and     *)
(* when, is JdDisplay's.                                                   *)
(***************************************************************************)
EXTENDS Integers, Sequences, SequencesExt

CONSTANTS NUMPIXELS,
          Repeats,     \* how often a program is run; 0 is for ever
          Commands,    \* the commands programs are made of, see Bytes
          MaxCommands  \* bound: commands of a program

VARIABLES program,  \* the commands
          m,        \* the interpreter, with num_repeats and dirty
          at,       \* how many commands of this pass it has carried out
          want      \* what they mean: the picture, the range, the modes

vars == <<program, m, at, want>>

-----------------------------------------------------------------------------
(* The encoding: what the documentation above LIGHT_PROG_SET_ALL lists.    *)

OPS == [set |-> 208, fade |-> 209, fade_hsv |-> 210, fwd |-> 211, back |-> 212, range |-> 214,
        mode |-> 215, mode1 |-> 216, set1 |-> 207, show |-> 213]

\* A number, in one byte or two, or left out (-1).
Number(n) == IF n < 0 THEN <<>> ELSE IF n < 128 THEN <<n>> ELSE <<128 + n \div 256, n % 256>>

Block(cols) ==
  (IF Len(cols) \in 1..3 THEN <<192 + Len(cols)>> ELSE <<192, Len(cols)>>) \o FlattenSeq(cols)

\* A command has an operation, numbers a and b, and colours.
Bytes(c) ==
  <<OPS[c.op]>> \o (CASE c.op = "set1" -> Number(c.a) \o c.cols[1]
                      [] c.op \in {"set", "fade", "fade_hsv"} -> Block(c.cols)
                      [] OTHER -> Number(c.a) \o Number(c.b))

-----------------------------------------------------------------------------
(* Colours.                                                                *)

rgb(c) == [i \in 1..3 |-> c[i] % 256]

clamp(c) == IF c < 0 THEN 0 ELSE IF c > 255 THEN 255 ELSE c

mulcol(c, by) ==
  LET c2 == (c * by) \div 128 IN
  IF c # c2 \/ by = 128 THEN c2 ELSE IF by < 128 THEN c2 - 1 ELSE c2 + 1

Blend(mode, old, c) ==
  IF mode = 0 THEN c
  ELSE [i \in 1..3 |-> clamp(CASE mode = 1 -> old[i] + c[i]
                               [] mode = 2 -> old[i] - c[i]
                               [] mode = 3 -> mulcol(old[i], c[i]))]

hsv(c) ==
  LET hue == (c[1] * 192) \div 256
      floor == (c[3] * (255 - c[2])) \div 256
      up == ((hue % 64) * (c[3] - floor)) \div 64 + floor
      down == ((63 - (hue % 64)) * (c[3] - floor)) \div 64 + floor
  IN  rgb(<<<<down, up, floor>>, <<floor, down, up>>, <<up, floor, down>>>>[hue \div 64 + 1])

\* The colour at share (of 65536) of the way from one colour to the next.
Mixed(c0, c1, share) == rgb([i \in 1..3 |-> (c0[i] * (65535 - share) + c1[i] * share + 32768) \div 65536])

-----------------------------------------------------------------------------
(* The interpreter.                                                        *)

ByteAt(t, p) == IF p < Len(t.data) THEN t.data[p + 1] ELSE 0

\* What is fetched, its kind, and the interpreter after it.
prog_fetch(t) ==
  LET c == ByteAt(t, t.prog_ptr)
      got(kind, val, n) == [kind |-> kind, val |-> val, t |-> [t EXCEPT !.prog_ptr = @ + n]]
      second == ByteAt(t, t.prog_ptr + 1)
  IN  CASE t.prog_ptr >= Len(t.data) -> got("eof", 0, 0)
        [] t.prog_ptr < Len(t.data) /\ c < 128 -> got("number", c, 1)
        [] t.prog_ptr < Len(t.data) /\ c \in 128..191 -> got("number", (c - 128) * 256 + second, 2)
        [] t.prog_ptr < Len(t.data) /\ c \in 193..195 -> got("block", c - 192, 1)
        [] t.prog_ptr < Len(t.data) /\ c = 192 -> got("block", second, 2)
        [] OTHER -> got("cmd", c, 1)

prog_fetch_num(t, defl) ==
  LET f == prog_fetch(t) IN
  IF f.kind = "number" THEN f ELSE [f EXCEPT !.val = defl, !.t = t]

\* Black, without going on, past the end.
prog_fetch_color(t) ==
  IF t.prog_ptr + 3 > Len(t.data) THEN [val |-> <<0, 0, 0>>, t |-> t]
  ELSE [val |-> SubSeq(t.data, t.prog_ptr + 1, t.prog_ptr + 3), t |-> [t EXCEPT !.prog_ptr = @ + 3]]

RECURSIVE Skipped(_, _)
Skipped(t, n) == IF n = 0 THEN t ELSE Skipped(prog_fetch_color(t).t, n - 1)

\* Skips to the next command; "eof" if there is none.
RECURSIVE prog_fetch_cmd(_)
prog_fetch_cmd(t) ==
  LET f == prog_fetch(t) IN
  CASE f.kind \in {"cmd", "eof"} -> f
    [] f.kind = "number" -> prog_fetch_cmd(f.t)
    [] f.kind = "block" -> prog_fetch_cmd(Skipped(f.t, f.val))

reset_range(t) == [t EXCEPT !.range_ptr = t.range_start]

CanSet(t) == t.range_ptr < t.range_end

set_next(t, c) ==
  IF ~CanSet(t) THEN t
  ELSE [t EXCEPT !.px[t.range_ptr + 1] = Blend(t.prog_tmpmode, @, c), !.range_ptr = @ + 1]

\* One round of the pattern's colours; ok: was there room for the last one?
RECURSIVE Round(_, _, _)
Round(t, n, ok) ==
  IF n = 0 THEN [t |-> t, ok |-> ok]
  ELSE LET f == prog_fetch_color(t) IN Round(set_next(f.t, f.val), n - 1, CanSet(t))

RECURSIVE Rounds(_, _, _)
Rounds(t, start, len) ==
  LET r == Round([t EXCEPT !.prog_ptr = start], len, FALSE) IN
  IF r.ok THEN Rounds(r.t, start, len) ELSE r.t

prog_set(t, len) == Rounds(reset_range(t), t.prog_ptr, len)

\* Pixel after pixel, the colours fetched as the position passes them.
RECURSIVE Fading(_, _, _)
Fading(t, f, usehsv) ==
  IF f.colidx < f.colpos \div 65536
  THEN LET n == prog_fetch_color(t) IN
       Fading(n.t, [f EXCEPT !.colidx = @ + 1, !.col0 = f.col1, !.col1 = n.val], usehsv)
  ELSE IF ~CanSet(t) THEN t
  ELSE LET c == Mixed(f.col0, f.col1, f.colpos % 65536) IN
       Fading(set_next(t, IF usehsv THEN hsv(c) ELSE c), [f EXCEPT !.colpos = @ + f.colstep], usehsv)

\* An empty range divides by zero here: see Init.
prog_fade(t, len, usehsv) ==
  LET c0 == prog_fetch_color(t)
      c1 == prog_fetch_color(c0.t)
      f == [colidx |-> 0, colpos |-> 0, col0 |-> c0.val, col1 |-> c1.val,
            colstep |-> ((len - 1) * 65536) \div t.range_len]
  IN  IF len < 2 THEN prog_set(t, len)
      ELSE [Fading(reset_range(c1.t), f, usehsv) EXCEPT !.prog_ptr = (t.prog_ptr + 3 * len) % 256]

\* Exchanges elements until the one at middle has come to the front.
RECURSIVE Exchange(_, _, _, _, _)
Exchange(px, first, middle, next, last) ==
  IF first = next THEN px
  ELSE LET q == [px EXCEPT ![first] = px[next], ![next] = px[first]] IN
       IF next + 1 = last THEN Exchange(q, first + 1, middle, middle, last)
       ELSE Exchange(q, first + 1, IF first + 1 = middle THEN next + 1 ELSE middle, next + 1, last)

prog_rot(t, shift) ==
  IF shift = 0 \/ shift >= t.range_len THEN t
  ELSE [t EXCEPT !.px = Exchange(@, t.range_start + 1, t.range_start + shift + 1,
                                 t.range_start + shift + 1, t.range_end + 1)]

fetch_mode(t) ==
  LET f == prog_fetch_num(t, 0) IN [f EXCEPT !.val = IF @ > 3 THEN 0 ELSE @]

\* Mutant: turning forwards is turning backwards.
TurnBackwards(cmd, k, len) == k % len

\* How far prog_rot turns for a rotation by k; the range is not empty.
Turn(cmd, k, len) == IF cmd = OPS.fwd /\ k % len # 0 THEN len - (k % len) ELSE k % len

\* One command of prog_process: the interpreter after it.
Execute(cmd, t) ==
  LET num == prog_fetch_num(t, IF cmd \in {OPS.fwd, OPS.back} THEN 1 ELSE 0)
      mode == fetch_mode(t)
      blk == prog_fetch(t)
      plain(u) == [u EXCEPT !.prog_tmpmode = u.prog_mode]
  IN  CASE cmd = OPS.set1 ->
             LET c == prog_fetch_color(num.t) IN
             plain(set_next([c.t EXCEPT !.range_ptr = t.range_start + num.val], c.val))
        [] cmd \in {OPS.set, OPS.fade, OPS.fade_hsv} ->
             IF blk.kind # "block" \/ blk.val = 0 THEN blk.t
             ELSE IF cmd = OPS.set THEN plain(prog_set(blk.t, blk.val))
             ELSE plain(prog_fade(blk.t, blk.val, cmd = OPS.fade_hsv))
        [] cmd \in {OPS.fwd, OPS.back} ->
             IF t.range_len = 0 THEN num.t
             ELSE plain(prog_rot(num.t, Turn(cmd, num.val, t.range_len)))
        [] cmd = OPS.mode1 -> [mode.t EXCEPT !.prog_tmpmode = mode.val]
        [] cmd = OPS.mode -> plain([mode.t EXCEPT !.prog_mode = mode.val])
        [] cmd = OPS.range ->
             LET len == prog_fetch_num(num.t, NUMPIXELS)
                 from == IF num.val > NUMPIXELS THEN NUMPIXELS ELSE num.val
                 to == IF from + len.val > NUMPIXELS THEN NUMPIXELS ELSE from + len.val
             IN  plain([len.t EXCEPT !.range_start = from, !.range_end = to, !.range_len = to - from])

reset_prog(t) ==
  [t EXCEPT !.prog_ptr = 0, !.range_start = 0, !.range_end = NUMPIXELS, !.range_len = NUMPIXELS,
            !.prog_tmpmode = 0, !.prog_mode = 0]

Ended(t) == t.prog_ptr >= Len(t.data)

\* The loop of prog_process: up to the next SHOW, or to the end.
RECURSIVE Run(_)
Run(t) ==
  LET f == prog_fetch_cmd(t) IN
  CASE f.kind = "eof" -> f.t
    [] f.kind # "eof" /\ f.val = OPS.show -> [prog_fetch_num(f.t, 50).t EXCEPT !.dirty = TRUE]
    [] OTHER -> Run(Execute(f.val, f.t))

-----------------------------------------------------------------------------
(* The meaning of the commands.                                            *)

Or(n, defl) == IF n < 0 THEN defl ELSE n
Least(x, y) == IF x < y THEN x ELSE y

\* The picture, the range and the modes after a command.
Meaning(v, c) ==
  LET n == v.to - v.from
      L == Len(c.cols)
      inside(i) == i > v.from /\ i <= v.to
      map(f(_)) == [v EXCEPT !.px = [i \in 1..NUMPIXELS |-> IF inside(i) THEN f(i) ELSE v.px[i]]]
      blended(f(_)) == map(LAMBDA i : Blend(v.once, v.px[i], f(i - v.from - 1)))
      pos(i) == i * (((L - 1) * 65536) \div n)
      faded(i) == Mixed(c.cols[pos(i) \div 65536 + 1], c.cols[pos(i) \div 65536 + 2], pos(i) % 65536)
      turned(by) == map(LAMBDA i : v.px[v.from + 1 + ((i - v.from - 1 + by) % n)])
      over(w) == [w EXCEPT !.once = w.mode]
      from == Least(Or(c.a, 0), NUMPIXELS)
      which == IF Or(c.a, 0) > 3 THEN 0 ELSE Or(c.a, 0)
  IN  CASE c.op = "set1" -> over(map(LAMBDA i : IF i = v.from + 1 + Or(c.a, 0) THEN Blend(v.once, v.px[i], c.cols[1]) ELSE v.px[i]))
        [] c.op = "set" \/ (c.op \in {"fade", "fade_hsv"} /\ L = 1) ->
             over(blended(LAMBDA i : c.cols[(i % L) + 1]))
        [] c.op = "fade" /\ L > 1 -> over(blended(faded))
        [] c.op = "fade_hsv" /\ L > 1 -> over(blended(LAMBDA i : hsv(faded(i))))
        [] c.op = "back" -> IF n = 0 THEN v ELSE over(turned(Or(c.a, 1)))
        [] c.op = "fwd" -> IF n = 0 THEN v ELSE over(turned(n - (Or(c.a, 1) % n)))
        [] c.op = "show" -> v
        [] c.op = "mode1" -> [v EXCEPT !.once = which]
        [] c.op = "mode" -> over([v EXCEPT !.mode = which])
        [] c.op = "range" -> over([v EXCEPT !.from = from, !.to = Least(from + Or(c.b, NUMPIXELS), NUMPIXELS)])

Whole(px) == [px |-> px, from |-> 0, to |-> NUMPIXELS, mode |-> 0, once |-> 0]

Programs == UNION {[1..n -> Commands] : n \in 1..MaxCommands}

\* A fade of an empty range, where prog_fade divides by zero, is left out.
Defined(p) == \A i \in DOMAIN p : p[i].op = "range" /\ p[i].b = 0 =>
                \A j \in i + 1..Len(p) : p[j].op \notin {"fade", "fade_hsv"}

\* handle_run_cmd has stored the program.
Init ==
  LET black == [i \in 1..NUMPIXELS |-> <<0, 0, 0>>] IN
  /\ program \in {p \in Programs : Defined(p)}
  /\ \E n \in Repeats :
       m = reset_prog([data |-> FlattenSeq([i \in DOMAIN program |-> Bytes(program[i])]), px |-> black,
                       prog_ptr |-> 0, range_ptr |-> 0, range_start |-> 0, range_end |-> 0,
                       range_len |-> 0, prog_tmpmode |-> 0, prog_mode |-> 0, num_repeats |-> n,
                       dirty |-> FALSE])
  /\ at = 0
  /\ want = Whole(black)

\* A step whose time has come, nothing being sent; the picture is then sent (JdDisplay).
prog_process ==
  LET again == Ended(m)
      from == IF again THEN 0 ELSE at
      shows == {i \in from + 1..Len(program) : program[i].op = "show"}
      to == IF shows = {} THEN Len(program) ELSE Min(shows)
      start == IF again THEN [reset_prog(m) EXCEPT !.num_repeats = IF @ = 0 THEN 0 ELSE @ - 1] ELSE m
  IN  /\ again => m.num_repeats # 1
      /\ m' = Run([start EXCEPT !.dirty = FALSE])
      /\ at' = to
      /\ want' = FoldLeft(Meaning, IF again THEN Whole(want.px) ELSE want, SubSeq(program, from + 1, to))
      /\ UNCHANGED program

Next == prog_process

Spec == Init /\ [][Next]_vars

-----------------------------------------------------------------------------
\* The interpreter paints what the program means: after every step the pixels,
\* the range and the modes are those of the commands carried out so far, no
\* byte of a colour is taken for a command, and a picture is shown at SHOW only.
StripPaints ==
  /\ want = [px |-> m.px, from |-> m.range_start, to |-> m.range_end, mode |-> m.prog_mode,
             once |-> m.prog_tmpmode]
  /\ m.range_len = m.range_end - m.range_start
  /\ at > 0 => (m.dirty <=> program[at].op = "show")
  /\ at > 0 => (Ended(m) <=> at = Len(program))
=============================================================================
