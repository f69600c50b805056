----------------------------- MODULE JdPanicLog -----------------------------
(***************************************************************************)
(* The panic handler's log (storage/lstore.c, JD_SD_PANIC): when a device  *)
(* panics, at any point of a flush, the handler takes over the card, saves *)
(* the buffers and appends the text it prints, character by character, to  *)
(* the block in memory, of which it writes what is full.                   *)
(*                                                                         *)
(* A block is the sequence of its entries, an entry the sequence of its    *)
(* characters: those printed are numbered, 0 is a line end, and -1 and -2  *)
(* are entries from before the panic.  A block whose write failed is       *)
(* empty.  Sizes are smaller than in the code, in the same proportions.    *)
(***************************************************************************)
EXTENDS Integers, Sequences, SequencesExt

CONSTANTS SIZE,     \* block_data_size
          HDR,      \* JD_LSTORE_ENTRY_HEADER_SIZE
          SPARE,    \* the 8 that are "conservative"
          MINLEN,   \* block_size >> 5: no shorter entry is begun
          LONGEST,  \* 0xf0: the longest entry
          BLOCKS,   \* data_blocks
          MaxChars, MaxEnds \* bounds: characters printed, and line ends and flushes

VARIABLES s,        \* logs[0] with panic_mode, panic_max_char_ptr, the card; see Init
          printed,  \* history: characters printed that are no line ends
          before,   \* history: the log at the panic, what is on the card and what is in
                    \* memory, and was it within the flush of the ring's last block?
          ends      \* line ends printed and flushes so far

vars == <<s, printed, before, ends>>

\* Where flush_to_disk may be: [needs_flushing, block_alt, written blocks, is block_ptr ahead?]
Interrupted ==
  {[needs |-> 0, alt |-> <<>>, last |-> <<>>, ahead |-> FALSE],         \* not under way
   [needs |-> 1, alt |-> <<<<-1>>>>, last |-> <<>>, ahead |-> FALSE],   \* requested
   [needs |-> 2, alt |-> <<<<-1>>>>, last |-> <<>>, ahead |-> FALSE],   \* claimed
   [needs |-> 2, alt |-> <<<<-1>>>>, last |-> <<>>, ahead |-> TRUE],    \* within the write
   [needs |-> 2, alt |-> <<<<-1>>>>, last |-> <<<<-1>>>>, ahead |-> TRUE], \* written
   [needs |-> 2, alt |-> <<>>, last |-> <<<<-1>>>>, ahead |-> TRUE]}    \* cleared

\* The blocks of the card, oldest first.
OnCard == FlattenSeq(FlattenSeq([i \in 1 .. BLOCKS |-> s.card[(s.block_ptr + i - 1) % BLOCKS]]))

\* The panic: at any point of a flush, with any block the last one written.
Init ==
  /\ \E i \in Interrupted, p \in 0 .. BLOCKS - 1, b \in {<<>>, <<<<-2>>>>} :
       s = [panic_mode |-> 0, max |-> 0, cur |-> <<>>,
            block |-> b, data_ptr |-> IF b = <<>> THEN 0 ELSE HDR + 1,
            alt |-> i.alt, needs |-> i.needs, block_ptr |-> IF i.ahead THEN p + 1 ELSE p,
            card |-> [k \in 0 .. BLOCKS - 1 |-> IF k = p THEN i.last ELSE <<>>], dead |-> FALSE]
  /\ before = [log |-> OnCard \o FlattenSeq(s.alt) \o FlattenSeq(s.block),
               late |-> s.block_ptr = BLOCKS]
  /\ printed = 0 /\ ends = 0

-----------------------------------------------------------------------------
(* The card                                                                *)

\* What the card makes of a command: its answers to it and to the data, and is it done in time?
Good == [cmd |-> "ready", data |-> "accepted", idle |-> TRUE]
Bad == {[Good EXCEPT !.cmd = "error"], [Good EXCEPT !.data = "rejected"],
        [Good EXCEPT !.data = "none"], [Good EXCEPT !.idle = FALSE]}
Answers == {Good} \cup Bad

\* sd_write_sector, with sd_send_cmd, sd_write_data, sd_get_resp and sd_wait_busy.
sd_write_sector(a) == a.cmd = "ready" /\ a.data = "accepted" /\ a.idle

\* sd_check: the card answers, and gives its CSD.
sd_check(a) == a.cmd = "ready" /\ a.data = "accepted"

\* write_sectors: the first sector that fails is the last one tried.
write_sectors(st, a) ==
  IF st.panic_mode # 1 THEN st
  ELSE [st EXCEPT !.card[st.block_ptr] = IF sd_write_sector(a) THEN st.alt ELSE <<>>,
                  !.panic_mode = IF sd_write_sector(a) THEN 1 ELSE 3]

-----------------------------------------------------------------------------
(* Flushing: the answers are those to the write of each of two blocks.     *)

flush_to_disk_core(st, a) ==
  IF st.block_ptr >= BLOCKS THEN [st EXCEPT !.dead = TRUE]   \* the JD_ASSERT of write_block
  ELSE [write_sectors(st, a) EXCEPT !.alt = <<>>, !.needs = 0,
                                    !.block_ptr = IF @ + 1 >= BLOCKS THEN 0 ELSE @ + 1]

request_flush(st) ==
  [st EXCEPT !.block = st.alt, !.alt = st.block, !.needs = 1, !.data_ptr = 0]

flush_to_disk_in_panic(st, a) ==
  LET s1 == IF st.needs # 0 THEN flush_to_disk_core(st, a[1]) ELSE st
      s2 == IF s1.data_ptr # 0 /\ s1.needs = 0 THEN request_flush(s1) ELSE s1
      s3 == IF s2.needs # 0 /\ ~ s2.dead THEN flush_to_disk_core(s2, a[2]) ELSE s2
  IN  [s3 EXCEPT !.cur = <<>>, !.max = 0]

\* Mutant: the header of the entry is not counted.
LeftNoHeader(st) == SIZE - st.data_ptr

Left(st) == SIZE - st.data_ptr - HDR - SPARE

\* The entry under way is ended: its header is stored before it.
Closed(st) ==
  IF st.max = 0 THEN st
  ELSE [st EXCEPT !.block = Append(@, st.cur), !.data_ptr = @ + HDR + Len(st.cur)]

\* jd_lstore_panic_print_char once the card is ready.
PutChar(st, ch, a) ==
  LET is_endline == ch = 0 /\ st.cur # <<>>
      needs_flush == Len(st.cur) >= st.max
      s1 == Closed(st)
      small == Left(s1) < MINLEN
      s2 == IF small THEN flush_to_disk_in_panic(s1, a) ELSE s1
      left == IF small \/ Left(s1) > LONGEST THEN LONGEST ELSE Left(s1)
      s3 == IF needs_flush \/ is_endline THEN [s2 EXCEPT !.cur = <<>>, !.max = left] ELSE st
  IN  IF is_endline THEN s3 ELSE [s3 EXCEPT !.cur = Append(@, ch)]

\* jd_lstore_panic_flush; logs[1] is written as well, and may be what fails.
Flushed(st, a, other) ==
  LET s1 == IF st.max > 0 THEN PutChar(st, 0, a) ELSE st
      s2 == flush_to_disk_in_panic(s1, a)
  IN  IF sd_write_sector(other) \/ s2.panic_mode # 1 \/ s2.dead THEN s2 ELSE [s2 EXCEPT !.panic_mode = 3]

\* At most one write of a step fails, and none is tried after it.
Outcomes == {<<Good, Good>>} \cup {<<x, Good>> : x \in Bad} \cup {<<Good, x>> : x \in Bad}

\* A character, or a line end.
Printing(ch) ==
  \/ ch = printed + 1 /\ printed < MaxChars /\ printed' = ch /\ UNCHANGED ends
  \/ ch = 0 /\ ends < MaxEnds /\ ends' = ends + 1 /\ UNCHANGED printed

\* The first character: the card is taken over, and the buffers are saved.
TakeOver(ch) ==
  /\ s.panic_mode = 0 /\ Printing(ch)
  /\ \/ s' = [s EXCEPT !.panic_mode = 2]        \* busy for too long
     \/ \E check \in Answers : ~ sd_check(check) /\ s' = [s EXCEPT !.panic_mode = 2]
     \/ \E a \in Outcomes, other \in Answers :
          LET s1 == Flushed([s EXCEPT !.panic_mode = 1], a, other) IN
          s' = IF s1.panic_mode # 1 \/ s1.dead THEN s1 ELSE PutChar(s1, ch, a)
  /\ UNCHANGED before

jd_lstore_panic_print_char(ch) ==
  /\ s.panic_mode = 1 /\ ~ s.dead /\ Printing(ch)
  /\ \E a \in Outcomes : s' = PutChar(s, ch, a)
  /\ UNCHANGED before

jd_lstore_panic_flush ==
  /\ s.panic_mode = 1 /\ ~ s.dead /\ ends < MaxEnds
  /\ \E a \in Outcomes, other \in Answers : s' = Flushed(s, a, other)
  /\ ends' = ends + 1
  /\ UNCHANGED <<printed, before>>

Next ==
  \/ \E ch \in 0 .. MaxChars : TakeOver(ch) \/ jd_lstore_panic_print_char(ch)
  \/ jd_lstore_panic_flush

Spec == Init /\ [][Next]_vars

-----------------------------------------------------------------------------
(* Properties *)

Text(chars) == SelectSeq(chars, LAMBDA ch : ch > 0)
Saved(chars) == SelectSeq(chars, LAMBDA ch : ch < 0)
Everything == [i \in 1 .. printed |-> i]

(***************************************************************************)
(* As long as the card works, the log on it is what it was, with what was  *)
(* in memory at the panic after it, each block once and in order - one     *)
(* that had been written but not cleared is there again - and then what    *)
(* was printed, up to what is in the block in memory; once the card fails, *)
(* it holds the beginning of that.  The block is not overrun.              *)
(* The assertion of write_block fails in the panic handler itself if, and  *)
(* only if, the panic came after block_ptr had passed the ring's last      *)
(* block and before it was set to 0; then nothing is saved.                *)
(***************************************************************************)
PanicTextKept ==
  /\ s.panic_mode \in {1, 3} => (s.dead <=> before.late)
  /\ ~ s.dead =>
       /\ s.data_ptr + HDR + Len(s.cur) <= SIZE
       /\ s.panic_mode = 1 =>
            /\ Text(OnCard \o FlattenSeq(s.block) \o s.cur) = Everything
            /\ Saved(OnCard) = before.log
       /\ s.panic_mode = 3 => IsPrefix(Text(OnCard), Everything) /\ IsPrefix(Saved(OnCard), before.log)

=============================================================================
