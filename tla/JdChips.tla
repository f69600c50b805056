-------------------------------- MODULE JdChips -------------------------------
(***************************************************************************)
(* Drivers and the chips behind them: half bridges, one chip               *)
(* (drivers/ncv7726b.c) or several in a chain (drivers/ncv7726b_daisy.c),  *)
(* a flash memory (drivers/spiflash.c) and a converter of voltages         *)
(* (drivers/ads1115.c).  A behaviour is about one.                         *)
(*                                                                         *)
(* A command word of a bridge is the set of its bits: 14 selects the upper *)
(* six outputs, 7 to 12 enable outputs, 1 to 6 drive them high.  The chips *)
(* are modelled from what the drivers send to them.                        *)
(***************************************************************************)
EXTENDS Integers, Sequences, FiniteSets

CONSTANTS Kinds,      \* "bridge", "daisy", "flash", "adc"
          Channels,   \* channels of the one chip that are used, in 1..12
          Chain,      \* channels of the chain that are used, from 0
          CHIPS,      \* NUM_CHIPS
          PAGE,       \* SPIFLASH_PAGE_SIZE
          BYTES,      \* size of the flash memory
          Gains,      \* the ranges asked of the converter, in mV
          Volts,      \* the voltages at its pins, in 1/128 mV
          MaxOps      \* bound: operations on the flash memory

VARIABLES kind,
          drv,     \* the driver's masks, or where it is in an operation
          chip,    \* what the chips have
          want,    \* what the callers have asked for
          ops

vars == <<kind, drv, chip, want, ops>>

HB_SEL == 14
Outputs == 1..12 * CHIPS
Off == [c \in Outputs |-> "off"]

-----------------------------------------------------------------------------
(* Bridges.                                                                *)

\* How a chip takes a word: the other half stays as it is.
Taken(out, no, word) ==
  LET base == 12 * no + (IF HB_SEL \in word THEN 6 ELSE 0) IN
  [c \in Outputs |->
     IF c - base \notin 1..6 THEN out[c]
     ELSE IF 6 + (c - base) \notin word THEN "off" ELSE IF c - base \in word THEN "high" ELSE "low"]

\* The word for outputs first + 1 to first + 6 of the one chip.
Word(first) ==
  {6 + i : i \in {j \in 1..6 : first + j \in drv.en}}
  \cup {i \in 1..6 : first + i \in drv.en /\ first + i \in drv.hs}

\* An enabled channel has exactly one direction, or ncv7726b_write_state panics.
Directed == \A c \in drv.en : (c \in drv.ls) # (c \in drv.hs)

ncv7726b_channel_set(d, c, high) ==
  [d EXCEPT !.en = @ \cup {c},
            !.hs = IF high THEN @ \cup {c} ELSE @ \ {c},
            !.ls = IF high THEN @ \ {c} ELSE @ \cup {c}]

ncv7726b_channel_clear(d, c) == [d EXCEPT !.en = @ \ {c}, !.ls = @ \ {c}, !.hs = @ \ {c}]

\* The chain keeps the direction of a cleared channel.
daisy_channel_clear(d, c) == [d EXCEPT !.en = @ \ {c}]

\* Channels of the chain count from 0.
ChannelSet ==
  \E c \in IF kind = "daisy" THEN {n + 1 : n \in Chain} ELSE Channels, high \in BOOLEAN :
    /\ kind \in {"bridge", "daisy"}
    /\ drv' = ncv7726b_channel_set(drv, c, high)
    /\ want' = [want EXCEPT ![c] = IF high THEN "high" ELSE "low"]
    /\ chip' = [chip EXCEPT !.fresh = FALSE]
    /\ UNCHANGED <<kind, ops>>

ChannelClear ==
  \E c \in IF kind = "daisy" THEN {n + 1 : n \in Chain} ELSE Channels :
    /\ kind \in {"bridge", "daisy"}
    /\ drv' = IF kind = "daisy" THEN daisy_channel_clear(drv, c) ELSE ncv7726b_channel_clear(drv, c)
    /\ want' = [want EXCEPT ![c] = "off"]
    /\ chip' = [chip EXCEPT !.fresh = FALSE]
    /\ UNCHANGED <<kind, ops>>

ncv7726b_clear_all ==
  /\ kind \in {"bridge", "daisy"}
  /\ drv' = [en |-> {}, ls |-> {}, hs |-> {}]
  /\ want' = Off
  /\ chip' = [chip EXCEPT !.fresh = FALSE]
  /\ UNCHANGED <<kind, ops>>

\* The upper half, the lower half; after 8 ms both are switched off again.
ncv7726b_write_state ==
  /\ kind = "bridge"
  /\ LET on == Taken(Taken(chip.out, 0, {HB_SEL} \cup Word(6)), 0, Word(0)) IN
     chip' = [chip EXCEPT !.pulse = on, !.out = Taken(Taken(on, 0, {HB_SEL}), 0, {}), !.fresh = TRUE]
  /\ UNCHANGED <<kind, drv, want, ops>>

\* Both halves in turn; the words are shifted through the chain, the last chip's first,
\* and taken together.
daisy_write_state ==
  LET words(half) == [k \in 1..CHIPS |-> LET no == CHIPS - k IN
                        {6 + i : i \in {j \in 1..6 : 12 * no + half + j \in drv.en}}
                        \cup {i \in 1..6 : 12 * no + half + i \in drv.hs}
                        \cup (IF half = 6 THEN {HB_SEL} ELSE {})]
      latched(out, half) == [c \in Outputs |-> LET no == (c - 1) \div 12 IN Taken(out, no, words(half)[CHIPS - no])[c]]
      on == latched(latched(chip.out, 0), 6)
  IN  /\ kind = "daisy"
      /\ chip' = [chip EXCEPT !.pulse = on, !.out = on, !.fresh = TRUE]
      /\ UNCHANGED <<kind, drv, want, ops>>

-----------------------------------------------------------------------------
(* Flash: a byte is the set of its bits that are 1.                        *)

Bits == {0, 1}

\* What a write asks for, checked as spiflash_write_bytes does.
spiflash_write_bytes ==
  \E addr \in 0..BYTES - 1, len \in 1..PAGE + 1, data \in SUBSET Bits :
    /\ kind = "flash" /\ drv.pc = "idle" /\ ops < MaxOps
    /\ len <= PAGE /\ addr \div PAGE = (addr + len - 1) \div PAGE /\ addr + len <= BYTES
    /\ chip' = [chip EXCEPT !.wel = ~chip.busy]
    /\ drv' = [pc |-> "send", cmd |-> "write", addr |-> addr, len |-> len, data |-> data]
    /\ want' = [a \in 0..BYTES - 1 |-> IF a \in addr..addr + len - 1 THEN want[a] \cap data ELSE want[a]]
    /\ ops' = ops + 1
    /\ UNCHANGED kind

\* spiflash_erase_core; the sizes of a block differ, the steps do not.
spiflash_erase ==
  \E block \in 0..(BYTES \div PAGE) - 1 :
    /\ kind = "flash" /\ drv.pc = "idle" /\ ops < MaxOps
    /\ chip' = [chip EXCEPT !.wel = ~chip.busy]
    /\ drv' = [pc |-> "send", cmd |-> "erase", addr |-> block * PAGE, len |-> PAGE, data |-> Bits]
    /\ want' = [a \in 0..BYTES - 1 |-> IF a \div PAGE = block THEN Bits ELSE want[a]]
    /\ ops' = ops + 1
    /\ UNCHANGED kind

\* The chip takes a command when it is not busy and writing was enabled; a write wraps
\* around in its page.
Send ==
  LET hit(a) == \E i \in 0..drv.len - 1 :
                  a = (drv.addr \div PAGE) * PAGE + ((drv.addr + i) % PAGE)
      done == [a \in 0..BYTES - 1 |-> IF ~hit(a) THEN chip.mem[a]
                                      ELSE IF drv.cmd = "erase" THEN Bits ELSE chip.mem[a] \cap drv.data]
  IN  /\ kind = "flash" /\ drv.pc = "send"
      /\ chip' = IF chip.wel /\ ~chip.busy THEN [chip EXCEPT !.mem = done, !.busy = TRUE, !.wel = FALSE] ELSE chip
      /\ drv' = [drv EXCEPT !.pc = "wait"]
      /\ UNCHANGED <<kind, want, ops>>

\* Mutant: does not wait for the chip.
spiflash_wait_busyNot ==
  /\ kind = "flash" /\ drv.pc = "wait"
  /\ drv' = [drv EXCEPT !.pc = "idle"]
  /\ UNCHANGED <<kind, chip, want, ops>>

spiflash_wait_busy ==
  /\ kind = "flash" /\ drv.pc = "wait" /\ ~chip.busy
  /\ drv' = [drv EXCEPT !.pc = "idle"]
  /\ UNCHANGED <<kind, chip, want, ops>>

ChipReady ==
  /\ kind = "flash" /\ chip.busy
  /\ chip' = [chip EXCEPT !.busy = FALSE]
  /\ UNCHANGED <<kind, drv, want, ops>>

-----------------------------------------------------------------------------
(* The converter, in the build with the pin that tells the end of a        *)
(* conversion.  Voltages are in 1/128 mV, the finest step of the chip.     *)

GND == 4  \* ADS1115_GND_CHAN

\* Rows are counted from 1; the bits for the chip are the row less 1.
channel_map == <<<<0, 1>>, <<0, 3>>, <<1, 3>>, <<2, 3>>, <<0, GND>>, <<1, GND>>, <<2, GND>>, <<3, GND>>>>
gain_map == <<6144, 4096, 2048, 1024, 512, 256, 256, 256>>
lsb == <<24, 16, 8, 4, 2, 1, 1, 1>>

\* A pair there is not: the first.
ads1115_channel_bitmsk(pos, neg) ==
  LET rows == {i \in 1..8 : channel_map[i] = <<pos, neg>>}
  IN  IF rows = {} THEN 0 ELSE (CHOOSE i \in rows : \A j \in rows : i <= j) - 1

\* Mutant: the rows are gone through from the first.
ads1115_gain_bitmskFirst(mv) ==
  LET rows == {i \in 1..8 : gain_map[i] >= mv}
  IN  IF rows = {} THEN 0 ELSE (CHOOSE i \in rows : \A j \in rows : i <= j) - 1

\* The last row whose range is large enough.
ads1115_gain_bitmsk(mv) ==
  LET rows == {i \in 1..8 : gain_map[i] >= mv}
  IN  IF rows = {} THEN 0 ELSE (CHOOSE i \in rows : \A j \in rows : i >= j) - 1

ads1115_gain_mult(bits) == lsb[bits + 1]

\* What the chip makes of its inputs; the full scale is 2^15 steps.
Converted(mux, pga, volts) ==
  LET at(c) == IF c = GND THEN 0 ELSE volts[c + 1]
      pins == channel_map[mux + 1]
      n == (at(pins[1]) - at(pins[2])) \div (gain_map[pga + 1] \div 256)
  IN  IF n > 32767 THEN 32767 ELSE IF n < -32768 THEN -32768 ELSE n

ads1115_set_gain ==
  \E mv \in Gains :
    /\ kind = "adc"
    /\ drv' = [gain |-> ads1115_gain_bitmsk(mv)]
    /\ want' = [want EXCEPT !.range = mv, !.asked = FALSE]
    /\ UNCHANGED <<kind, chip, ops>>

\* ads1115_configure starts a conversion, ads1115_read waits for its end; the pins named
\* are a pair there is.
ads1115_read ==
  \E row \in 1..8, a, b \in Volts :
    LET pos == channel_map[row][1]
        neg == channel_map[row][2]
        volts == [c \in 1..4 |-> CASE c = pos + 1 -> a [] c = neg + 1 -> b [] OTHER -> 0]
        mux == ads1115_channel_bitmsk(pos, neg)
    IN
    /\ kind = "adc"
    /\ chip' = [mux |-> mux, pga |-> drv.gain,
                got |-> Converted(mux, drv.gain, volts) * ads1115_gain_mult(drv.gain)]
    /\ want' = [want EXCEPT !.asked = TRUE,
                            !.volts = a - (IF neg = GND THEN 0 ELSE b)]
    /\ UNCHANGED <<kind, drv, ops>>

-----------------------------------------------------------------------------
Init ==
  /\ kind \in Kinds
  /\ ops = 0
  /\ IF kind = "flash"
     THEN /\ drv = [pc |-> "idle", cmd |-> "none", addr |-> 0, len |-> 0, data |-> {}]
          /\ chip = [mem |-> [a \in 0..BYTES - 1 |-> Bits], wel |-> FALSE, busy |-> FALSE]
          /\ want = [a \in 0..BYTES - 1 |-> Bits]
     ELSE IF kind = "adc"
     THEN /\ drv = [gain |-> 2] \* the chip's own default
          /\ chip = [mux |-> 0, pga |-> 2, got |-> 0]
          /\ want = [range |-> 2048, asked |-> FALSE, volts |-> 0]
     ELSE /\ drv = [en |-> {}, ls |-> {}, hs |-> {}]
          /\ chip = [out |-> Off, pulse |-> Off, fresh |-> FALSE]
          /\ want = Off

Next ==
  \/ ChannelSet \/ ChannelClear \/ ncv7726b_clear_all
  \/ ncv7726b_write_state \/ daisy_write_state
  \/ spiflash_write_bytes \/ spiflash_erase \/ Send \/ spiflash_wait_busy \/ ChipReady
  \/ ads1115_set_gain \/ ads1115_read

Spec == Init /\ [][Next]_vars

-----------------------------------------------------------------------------
\* What the callers asked for reaches the chips: after write_channels each output
\* of each chip is driven as it was set last, or off, and with one chip only for
\* the pulse, since a dot's coil gets hot; the panic over a channel with both
\* directions or none is not reached; and a write or an erase of the flash memory
\* is complete when its function returns, so that the next command is not lost.
\* A voltage within the range asked for is measured as finely as a range of the
\* chip allows that is large enough, between the pins that were named.
ChipsObey ==
  IF kind = "flash" THEN drv.pc = "idle" => chip.mem = want /\ ~chip.busy
  ELSE IF kind = "adc"
  THEN LET enough == {g \in {gain_map[i] : i \in 1..8} : g >= want.range} IN
       want.asked /\ want.volts \in -128 * want.range + 1..128 * want.range - 1 =>
         \A g \in enough : want.volts - chip.got \in 0..(g \div 256) - 1
  ELSE /\ Directed \/ kind = "daisy"
       /\ chip.fresh => chip.pulse = want
       /\ kind = "bridge" => chip.out = Off
=============================================================================
