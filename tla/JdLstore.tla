------------------------------ MODULE JdLstore ------------------------------
(***************************************************************************)
(* One log file of storage/lstore.c: a ring of blocks on an SD card.       *)
(* Entries are appended, by the main loop or an interrupt handler, to one  *)
(* of two buffers; the main loop writes the other one to the card.  At     *)
(* start the newest block is found by a binary search over the generations *)
(* and times of the blocks.                                                *)
(*                                                                         *)
(* An entry is a number, numbered as it is appended.  A buffer is          *)
(* [gen, ts, ents]; the card holds such blocks, or Invalid where the CRC   *)
(* is wrong.  Time is in milliseconds since the start of the device.       *)
(***************************************************************************)
EXTENDS Integers, Sequences, SequencesExt

CONSTANTS
  DataBlocks,   \* data_blocks
  BlockCap,     \* entries that fit in a block
  MaxDelta,     \* 0xffff: the longest time in a block
  TornWrites,   \* power may fail while a block is being written
  SharedTimes,  \* two blocks may be started in the same millisecond
  MaxEntries, MaxTime, MaxRestarts \* bounds

ASSUME ConstantsAssumption ==
  /\ {DataBlocks, BlockCap} \subseteq Nat \ {0}
  /\ {MaxDelta, MaxEntries, MaxTime, MaxRestarts} \subseteq Nat
  /\ TornWrites \in BOOLEAN /\ SharedTimes \in BOOLEAN

VARIABLES
  disk,
  mounted, block, block_alt, data_ptr, needs_flushing, block_ptr, block_generation,
  pc,        \* flush_to_disk: "idle", "write", "writing" or "clear"
  panic,     \* a JD_ASSERT has failed
  now,
  accepted,  \* history: the entries appended and not lost with the RAM
  newest,    \* history: the block written last, or DataBlocks if none was
  entries, restarts

ram == <<mounted, block, block_alt, data_ptr, needs_flushing, block_ptr, block_generation>>
vars == <<disk, ram, pc, panic, now, accepted, newest, entries, restarts>>

Blocks == 0 .. DataBlocks - 1
\* read_block clears the header of a block that is not valid.
Invalid == [gen |-> 0, ts |-> 0, ents |-> <<>>]
Empty == Invalid

\* Mutant: times are not compared.
block_lt_gen(a, b) == a.gen < b.gen

block_lt(a, b) == a.gen < b.gen \/ (a.gen = b.gen /\ a.ts < b.ts)

(***************************************************************************)
(* find_boundry: the last block found to be newer than block 0.            *)
(***************************************************************************)
Boundary ==
  LET search[lr \in Blocks \X Blocks] ==
        LET l == lr[1]
            r == lr[2]
            m == (l + r) \div 2 + 1
        IN  IF l >= r THEN l
            ELSE IF block_lt(disk[0], disk[m]) THEN search[<<m, r>>] ELSE search[<<l, m - 1>>]
  IN  search[<<0, DataBlocks - 1>>]

Init ==
  /\ disk = [i \in Blocks |-> Invalid]
  /\ mounted = FALSE /\ block = Empty /\ block_alt = Empty
  /\ data_ptr = 0 /\ needs_flushing = 0 /\ block_ptr = 0 /\ block_generation = 0
  /\ pc = "idle" /\ panic = FALSE /\ now = 0
  /\ accepted = <<>> /\ newest = DataBlocks
  /\ entries = 0 /\ restarts = 0

(***************************************************************************)
(* mount_log with find_boundry.  l + 1 is compared with block_ptr, which   *)
(* is 0 since the file was allocated, so it never wraps.                   *)
(***************************************************************************)
Mount ==
  /\ ~ mounted
  /\ mounted' = TRUE
  /\ IF disk[0].gen = 0
     THEN block_generation' = 1 /\ block_ptr' = 0
     ELSE /\ block_generation' = disk[Boundary].gen + 1
          /\ block_ptr' = IF Boundary + 1 = block_ptr THEN 0 ELSE Boundary + 1
  /\ UNCHANGED <<disk, block, block_alt, data_ptr, needs_flushing, pc, panic, now, accepted,
                 newest, entries, restarts>>

-----------------------------------------------------------------------------
\* The entry is stored in the buffer at data_ptr.
Put(b, at, e) == [b EXCEPT !.ents = SubSeq(@, 1, at) \o <<e>> \o SubSeq(@, at + 2, Len(@))]

\* Starting a block: its header is set.
Started(b, gen) == [b EXCEPT !.gen = gen, !.ts = now]

\* A block is not started in the millisecond the one before it was, unless SharedTimes.
FreshTime(prev, gen) == SharedTimes \/ prev.gen # gen \/ prev.ts # now

\* The block has no room for the entry, or for its time.
BlockFull(b) == now - b.ts > MaxDelta \/ data_ptr = BlockCap

(***************************************************************************)
(* jd_lstore_append, with interrupts masked: into the current block, into  *)
(* a new one after request_flush has exchanged the buffers, or not at all  *)
(* if the other buffer is still to be written.  The clock going back is    *)
(* handled too, though it starts again only with the device.               *)
(***************************************************************************)
Append1(e) ==
  LET b == IF data_ptr = 0 THEN Started(block, block_generation) ELSE block
      back == now < b.ts
      full == back \/ BlockFull(b)
      gen == IF back THEN block_generation + 1 ELSE block_generation
  IN
  /\ \/ /\ ~ full
        /\ data_ptr = 0 => FreshTime(block_alt, block_generation)
        /\ block' = Put(b, data_ptr, e)
        /\ data_ptr' = data_ptr + 1
        /\ accepted' = Append(accepted, e)
        /\ UNCHANGED <<block_alt, needs_flushing, block_generation>>
     \/ /\ full /\ needs_flushing = 0
        /\ FreshTime(b, gen)
        /\ block_alt' = b /\ needs_flushing' = 1
        /\ block' = Put(Started(block_alt, gen), 0, e)
        /\ data_ptr' = 1
        /\ block_generation' = gen
        /\ accepted' = Append(accepted, e)
     \/ /\ full /\ needs_flushing # 0
        /\ block_generation' = gen
        /\ UNCHANGED <<block, block_alt, data_ptr, needs_flushing, accepted>>

AppendEntry ==
  /\ mounted /\ ~ panic /\ entries < MaxEntries
  /\ entries' = entries + 1
  /\ Append1(entries + 1)
  /\ UNCHANGED <<disk, mounted, block_ptr, pc, panic, now, newest, restarts>>

-----------------------------------------------------------------------------
(* flush_to_disk, called by jd_lstore_process when a buffer waits or it is *)
(* time to write what there is.                                            *)

FlushClaim ==
  /\ mounted /\ ~ panic /\ pc = "idle"
  /\ \/ /\ needs_flushing = 1
        /\ UNCHANGED <<block, block_alt, data_ptr>>
     \/ /\ needs_flushing = 0 /\ data_ptr # 0
        /\ block' = block_alt /\ block_alt' = block /\ data_ptr' = 0
  /\ needs_flushing' = 2 /\ pc' = "write"
  /\ UNCHANGED <<disk, mounted, block_ptr, block_generation, panic, now, accepted, newest,
                 entries, restarts>>

\* write_block: block_ptr moves on, then the sectors are written.
WriteStart ==
  /\ pc = "write" /\ ~ panic
  /\ IF block_ptr < DataBlocks
     THEN /\ disk' = [disk EXCEPT ![block_ptr] = Invalid]
          /\ block_ptr' = block_ptr + 1 /\ pc' = "writing"
          /\ UNCHANGED panic
     ELSE panic' = TRUE /\ UNCHANGED <<disk, block_ptr, pc>>
  /\ UNCHANGED <<mounted, block, block_alt, data_ptr, needs_flushing, block_generation, now,
                 accepted, newest, entries, restarts>>

WriteEnd ==
  /\ pc = "writing" /\ ~ panic
  /\ disk' = [disk EXCEPT ![block_ptr - 1] = block_alt]
  /\ newest' = block_ptr - 1
  /\ pc' = "clear"
  /\ UNCHANGED <<ram, panic, now, accepted, entries, restarts>>

\* Mutant: the buffer is not cleared after it is written.
FlushEndNotCleared ==
  /\ pc = "clear" /\ ~ panic
  /\ block_ptr' = IF block_ptr >= DataBlocks THEN 0 ELSE block_ptr
  /\ needs_flushing' = 0 /\ pc' = "idle"
  /\ UNCHANGED <<disk, mounted, block, block_alt, data_ptr, block_generation, panic, now,
                 accepted, newest, entries, restarts>>

\* The buffer is cleared and block_ptr wraps.
FlushEnd ==
  /\ pc = "clear" /\ ~ panic
  /\ block_alt' = [block_alt EXCEPT !.ents = <<>>]
  /\ block_ptr' = IF block_ptr >= DataBlocks THEN 0 ELSE block_ptr
  /\ needs_flushing' = 0 /\ pc' = "idle"
  /\ UNCHANGED <<disk, mounted, block, data_ptr, block_generation, panic, now, accepted,
                 newest, entries, restarts>>

-----------------------------------------------------------------------------
Tick ==
  /\ now < MaxTime
  /\ now' = now + 1
  /\ UNCHANGED <<disk, ram, pc, panic, accepted, newest, entries, restarts>>

OnDisk(e) == \E i \in Blocks : Contains(disk[i].ents, e)

\* The entries of s that are on the card
Saved(s) ==
  LET kept[k \in 0 .. Len(s)] ==
        IF k = 0 THEN <<>>
        ELSE IF OnDisk(s[k]) THEN Append(kept[k - 1], s[k]) ELSE kept[k - 1]
  IN  kept[Len(s)]

\* The device restarts, after a panic or a loss of power: the RAM and the time are lost.
Restart ==
  /\ restarts < MaxRestarts
  /\ pc = "writing" => TornWrites
  /\ mounted' = FALSE /\ block' = Empty /\ block_alt' = Empty
  /\ data_ptr' = 0 /\ needs_flushing' = 0 /\ block_ptr' = 0 /\ block_generation' = 0
  /\ pc' = "idle" /\ panic' = FALSE /\ now' = 0
  /\ accepted' = Saved(accepted)
  /\ restarts' = restarts + 1
  /\ UNCHANGED <<disk, newest, entries>>

Next ==
  \/ Mount
  \/ AppendEntry
  \/ FlushClaim \/ WriteStart \/ WriteEnd \/ FlushEnd
  \/ Tick
  \/ Restart

Spec == Init /\ [][Next]_vars

-----------------------------------------------------------------------------
(* Properties *)

Buffer == [gen : Nat, ts : 0 .. MaxTime, ents : Seq(1 .. MaxEntries)]

\* Types; block_ptr is a block, or one past the last.
TypeOK ==
  /\ disk \in [Blocks -> Buffer] /\ block \in Buffer /\ block_alt \in Buffer
  /\ mounted \in BOOLEAN /\ panic \in BOOLEAN
  /\ data_ptr \in 0 .. BlockCap /\ needs_flushing \in 0 .. 2
  /\ block_ptr \in 0 .. DataBlocks /\ block_generation \in Nat
  /\ pc \in {"idle", "write", "writing", "clear"}

\* The log as a reader of the card and the two buffers would see it, oldest entry first.
Log ==
  FlattenSeq([i \in 1 .. DataBlocks |-> disk[(block_ptr + i - 1) % DataBlocks].ents])
  \o (IF needs_flushing # 0 /\ pc # "clear" THEN block_alt.ents ELSE <<>>)
  \o SubSeq(block.ents, 1, data_ptr)

(***************************************************************************)
(* Whatever appends interrupt a flush, however often the ring wraps or the *)
(* device restarts, the log is what was appended last: in order, nothing   *)
(* twice, and no gap but what was in RAM at a restart.  No index leaves    *)
(* its range.                                                              *)
(***************************************************************************)
LogIsSuffix == TypeOK /\ (mounted => IsSuffix(Log, accepted))

(***************************************************************************)
(* find_boundry places block_ptr after the block written last.             *)
(***************************************************************************)
MountFindsNewest ==
  [][Mount /\ newest # DataBlocks => block_ptr' % DataBlocks = (newest + 1) % DataBlocks]_vars

(***************************************************************************)
(* The buffer is not touched while it is being written: what the card got  *)
(* is what the buffer held when write_block was called.                    *)
(***************************************************************************)
BufferStable == [][(pc \in {"write", "writing"}) /\ mounted' => block_alt' = block_alt]_vars

\* Blocks go where they belong, as they were: after the newest one at a mount
\* (find_boundry), and unchanged while write_block writes them.
BlocksInPlace == MountFindsNewest /\ BufferStable

\* The JD_ASSERT of write_block, that the block is one of the file.
NoAssertFails == ~ panic

=============================================================================
