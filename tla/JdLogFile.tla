------------------------------ MODULE JdLogFile ------------------------------
(***************************************************************************)
(* The files of the log store on the card (jd_lstore_init, mount_log in    *)
(* storage/lstore.c): a file that is too small or not in one piece is made *)
(* anew, its header is checked and written if it is not right.  From then  *)
(* on sectors are written past the file system, where the header says.     *)
(* Power may fail between any two writes.                                  *)
(*                                                                         *)
(* FatFs is external: a file is a sequence of clusters, and f_expand finds *)
(* clusters in a row or fails.  A sector holds a header, a block, nothing  *)
(* of interest, or data of a file that is not a log.  A magic number is    *)
(* never drawn twice.                                                      *)
(***************************************************************************)
EXTENDS Integers, Sequences

CONSTANTS CLUSTERS, CSIZE,  \* clusters of the card, sectors of one
          FILE_SIZE,        \* in sectors
          Shift,            \* of each file: bl_shift, as mount_log is given it
          MAXSPB,           \* the most sectors a block may have
          Cards,            \* what a card may hold: [files, alien, header, at]
          MaxCrashes, MaxWrites \* bounds

VARIABLES files,   \* of each log file: its clusters in order
          alien,   \* the clusters of another file
          disk,    \* what each sector holds
          lf,      \* of each file, in RAM: [pc, size, off, hd]
          magic,   \* magic numbers drawn so far
          born,    \* history: the magic number each file had when it was first mounted
          count    \* history: crashes and writes

vars == <<files, alien, disk, lf, magic, born, count>>

Logs == DOMAIN Shift
Sectors == 0..(CLUSTERS * CSIZE - 1)
SectorsOf(chain) == UNION {(chain[j] * CSIZE)..(chain[j] * CSIZE + CSIZE - 1) : j \in DOMAIN chain}
Clusters(chain) == {chain[j] : j \in DOMAIN chain}

Blank == [kind |-> "blank"]
Data == [kind |-> "data"]
Closed == [pc |-> "open", size |-> 0, off |-> 0, hd |-> Blank]

Init ==
  /\ \E c \in Cards :
       /\ files = c.files /\ alien = c.alien
       /\ disk = [s \in Sectors |-> IF s \in SectorsOf(c.alien) THEN Data
                                    ELSE IF s = c.at THEN c.header ELSE Blank]
  /\ lf = [i \in Logs |-> Closed] /\ magic = 1
  /\ born = [i \in Logs |-> 0]
  /\ count = [crashes |-> 0, writes |-> 0]

-----------------------------------------------------------------------------
(* jd_lstore_init, a file after the other.                                 *)

check_contiguous_file(chain) == chain # <<>> /\ \A j \in 1..(Len(chain) - 1) : chain[j + 1] = chain[j] + 1

Turn(i, pc) == lf[i].pc = pc /\ \A j \in Logs : j < i => lf[j].pc \notin {"open", "create", "clear"}

Opened(i, chain, pc) == [pc |-> pc, size |-> Len(chain) * CSIZE, off |-> chain[1] * CSIZE, hd |-> Blank]

OpenFile(i) ==
  /\ Turn(i, "open")
  /\ lf' = [lf EXCEPT ![i] =
              IF Len(files[i]) * CSIZE >= FILE_SIZE /\ check_contiguous_file(files[i])
              THEN Opened(i, files[i], "mount") ELSE [@ EXCEPT !.pc = "create"]]
  /\ UNCHANGED <<files, alien, disk, magic, born, count>>

\* The old file goes; f_expand looks for clusters in a row.
CreateFile(i) ==
  LET need == (FILE_SIZE + CSIZE - 1) \div CSIZE
      taken == Clusters(alien) \cup UNION {Clusters(files[j]) : j \in Logs \ {i}}
      free == {c \in 0..(CLUSTERS - need) : c..(c + need - 1) \cap taken = {}}
  IN  /\ Turn(i, "create")
      /\ \/ \E c \in free :
              LET chain == [j \in 1..need |-> c + j - 1] IN
              files' = [files EXCEPT ![i] = chain] /\ lf' = [lf EXCEPT ![i] = Opened(i, chain, "clear")]
         \/ free = {} /\ files' = [files EXCEPT ![i] = <<>>] /\ lf' = [lf EXCEPT ![i].pc = "panic"]
      /\ UNCHANGED <<alien, disk, magic, born, count>>

ClearHeader(i) ==
  /\ Turn(i, "clear")
  /\ disk' = [disk EXCEPT ![lf[i].off] = Blank]
  /\ lf' = [lf EXCEPT ![i].pc = "mount"]
  /\ UNCHANGED <<files, alien, magic, born, count>>

-----------------------------------------------------------------------------
(* mount_log.                                                              *)

Powers == {2^k : k \in 0..4}

\* Mutant: a header that fits a larger file is taken.
validate_headerAnySize(size, hd) == hd.kind = "header" /\ hd.version = 5 /\ hd.spb \in Powers /\ hd.spb <= MAXSPB

validate_header(size, hd) ==
  /\ hd.kind = "header" /\ hd.version = 5
  /\ hd.spb * hd.num <= size
  /\ hd.spb <= MAXSPB /\ hd.spb \in Powers

NewHeader(i) ==
  [kind |-> "header", version |-> 5, spb |-> 2^Shift[i], num |-> lf[i].size \div 2^Shift[i], magic |-> magic + 1]

Mount(i) ==
  LET old == disk[lf[i].off]
      ok == validate_header(lf[i].size, old)
      hd == IF ok THEN old ELSE NewHeader(i)
  IN  /\ lf[i].pc = "mount" /\ \A j \in Logs : lf[j].pc \in {"mount", "mounted"} /\ (j < i => lf[j].pc = "mounted")
      /\ disk' = [disk EXCEPT ![lf[i].off] = hd]
      /\ magic' = IF ok THEN magic ELSE magic + 1
      /\ lf' = [lf EXCEPT ![i] = IF validate_header(lf[i].size, hd) THEN [@ EXCEPT !.pc = "mounted", !.hd = hd]
                                 ELSE [@ EXCEPT !.pc = "panic"]]
      /\ born' = [born EXCEPT ![i] = IF @ = 0 THEN hd.magic ELSE @]
      /\ UNCHANGED <<files, alien, count>>

\* header_blocks is 1; write_block, at any place of the ring.
Place(i, idx) == {lf[i].off + s : s \in ((1 + idx) * lf[i].hd.spb)..((2 + idx) * lf[i].hd.spb - 1)}

WriteBlock(i) ==
  /\ lf[i].pc = "mounted" /\ count.writes < MaxWrites
  /\ \E idx \in 0..(lf[i].hd.num - 2) :
       disk' = [s \in Sectors |-> IF s \in Place(i, idx) THEN [kind |-> "block", magic |-> lf[i].hd.magic]
                                  ELSE disk[s]]
  /\ count' = [count EXCEPT !.writes = @ + 1]
  /\ UNCHANGED <<files, alien, lf, magic, born>>

\* The RAM is lost.
Crash ==
  /\ count.crashes < MaxCrashes
  /\ lf' = [i \in Logs |-> Closed]
  /\ count' = [count EXCEPT !.crashes = @ + 1]
  /\ UNCHANGED <<files, alien, disk, magic, born>>

Next ==
  \/ \E i \in Logs : OpenFile(i) \/ CreateFile(i) \/ ClearHeader(i) \/ Mount(i) \/ WriteBlock(i)
  \/ Crash

Spec == Init /\ [][Next]_vars

-----------------------------------------------------------------------------
\* Whatever was on the card and whenever power fails, what is written past the file
\* system stays in the file it is meant for: no sector of another file changes, and the
\* blocks of a log are in its own clusters.
FilesApart ==
  /\ \A s \in SectorsOf(alien) : disk[s] = Data
  /\ \A i \in Logs : lf[i].pc = "mounted" =>
       \A idx \in 0..(lf[i].hd.num - 2) : Place(i, idx) \subseteq SectorsOf(files[i])

\* A file that was mounted once is found again with the same blocks, after any restart.
LogsFound == \A i \in Logs : lf[i].pc = "mounted" => lf[i].hd.magic = born[i]
=============================================================================
