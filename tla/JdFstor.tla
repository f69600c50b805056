------------------------------ MODULE JdFstor ------------------------------
(***************************************************************************)
(* The settings store of source/jd_fstor.c: a log of entries in one of two *)
(* halves of the header area, compacted into the other half when it is     *)
(* full, and an area of data pages for large values.  Power may fail       *)
(* between any two flash operations.                                       *)
(*                                                                         *)
(* A half is [gen, log, junk]: the generation in its header (0: the header *)
(* is not valid), its entries, and whether there are programmed bytes      *)
(* between the last entry and the data, which recompute_cache treats as    *)
(* damage.  Sizes are in units of 8 bytes: an entry takes EntrySize, a     *)
(* value Size[v].  Flash is programmed in such units, so that the offset   *)
(* and the size of an entry appear together.                               *)
(***************************************************************************)
EXTENDS Integers, Sequences, SequencesExt, FiniteSetsExt

CONSTANTS
  Keys, LargeKeys, \* LargeKeys: the keys that begin with '*'
  Values,
  Size,            \* Size[v]: the space a value takes, at least 1
  HalfSpace,       \* the space for entries and values in a half
  DataPages,       \* FSTOR_DATA_PAGES
  LargePages,      \* the numbers of pages asked of jd_settings_prep_large
  TornWrites,      \* power may fail after a value is programmed and before its entry is
  None,
  MaxGen,          \* bound: generations
  MaxCrashes       \* bound: power failures

EntrySize == 3

ASSUME ConstantsAssumption ==
  /\ Keys \cap LargeKeys = {} /\ None \notin Values \cup LargeKeys \cup {0, 1}
  /\ Size \in [Values -> Nat \ {0}]
  /\ {HalfSpace, DataPages, MaxCrashes} \subseteq Nat /\ MaxGen \in Nat \ {0}
  /\ HalfSpace >= 2 * EntrySize
  /\ LargePages \subseteq Nat \ {0}
  /\ TornWrites \in BOOLEAN

VARIABLES
  (* flash *)
  half,      \* half[h], h = 0, 1
  content,   \* content[p]: the large key whose data is programmed in page p, or None
  (* RAM *)
  settings,  \* the mounted half, or None
  used,      \* used_data_pages: the pages marked as used
  pc,        \* where the running operation is, or "idle"
  op,        \* the entry the operation is to add
  panic,     \* a JD_ASSERT has failed
  (* history *)
  committed, \* committed[k]: what jd_settings_set_bin(k) stored last, or None
  complete,  \* large keys whose data was written completely
  refused,   \* the last operation found no space
  crashes

flash == <<half, content>>
vars == <<half, content, settings, used, pc, op, panic, committed, complete, refused, crashes>>

-----------------------------------------------------------------------------
(* Entries.  A large entry's value is in data pages off .. off + n - 1.    *)

SmallEntry(k, v) == [key |-> k, val |-> v, off |-> 0, n |-> 0]
LargeEntry(k, o, m) == [key |-> k, val |-> None, off |-> o, n |-> m]
NoOp == SmallEntry(None, None)

is_large(e) == e.key \in LargeKeys
SpaceOf(e) == EntrySize + (IF is_large(e) THEN 0 ELSE Size[e.val])
PagesOf(e) == e.off .. e.off + e.n - 1
mark_large(marks, e, on) == IF on THEN marks \cup PagesOf(e) ELSE marks \ PagesOf(e)

\* The space the entries of a half and their values take.
Used(log) ==
  LET sum[n \in 0 .. Len(log)] == IF n = 0 THEN 0 ELSE sum[n - 1] + SpaceOf(log[n])
  IN  sum[Len(log)]

\* free_space: one entry is kept free to end the log
free_space(log) == Max({0, HalfSpace - Used(log) - EntrySize})

has_later_copy(log, i) == \E j \in i + 1 .. Len(log) : log[j].key = log[i].key

\* The loop of jd_fstor_gc: it copies the entries that have no later copy.
Compact(log) ==
  LET copy[n \in 0 .. Len(log)] ==
        IF n = 0 THEN <<>>
        ELSE IF has_later_copy(log, n) THEN copy[n - 1]
        ELSE Append(copy[n - 1], log[n])
  IN  copy[Len(log)]

\* find_entry: the position of the last entry with the key, 0 if there is none
find_entry(log, k) == SelectLastInSeq(log, LAMBDA e : e.key = k)

\* What jd_settings_get_bin returns, None if nothing.
Stored(log, k) == LET i == find_entry(log, k) IN IF i = 0 THEN None ELSE log[i].val

\* Where jd_settings_get_large says a large value is, in pages; {}: nowhere.
LargeAt(log, k) == LET i == find_entry(log, k) IN IF i = 0 THEN {} ELSE PagesOf(log[i])

\* The pages recompute_cache marks as used.
LargePagesIn(log) ==
  UNION {PagesOf(log[i]) : i \in {i \in DOMAIN log : is_large(log[i]) /\ ~ has_later_copy(log, i)}}

\* Mutant: only the first page of the run is looked at.
find_free_data_first(marks, n) == {o \in 0 .. DataPages - n - 1 : o \notin marks}

(***************************************************************************)
(* find_free_data: the first free run of n pages.  The loop's bound is     *)
(* off < FSTOR_DATA_PAGES - pages, so the run that ends with the last page *)
(* is never considered.                                                    *)
(***************************************************************************)
find_free_data(marks, n) == {o \in 0 .. DataPages - n - 1 : (o .. o + n - 1) \cap marks = {}}

cur == half[settings]
alt == 1 - settings

Erased == [gen |-> 0, log |-> <<>>, junk |-> FALSE]

Init ==
  /\ half = [h \in {0, 1} |-> Erased]
  /\ content = [p \in 0 .. DataPages - 1 |-> None]
  /\ settings = None /\ used = {} /\ pc = "idle" /\ op = NoOp /\ panic = FALSE
  /\ committed = [k \in Keys |-> None] /\ complete = {} /\ refused = FALSE
  /\ crashes = 0

-----------------------------------------------------------------------------
(* jd_fstor_init, which every operation calls while settings is NULL. *)

ValidHalves == {h \in {0, 1} : half[h].gen # 0}

\* Mutant: half 0 wins whenever it is valid.
NewestIsFirst == IF 0 \in ValidHalves THEN 0 ELSE CHOOSE h \in ValidHalves : TRUE

\* The half with the higher generation, or the only valid one.
Newest == IF ValidHalves = {0, 1}
          THEN IF half[0].gen > half[1].gen THEN 0 ELSE 1
          ELSE CHOOSE h \in ValidHalves : TRUE

\* A header is valid and recompute_cache finds nothing wrong.
Mountable == ValidHalves # {} /\ ~ half[Newest].junk

Mount ==
  /\ pc = "idle" /\ settings = None
  /\ Mountable
  /\ settings' = Newest
  /\ used' = LargePagesIn(half[Newest].log)
  /\ UNCHANGED <<flash, pc, op, panic, committed, complete, refused, crashes>>

\* No header is valid, or the newest half is damaged: half 0 is formatted, header page first.
FormatErase ==
  /\ pc = "idle" /\ settings = None
  /\ ~ Mountable
  /\ half' = [half EXCEPT ![0] = Erased]
  /\ pc' = "fmt_header"
  /\ UNCHANGED <<content, settings, used, op, panic, committed, complete, refused, crashes>>

FormatHeader ==
  /\ pc = "fmt_header"
  /\ half' = [half EXCEPT ![0].gen = 1]
  /\ settings' = 0 /\ used' = {} /\ pc' = "idle"
  /\ UNCHANGED <<content, op, panic, committed, complete, refused, crashes>>

-----------------------------------------------------------------------------
(* jd_settings_set_bin *)

Ready == pc = "idle" /\ settings # None /\ ~ panic

\* The value is not the stored one; the log has space, or is compacted first.
SetBin(k, v) ==
  /\ Ready
  /\ Stored(cur.log, k) # v
  /\ op' = SmallEntry(k, v) /\ refused' = FALSE
  /\ pc' = IF free_space(cur.log) < SpaceOf(SmallEntry(k, v)) THEN "gc_erase" ELSE "data"
  /\ UNCHANGED <<flash, settings, used, panic, committed, complete, crashes>>

\* The value is programmed below the others.
ProgramData ==
  /\ pc = "data"
  /\ half' = [half EXCEPT ![settings].junk = TRUE]
  /\ pc' = "entry"
  /\ UNCHANGED <<content, settings, used, op, panic, committed, complete, refused, crashes>>

\* The entry is programmed, which makes the value the current one.
ProgramEntry ==
  /\ pc = "entry"
  /\ half' = [half EXCEPT ![settings].junk = FALSE, ![settings].log = Append(@, op)]
  /\ committed' = [committed EXCEPT ![op.key] = op.val]
  /\ pc' = "idle" /\ op' = NoOp
  /\ UNCHANGED <<content, settings, used, panic, complete, refused, crashes>>

-----------------------------------------------------------------------------
(* jd_fstor_gc *)

GcErase ==
  /\ pc = "gc_erase" /\ cur.gen < MaxGen
  /\ half' = [half EXCEPT ![alt] = Erased]
  /\ pc' = "gc_copy"
  /\ UNCHANGED <<content, settings, used, op, panic, committed, complete, refused, crashes>>

GcCopy ==
  /\ pc = "gc_copy"
  /\ half' = [half EXCEPT ![alt].log = Compact(cur.log)]
  /\ pc' = "gc_header"
  /\ UNCHANGED <<content, settings, used, op, panic, committed, complete, refused, crashes>>

\* The header validates the new half; the operation goes on if it has space now.
GcHeader ==
  /\ pc = "gc_header"
  /\ half' = [half EXCEPT ![alt].gen = cur.gen + 1]
  /\ settings' = alt
  /\ used' = LargePagesIn(half[alt].log)
  /\ refused' = (free_space(half[alt].log) < SpaceOf(op))
  /\ pc' = IF refused' THEN "idle" ELSE IF is_large(op) THEN "erase_pages" ELSE "data"
  /\ op' = IF refused' THEN NoOp ELSE op
  /\ UNCHANGED <<content, panic, committed, complete, crashes>>

-----------------------------------------------------------------------------
(* jd_settings_prep_large and jd_settings_write_large *)

\* used_data_pages after the pages of the key's entry are unmarked
Unmarked(k) ==
  LET i == find_entry(cur.log, k) IN IF i = 0 THEN used ELSE mark_large(used, cur.log[i], FALSE)

\* There is no free run: the pages are marked again.  The marks are in RAM, so a
\* crash between the two finds nothing of either.
NoRun(k) ==
  LET i == find_entry(cur.log, k) IN
  used' = IF i = 0 THEN used ELSE mark_large(Unmarked(k), cur.log[i], TRUE)

PrepLarge(k, n) ==
  LET runs == find_free_data(Unmarked(k), n) IN
  /\ Ready
  /\ \/ \* FSTOR_DATA_PAGES - pages wraps and data_page_used is asked for a page there is not
        /\ n > DataPages
        /\ panic' = TRUE
        /\ UNCHANGED <<used, pc, op, refused>>
     \/ /\ n <= DataPages /\ runs = {}
        /\ NoRun(k)
        /\ refused' = TRUE
        /\ UNCHANGED <<pc, op, panic>>
     \/ /\ runs # {}
        /\ used' = Unmarked(k)
        /\ op' = LargeEntry(k, Min(runs), n)
        /\ pc' = IF free_space(cur.log) < EntrySize THEN "gc_erase" ELSE "erase_pages"
        /\ refused' = FALSE
        /\ UNCHANGED panic
  /\ UNCHANGED <<flash, settings, committed, complete, crashes>>

ErasePages ==
  /\ pc = "erase_pages"
  /\ content' = [p \in DOMAIN content |-> IF p \in PagesOf(op) THEN None ELSE content[p]]
  /\ complete' = complete \ {op.key}
  /\ pc' = "large_entry"
  /\ UNCHANGED <<half, settings, used, op, panic, committed, refused, crashes>>

ProgramLargeEntry ==
  /\ pc = "large_entry"
  /\ half' = [half EXCEPT ![settings].log = Append(@, op)]
  /\ used' = mark_large(used, op, TRUE)
  /\ pc' = "write_large"
  /\ UNCHANGED <<content, settings, op, panic, committed, complete, refused, crashes>>

\* The caller programs the pages it was given.
WriteLarge ==
  /\ pc = "write_large"
  /\ content' = [p \in DOMAIN content |-> IF p \in PagesOf(op) THEN op.key ELSE content[p]]
  /\ complete' = complete \cup {op.key}
  /\ pc' = "idle" /\ op' = NoOp
  /\ UNCHANGED <<half, settings, used, panic, committed, refused, crashes>>

-----------------------------------------------------------------------------
\* Power fails, or the device is restarted; flash stays as it is.
Crash ==
  /\ crashes < MaxCrashes
  /\ pc = "entry" => TornWrites
  /\ settings' = None /\ used' = {} /\ pc' = "idle" /\ op' = NoOp /\ panic' = FALSE
  /\ refused' = FALSE
  /\ crashes' = crashes + 1
  /\ UNCHANGED <<flash, committed, complete>>

Next ==
  \/ Mount \/ FormatErase \/ FormatHeader
  \/ \E k \in Keys, v \in Values : SetBin(k, v)
  \/ ProgramData \/ ProgramEntry
  \/ GcErase \/ GcCopy \/ GcHeader
  \/ \E k \in LargeKeys, n \in LargePages : PrepLarge(k, n)
  \/ ErasePages \/ ProgramLargeEntry \/ WriteLarge
  \/ Crash

Spec == Init /\ [][Next]_vars

-----------------------------------------------------------------------------
(* Properties *)

Entry == [key : Keys \cup LargeKeys, val : Values \cup {None}, off : Nat, n : Nat]

\* Types; only pages there are get marked as used.
TypeOK ==
  /\ \A h \in {0, 1} : /\ half[h].gen \in 0 .. MaxGen /\ half[h].junk \in BOOLEAN
                       /\ half[h].log \in Seq(Entry)
  /\ content \in [0 .. DataPages - 1 -> LargeKeys \cup {None}]
  /\ settings \in {0, 1, None} /\ used \subseteq 0 .. DataPages - 1
  /\ pc \in {"idle", "fmt_header", "data", "entry", "gc_erase", "gc_copy", "gc_header",
             "erase_pages", "large_entry", "write_large"}
  /\ panic \in BOOLEAN /\ refused \in BOOLEAN
  /\ committed \in [Keys -> Values \cup {None}] /\ complete \subseteq LargeKeys

(***************************************************************************)
(* Once mounted, jd_settings_get_bin returns for every key what was stored *)
(* last, however often the log was compacted and power failed.             *)
(***************************************************************************)
SettingsSurvive ==
  settings # None => \A k \in Keys : Stored(cur.log, k) = committed[k]

(***************************************************************************)
(* There is always an unprogrammed entry after the last one, at which      *)
(* recompute_cache's loop over the entries ends.                           *)
(***************************************************************************)
LogEnds == \A h \in {0, 1} : half[h].gen # 0 => Used(half[h].log) + EntrySize <= HalfSpace

(***************************************************************************)
(* The data of a large value stays as it was written until its key is      *)
(* prepared again: no other operation is given its pages.                  *)
(***************************************************************************)
LargeIntact ==
  settings # None =>
    \A k \in complete : /\ LargeAt(cur.log, k) # {}
                        /\ \A p \in LargeAt(cur.log, k) : content[p] = k

(***************************************************************************)
(* Between operations every page of a current large value is marked used,  *)
(* so that find_free_data does not hand it out.                            *)
(***************************************************************************)
LivePagesMarked == Ready => LargePagesIn(cur.log) \subseteq used

\* The log, the small values and the large ones of jd_fstor.c never run into each
\* other, whatever is refused, compacted or cut short in between.
AreasApart == TypeOK /\ LogEnds /\ LargeIntact /\ LivePagesMarked

=============================================================================
