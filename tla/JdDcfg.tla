-------------------------------- MODULE JdDcfg --------------------------------
(***************************************************************************)
(* Device configuration (source/jd_dcfg.c, source/jd_srvcfg.c): two images *)
(* of key/value entries, the manufacturer's in flash and the user's, each  *)
(* sorted by the hash of the key with a table of where the hashes of a     *)
(* bucket start; and the services started from them.                       *)
(*                                                                         *)
(* A key is a sequence of parts; an image a sequence of entries, its jump  *)
(* table, its size and the positions that hold a zero byte.  An entry      *)
(* takes one unit, the header none.  Words have W values instead of 2^32.  *)
(***************************************************************************)
EXTENDS Integers, Sequences, SequencesExt

CONSTANTS Hash(_),    \* the hash of a key, below SENTINEL
          SENTINEL,   \* 0xffff
          BUCKET,     \* hashes per bucket
          KEYSIZE,
          LIMIT,      \* 128 * 1024
          W,
          USER,       \* 0x40: where the services of the user's image start
          Images,     \* images that are offered, sound or not
          Flash,      \* images found in flash
          Keys,       \* keys asked for
          Known(_)    \* how many services the function of a service name starts; -1: not known

VARIABLES mfr,      \* mfr_config: an image or NoImage
          user,     \* user_config
          idx,      \* jd_srvcfg_idx; 0xff is Done
          srvs,     \* the services: the entry each was started by
          idx_map   \* jd_srvcfg_idx_map: service index to entry, -1 is 0xff

vars == <<mfr, user, idx, srvs, idx_map>>

NoImage == [entries |-> <<>>, jump |-> <<>>, total |-> 0, zeros |-> {}, magic |-> FALSE]
NoEntry == [key |-> <<>>, hash |-> 0, type |-> "invalid", size |-> 0, value |-> 0]
Done == 255

-----------------------------------------------------------------------------
HashAt(img, i) == IF i = Len(img.entries) THEN SENTINEL ELSE img.entries[i + 1].hash

\* Mutant: the table may point past the first entry of a bucket.
JumpsLate(img) ==
  \A i \in 0..SENTINEL \div BUCKET :
    LET at == img.jump[i + 1] IN at <= Len(img.entries) /\ HashAt(img, at) \div BUCKET >= i

\* The table points to the first entry whose hash is in the bucket or above.
Jumps(img) ==
  \A i \in 0..SENTINEL \div BUCKET :
    LET at == img.jump[i + 1] IN
    /\ at <= Len(img.entries)
    /\ HashAt(img, at) \div BUCKET >= i
    /\ at = 0 \/ HashAt(img, at - 1) \div BUCKET < i

dcfg_validate(img) ==
  LET num == Len(img.entries) IN
  /\ img.magic
  /\ img.total < LIMIT
  /\ num + 1 <= img.total
  /\ Jumps(img)
  /\ \A i \in 1..num :
       LET e == img.entries[i] IN
       /\ Len(e.key) <= KEYSIZE
       /\ Hash(e.key) = e.hash
       /\ i = 1 \/ img.entries[i - 1].hash <= e.hash
       /\ e.type \in {"u32", "i32"} => e.size = 0
       /\ e.type \in {"string", "blob"} =>
            e.value >= num + 1 /\ e.value + e.size < img.total /\ e.value + e.size \in img.zeros

\* The first entry from the bucket's start whose hash is the key's and whose key begins
\* with it (memcmp over the length of the key asked for).
get_entry(img, key) ==
  LET h == Hash(key)
      from == img.jump[(h \div BUCKET) + 1]
      hit(i) == i > from /\ (\A j \in from + 1..i : img.entries[j].hash <= h)
                /\ img.entries[i].hash = h /\ IsPrefix(key, img.entries[i].key)
      hits == {i \in DOMAIN img.entries : hit(i)}
  IN  IF img = NoImage \/ Len(key) > KEYSIZE \/ hits = {} THEN NoEntry
      ELSE img.entries[CHOOSE i \in hits : \A j \in hits : i <= j]

dcfg_get_entry(key) == LET e == get_entry(user, key) IN IF e # NoEntry THEN e ELSE get_entry(mfr, key)

\* Places are <<image, index>>; <<0, 0>> is none.
dcfg_get_next_entry(prefix, previous) ==
  LET imgs == <<user, mfr>>
      after(c) == IF previous = <<0, 0>> \/ previous[1] < c THEN 0
                  ELSE IF previous[1] = c THEN previous[2] ELSE Len(imgs[c].entries)
      hits(c) == {i \in after(c) + 1..Len(imgs[c].entries) : IsPrefix(prefix, imgs[c].entries[i].key)}
      first(c) == <<c, CHOOSE i \in hits(c) : \A j \in hits(c) : i <= j>>
  IN  IF hits(1) # {} THEN first(1) ELSE IF hits(2) # {} THEN first(2) ELSE <<0, 0>>

Signed(v) == IF v < W \div 2 THEN v ELSE v - W

dcfg_get_i32(key, defl) ==
  LET e == dcfg_get_entry(key) IN
  CASE e.type = "u32" -> IF e.value > (W \div 2) - 1 THEN defl ELSE e.value
    [] e.type = "i32" -> Signed(e.value)
    [] OTHER -> defl

dcfg_get_u32(key, defl) ==
  LET e == dcfg_get_entry(key) IN
  CASE e.type = "i32" -> IF Signed(e.value) < 0 THEN defl ELSE e.value
    [] e.type = "u32" -> e.value
    [] OTHER -> defl

\* Where the string of a key is: the image and the entry, or NoEntry.
dcfg_get_string(key) ==
  LET mine == get_entry(user, key) # NoEntry
      e == dcfg_get_entry(key)
  IN  IF e.type \in {"string", "blob"} THEN [img |-> IF mine THEN user ELSE mfr, entry |-> e]
      ELSE [img |-> NoImage, entry |-> NoEntry]

-----------------------------------------------------------------------------
\* dcfg_init: the image in flash is used if it is sound.
Init ==
  /\ mfr \in {IF dcfg_validate(img) THEN img ELSE NoImage : img \in Flash}
  /\ user = NoImage
  /\ idx = 0 /\ srvs = <<>>
  /\ idx_map = [i \in 0..7 |-> -1]

dcfg_set_user_config ==
  \E img \in Images :
    /\ user' = IF dcfg_validate(img) THEN img ELSE NoImage
    /\ UNCHANGED <<mfr, idx, srvs, idx_map>>

ServiceKey(i) == <<ToString(i), "service">>

\* One turn of jd_srvcfg_run, which runs to its end before anything else.
jd_srvcfg_run ==
  LET name == dcfg_get_string(ServiceKey(idx)).entry IN
  /\ idx # Done
  /\ IF name = NoEntry
     THEN idx' = (IF idx < USER THEN USER ELSE Done) /\ UNCHANGED <<srvs, idx_map>>
     ELSE /\ idx' = idx + 1
          /\ IF Known(name) < 0 THEN UNCHANGED <<srvs, idx_map>>
             ELSE /\ idx_map' = [idx_map EXCEPT ![Len(srvs)] = idx]
                  /\ srvs' = srvs \o [i \in 1..Known(name) |-> idx]
  /\ UNCHANGED <<mfr, user>>

\* The user's image is set before the services are started, or later.
Next == (idx \in {0, Done} /\ dcfg_set_user_config) \/ jd_srvcfg_run

Spec == Init /\ [][Next]_vars

-----------------------------------------------------------------------------
Has(img, key) == \E i \in DOMAIN img.entries : img.entries[i].key = key

\* A longer key with the hash of the one asked for would be taken for it.
NoClash(key) ==
  \A img \in {user, mfr} : \A i \in DOMAIN img.entries :
    LET k == img.entries[i].key IN k # key /\ IsPrefix(key, k) => Hash(k) # Hash(key)

RECURSIVE From(_, _)
From(prefix, place) ==
  LET n == dcfg_get_next_entry(prefix, place) IN IF n = <<0, 0>> THEN <<>> ELSE <<n>> \o From(prefix, n)

\* Whatever images were offered, a key that is in an image in use is found, the
\* user's entry before the manufacturer's, and no other key is; a string lies
\* inside its image and ends there; a number is in the range it is asked for.
LookupsRight ==
  \A key \in Keys :
    NoClash(key) =>
      LET e == dcfg_get_entry(key)
          s == dcfg_get_string(key)
      IN  /\ e = NoEntry <=> ~Has(user, key) /\ ~Has(mfr, key)
          /\ e # NoEntry => /\ e.key = key
                            /\ e \in Range(IF Has(user, key) THEN user.entries ELSE mfr.entries)
          /\ s.entry # NoEntry => s.entry.value + s.entry.size \in s.img.zeros /\ s.entry \in Range(s.img.entries)
          /\ dcfg_get_i32(key, 0) \in -(W \div 2)..(W \div 2) - 1
          /\ e.type \in {"u32", "i32"} /\ dcfg_get_u32(key, W) # W => dcfg_get_u32(key, W) = e.value

\* Going from entry to entry meets every entry of the prefix once, the user's first.
EnumerationComplete ==
  \A key \in Keys :
    LET imgs == <<user, mfr>>
        all == {<<c, i>> \in (1..2) \X (1..9) :
                  i <= Len(imgs[c].entries) /\ IsPrefix(key, imgs[c].entries[i].key)}
        met == From(key, <<0, 0>>)
    IN  Range(met) = all /\ Len(met) = Cardinality(all)

\* The services follow the order of the entries, and a service that has an entry in
\* jd_srvcfg_idx_map was started by it.
ServicesMapped ==
  /\ \A i \in 1..Len(srvs) - 1 : srvs[i] <= srvs[i + 1]
  /\ \A s \in 0..Len(srvs) - 1 : idx_map[s] # -1 => idx_map[s] = srvs[s + 1]
=============================================================================
