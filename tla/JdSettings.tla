------------------------------ MODULE JdSettings ------------------------------
(***************************************************************************)
(* The settings service (services/settings.c): packets that set, delete    *)
(* and get a setting of the store.  The payload is a key, a zero and a     *)
(* value.  The key is copied to a buffer of fixed size before its end is   *)
(* looked for.                                                             *)
(***************************************************************************)
EXTENDS Integers, Sequences, SequencesExt

CONSTANTS MAX_KEY_SIZE,
          Payloads,    \* sequences of bytes
          MaxRequests  \* bound: packets in a behaviour

VARIABLES store,    \* the store: set of [key, value], a key at most once
          report,   \* the payload of the last report, or NoReport
          requests  \* history: the packets, and whether the store took them

vars == <<store, report, requests>>

NoReport == <<-1>>

-----------------------------------------------------------------------------
\* Mutant: one byte less is copied, and a key that is too long is cut.
CopiedCut(data) == SubSeq(data, 1, IF Len(data) >= MAX_KEY_SIZE THEN MAX_KEY_SIZE ELSE Len(data))

\* What is copied to the buffer: one byte more than a key may have.
Copied(data) == SubSeq(data, 1, IF Len(data) >= MAX_KEY_SIZE + 1 THEN MAX_KEY_SIZE + 1 ELSE Len(data))

\* strlen
StrLen(bytes) == LET zero == SelectInSeq(bytes, LAMBDA b : b = 0) IN IF zero = 0 THEN Len(bytes) ELSE zero - 1

Key(data) == SubSeq(data, 1, StrLen(Copied(data)))

jd_settings_get_bin(key) ==
  IF \E e \in store : e.key = key THEN (CHOOSE e \in store : e.key = key).value ELSE <<>>

\* The store may have no space; the service does not tell.
jd_settings_set_bin(key, value, space) ==
  store' = IF space THEN {e \in store : e.key # key} \cup {[key |-> key, value |-> value]} ELSE store

Note(cmd, data, space) == requests' = Append(requests, [cmd |-> cmd, data |-> data, taken |-> space])

Handled(data) == Len(requests) < MaxRequests /\ Len(Key(data)) <= MAX_KEY_SIZE

SettingsGet(data) ==
  /\ Handled(data)
  /\ report' = Key(data) \o <<0>> \o jd_settings_get_bin(Key(data))
  /\ Note("get", data, TRUE)
  /\ UNCHANGED store

SettingsDelete(data, space) ==
  /\ Handled(data)
  /\ jd_settings_set_bin(Key(data), <<>>, space)
  /\ report' = NoReport
  /\ Note("delete", data, space)

SettingsSet(data, space) ==
  /\ Handled(data)
  /\ jd_settings_set_bin(Key(data), SubSeq(data, Len(Key(data)) + 2, Len(data)), space)
  /\ report' = NoReport
  /\ Note("set", data, space)

\* The key is too long.
SettingsIgnored(cmd, data) ==
  /\ Len(requests) < MaxRequests /\ Len(Key(data)) > MAX_KEY_SIZE
  /\ report' = NoReport
  /\ Note(cmd, data, FALSE)
  /\ UNCHANGED store

Init == store = {} /\ report = NoReport /\ requests = <<>>

Next ==
  \E data \in Payloads :
    \/ SettingsGet(data)
    \/ \E space \in BOOLEAN : SettingsDelete(data, space) \/ SettingsSet(data, space)
    \/ \E cmd \in {"get", "delete", "set"} : SettingsIgnored(cmd, data)

Spec == Init /\ [][Next]_vars

-----------------------------------------------------------------------------
(* What a client means by a payload.                                       *)

Meant(data) ==
  LET zeros == {i \in DOMAIN data : data[i] = 0}
      end == IF zeros = {} THEN Len(data) + 1 ELSE CHOOSE i \in zeros : \A j \in zeros : i <= j
  IN  [key |-> SubSeq(data, 1, end - 1), value |-> SubSeq(data, end + 1, Len(data))]

\* The value of the last change of the key that the store took, before request n.
LastValue(key, n) ==
  LET of == {i \in 1..n - 1 : requests[i].cmd # "get" /\ requests[i].taken /\ Meant(requests[i].data).key = key}
  IN  IF of = {} THEN <<>>
      ELSE LET last == requests[CHOOSE i \in of : \A j \in of : i >= j]
           IN  IF last.cmd = "delete" THEN <<>> ELSE Meant(last.data).value

\* A get is answered with the key and the value that was last set for exactly
\* that key; a key that is too long is neither answered nor cut to another key's
\* name, wherever the zero of the payload is.
GetsWhatWasSet ==
  LET n == Len(requests) IN
  /\ n > 0 /\ requests[n].cmd = "get" =>
       LET key == Meant(requests[n].data).key
       IN  report = IF Len(key) > MAX_KEY_SIZE THEN NoReport ELSE key \o <<0>> \o LastValue(key, n)
  /\ \A e \in store : Len(e.key) <= MAX_KEY_SIZE /\ e.value = LastValue(e.key, n + 1)
=============================================================================
