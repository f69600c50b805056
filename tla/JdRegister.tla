----------------------------- MODULE JdRegister -----------------------------
(***************************************************************************)
(* The register queries of client/routing.c: for every register of a       *)
(* remote service that the application asks for, a query with the value of *)
(* the last answer, kept inline or, when long, in a buffer of its own.     *)
(* Requests and answers may be lost, the remote value changes, and the     *)
(* remote device may be forgotten and found again.                         *)
(***************************************************************************)
EXTENDS Naturals, FiniteSets

CONSTANTS
  Regs,         \* registers asked for
  Missing,      \* those the remote service does not implement
  Values,       \* what a register may hold: [size, data]
  MAX_INLINE,   \* JD_REGISTER_QUERY_MAX_INLINE
  Buffers,      \* buffers jd_alloc may return
  MaxChanges    \* changes of values, losses and disconnections in a behaviour

VARIABLES
  queries,      \* reg -> [service_index, resp_size, data, buffer, asked], for the queries there are
  heap,         \* buffers allocated
  lost_buffers, \* buffers no query has any more
  remote,       \* the value of each register at the remote service
  requests, answers,  \* packets on the way
  told,         \* history: what the application knows from the events
  refused,      \* history: registers it knows to be missing
  changes

vars == <<queries, heap, lost_buffers, remote, requests, answers, told, refused, changes>>

None == [size |-> 0, data |-> "none"]
NI == 128       \* the bit that marks a query as not implemented
NoBuffer == 0

Init ==
  /\ queries = [r \in {} |-> None]
  /\ heap = {} /\ lost_buffers = {}
  /\ remote \in [Regs -> {CHOOSE v \in Values : TRUE}]
  /\ requests = {} /\ answers = {} /\ changes = 0
  /\ told = [r \in Regs |-> None] /\ refused = {}

jd_register_not_implemented(q) == q.service_index >= NI
Extended(f, r, q) == [x \in DOMAIN f \cup {r} |-> IF x = r THEN q ELSE f[x]]

\* External: it panics, and nothing more happens, when there is no memory left.
CanAlloc(used) == Buffers \ used # {}
jd_alloc(used) == CHOOSE b \in Buffers \ used : TRUE

\* jd_service_query; old: is it more than refresh_ms since the last request?
jd_service_query(r, old) ==
  LET q == IF r \in DOMAIN queries THEN queries[r]
           ELSE [service_index |-> 1, resp_size |-> 0, data |-> "none", buffer |-> NoBuffer,
                 asked |-> FALSE]
      send == ~ jd_register_not_implemented(q) /\ (~ q.asked \/ old)
  IN  /\ queries' = Extended(queries, r, [q EXCEPT !.asked = @ \/ send])
      /\ requests' = IF send THEN requests \cup {r} ELSE requests
      /\ UNCHANGED <<heap, lost_buffers, remote, answers, told, refused, changes>>

\* The remote service answers (external); each value sent is on its way once.
Answer(r) ==
  /\ r \in requests /\ requests' = requests \ {r}
  /\ answers' = answers \cup {[reg |-> r, value |-> remote[r], ni |-> r \in Missing]}
  /\ UNCHANGED <<queries, heap, lost_buffers, remote, told, refused, changes>>

Change(r) ==
  /\ changes < MaxChanges /\ changes' = changes + 1
  /\ \E v \in Values : remote' = [remote EXCEPT ![r] = v]
  /\ UNCHANGED <<queries, heap, lost_buffers, requests, answers, told, refused>>

Lost ==
  /\ changes < MaxChanges /\ changes' = changes + 1
  /\ \/ \E r \in requests : requests' = requests \ {r} /\ answers' = answers
     \/ \E a \in answers : answers' = answers \ {a} /\ requests' = requests
  /\ UNCHANGED <<queries, heap, lost_buffers, remote, told, refused>>

\* handle_register on JD_CMD_COMMAND_NOT_IMPLEMENTED
NotImplemented(a) ==
  /\ a.ni /\ answers' = answers \ {a}
  /\ IF a.reg \in DOMAIN queries /\ ~ jd_register_not_implemented(queries[a.reg])
     THEN /\ queries' = [queries EXCEPT ![a.reg].service_index = @ + NI]
          /\ refused' = refused \cup {a.reg}
     ELSE UNCHANGED <<queries, refused>>
  /\ UNCHANGED <<heap, lost_buffers, remote, requests, told, changes>>

\* Mutant: the buffer is replaced only when the new value is longer.
handle_registerLonger(a) ==
  /\ ~ a.ni /\ answers' = answers \ {a}
  /\ IF a.reg \in DOMAIN queries
     THEN LET q == queries[a.reg] IN
          /\ IF a.value.size > q.resp_size /\ a.value.size > MAX_INLINE
             THEN LET b == jd_alloc(heap) IN
                    /\ heap' = (heap \ {q.buffer}) \cup {b}
                    /\ queries' = [queries EXCEPT ![a.reg] = [q EXCEPT
                                     !.buffer = b, !.resp_size = a.value.size, !.data = a.value.data]]
             ELSE /\ heap' = heap
                  /\ queries' = [queries EXCEPT ![a.reg] = [q EXCEPT
                                   !.resp_size = a.value.size, !.data = a.value.data]]
          /\ told' = IF q.resp_size # a.value.size \/ q.data # a.value.data
                     THEN [told EXCEPT ![a.reg] = a.value] ELSE told
          /\ lost_buffers' = lost_buffers
     ELSE UNCHANGED <<queries, heap, lost_buffers, told>>
  /\ UNCHANGED <<remote, requests, refused, changes>>

(***************************************************************************)
(* handle_register on the answer to a get.  A value that shrinks to an     *)
(* inline one is written over the pointer to its buffer, which is lost.    *)
(***************************************************************************)
handle_register(a) ==
  /\ ~ a.ni /\ answers' = answers \ {a}
  /\ IF a.reg \in DOMAIN queries
     THEN LET q == queries[a.reg]
              was_long == q.resp_size > MAX_INLINE
              long == a.value.size > MAX_INLINE
              chg == q.resp_size # a.value.size \/ q.data # a.value.data
              new(b) == [q EXCEPT !.buffer = b, !.resp_size = a.value.size, !.data = a.value.data]
              kept == IF was_long THEN heap \ {q.buffer} ELSE heap
          IN  /\ IF long /\ q.resp_size # a.value.size
                 THEN LET b == jd_alloc(kept) IN
                      /\ CanAlloc(kept)
                      /\ heap' = kept \cup {b}
                      /\ queries' = [queries EXCEPT ![a.reg] = new(b)]
                      /\ lost_buffers' = lost_buffers
                 ELSE /\ heap' = heap
                      /\ queries' = [queries EXCEPT ![a.reg] = new(IF long THEN q.buffer ELSE NoBuffer)]
                      /\ lost_buffers' = lost_buffers \cup
                                         (IF was_long /\ ~ long THEN {q.buffer} ELSE {})
              /\ told' = IF chg THEN [told EXCEPT ![a.reg] = a.value] ELSE told
     ELSE UNCHANGED <<queries, heap, lost_buffers, told>>
  /\ UNCHANGED <<remote, requests, refused, changes>>

\* jd_device_clear_queries(d, 0xff), when the device is freed; the application forgets it, too.
jd_device_clear_queries ==
  /\ changes < MaxChanges /\ changes' = changes + 1
  /\ heap' = heap \ {queries[r].buffer : r \in {x \in DOMAIN queries : queries[x].resp_size > MAX_INLINE}}
  /\ queries' = [r \in {} |-> None]
  /\ told' = [r \in Regs |-> None] /\ refused' = {}
  /\ UNCHANGED <<lost_buffers, remote, requests, answers>>

Next ==
  \/ \E r \in Regs : (\E old \in BOOLEAN : jd_service_query(r, old)) \/ Answer(r) \/ Change(r)
  \/ \E a \in answers : NotImplemented(a) \/ handle_register(a)
  \/ Lost \/ jd_device_clear_queries

Spec == Init /\ [][Next]_vars

-----------------------------------------------------------------------------
(* Properties *)

Long(r) == r \in DOMAIN queries /\ queries[r].resp_size > MAX_INLINE

(***************************************************************************)
(* What the application was told by the last event of a register is what   *)
(* its query holds; every long value has a buffer of its own that is       *)
(* allocated, and every allocated buffer has its query, except the ones    *)
(* lost when a value shrank.                                               *)
(***************************************************************************)
CacheInSync ==
  /\ \A r \in Regs :
       IF r \in DOMAIN queries
       THEN told[r] = [size |-> queries[r].resp_size, data |-> queries[r].data]
       ELSE told[r] = None
  /\ {queries[r].buffer : r \in {x \in Regs : Long(x)}} = heap \ lost_buffers
  /\ \A r, s \in Regs : Long(r) /\ Long(s) /\ r # s => queries[r].buffer # queries[s].buffer
  /\ lost_buffers \subseteq heap
  /\ \A r \in DOMAIN queries : jd_register_not_implemented(queries[r]) <=> r \in refused

=============================================================================
