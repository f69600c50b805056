------------------------------ MODULE JdClient ------------------------------
(***************************************************************************)
(* The client's picture of the bus.  client/routing.c keeps a list of the  *)
(* devices whose announcements it hears, and forgets or replaces them;     *)
(* client/rolemgr.c binds the program's roles to their services.           *)
(*                                                                         *)
(* Time is counted in announcement periods (500 ms).  A device announces   *)
(* itself once a period; any announcement may be lost, and a device may    *)
(* restart with other services.  Device 0 is the client's own device.      *)
(***************************************************************************)
EXTENDS Integers, Sequences, SequencesExt, FiniteSets, Functions

CONSTANTS
  MaxId,        \* devices, numbered as memcmp orders their identifiers; 0 is this device
  FirstTables,  \* the service table each device starts with: [0 .. n -> class], 0 -> 0
  Tables,       \* those one may restart with
  MaxRole,      \* roles, numbered from 1 as strcmp orders their names
  RoleClass, RoleHint, Hidden, \* of each role: class, [dev, srvo], is it hidden?
  AppDevice,    \* the device jd_role_set_hints names
  STEADY,       \* JD_CONTROL_ANNOUNCE_FLAGS_RESTART_COUNTER_STEADY
  EXPIRES,      \* EXPIRES_USEC in periods
  MaxRestarts   \* bound on the restarts of all devices

Ids == 0 .. MaxId
RoleNames == 1 .. MaxRole
AllTables == Range(FirstTables) \cup Tables

ASSUME ConstantsAssumption ==
  /\ MaxId \in Nat /\ MaxRole \in Nat /\ MaxRestarts \in Nat
  /\ STEADY \in Nat /\ EXPIRES \in 2 .. STEADY
  /\ FirstTables \in [Ids -> AllTables]
  /\ \A t \in AllTables : DOMAIN t \subseteq Nat

VARIABLES
  (* the devices themselves *)
  life,       \* how often each has restarted
  table,      \* its services
  reset_counter,
  due,        \* devices that have not announced in this period
  (* routing.c *)
  jd_devices, \* the list: [id, gen, flags, left, services, assigned; history: life, own, later]
  gcDue,      \* next_gc
  gens,       \* distinguishes a device record from its predecessor at another address
  (* rolemgr.c *)
  roles,      \* the roles that exist, listed by name
  service,    \* service each is bound to: [dev, gen, idx], or NULL
  changed, list_ptr, list_pipe,
  auto_bind_enabled, force_hints,
  doubled     \* history: has a command bound a role to a service that had one?

bus == <<life, table, reset_counter, due>>
routing == <<jd_devices, gcDue, gens>>
rolemgr == <<roles, service, changed, list_ptr, list_pipe, auto_bind_enabled, force_hints, doubled>>
vars == <<bus, routing, rolemgr>>

NULL == [dev |-> -1, gen |-> 0, idx |-> 0]

(***************************************************************************)
(* rolemgr_set and what is built on it work on a state [devs, srv, chg]:   *)
(* the list, the bindings and the changed flag.                            *)
(***************************************************************************)
State == [devs |-> jd_devices, srv |-> service, chg |-> changed]

Mark(devs, s, on) ==
  [i \in DOMAIN devs |->
     IF devs[i].id # s.dev THEN devs[i]
     ELSE [devs[i] EXCEPT !.assigned = IF on THEN @ \cup {s.idx} ELSE @ \ {s.idx}]]

\* Mutant: the flag of the service that was bound so far stays.
rolemgr_setNoUnmark(st, r, s) ==
  IF st.srv[r] = s THEN st
  ELSE [devs |-> Mark(st.devs, s, TRUE), srv |-> [st.srv EXCEPT ![r] = s], chg |-> TRUE]

rolemgr_set(st, r, s) ==
  IF st.srv[r] = s THEN st
  ELSE [devs |-> Mark(Mark(st.devs, st.srv[r], FALSE), s, TRUE),
        srv |-> [st.srv EXCEPT ![r] = s],
        chg |-> TRUE]

\* rolemgr_set(r, NULL) for every r in rs
SetAll(st, rs) ==
  [devs |-> [k \in DOMAIN st.devs |->
               [st.devs[k] EXCEPT !.assigned =
                  {i \in @ : \A r \in rs : st.srv[r].dev # st.devs[k].id \/ st.srv[r].idx # i}]],
   srv |-> [r \in RoleNames |-> IF r \in rs THEN NULL ELSE st.srv[r]],
   chg |-> (st.chg \/ \E r \in rs : st.srv[r] # NULL)]

\* Mutant: the roles keep pointing to the devices.
rolemgr_device_destroyedKept(st, gone) == st

\* rolemgr_device_destroyed for every device in gone
rolemgr_device_destroyed(st, gone) ==
  SetAll(st, {r \in roles : \E d \in gone : st.srv[r].dev = d.id /\ st.srv[r].gen = d.gen})

\* fits_at, jd_device_alloc: the list is sorted, this device comes first.
fits_at(d, id) == id = 0 \/ (d.id # 0 /\ id < d.id)

Insert(devs, d) ==
  LET at == {i \in DOMAIN devs : fits_at(devs[i], d.id)}
  IN  IF at = {} THEN Append(devs, d)
      ELSE InsertAt(devs, CHOOSE i \in at : \A j \in at : i <= j, d)

jd_device_alloc(devs, id, flags, gen) ==
  Insert(devs, [id |-> id, gen |-> gen, flags |-> flags, left |-> EXPIRES,
                services |-> table[id], assigned |-> {},
                life |-> life[id], own |-> flags, later |-> FALSE])

Known(devs, id) == \E i \in DOMAIN devs : devs[i].id = id
Lookup(devs, id) == devs[CHOOSE i \in DOMAIN devs : devs[i].id = id]

\* jd_device_unlink for every position in gone
Unlinked(devs, gone) ==
  LET kept[k \in 0 .. Len(devs)] ==
        IF k = 0 THEN <<>>
        ELSE IF k \in gone THEN kept[k - 1] ELSE Append(kept[k - 1], devs[k])
  IN  kept[Len(devs)]

\* The classes of a device's services, and those that rolemgr_autobind may give to a role.
Service(d, i) == [dev |-> d.id, gen |-> d.gen, idx |-> i]
OfClass(d, r, from) ==
  {i \in DOMAIN d.services : i >= from /\ d.services[i] = RoleClass[r]}

\* rolemgr_use_hint: the srvo-th service of the role's class on the device of the hint
rolemgr_use_hint(st, r) ==
  LET h == RoleHint[r]
      id == CASE h.dev = "app" -> AppDevice [] h.dev = "int" -> 0 [] h.dev = "none" -> -1
  IN  IF st.srv[r] # NULL \/ ~ Known(st.devs, id) THEN st
      ELSE LET d == Lookup(st.devs, id)
               nth == {i \in OfClass(d, r, 0) :
                         Cardinality({j \in OfClass(d, r, 0) : j < i}) = h.srvo}
           IN  IF nth = {} \/ nth \subseteq d.assigned THEN st
               ELSE rolemgr_set(st, r, Service(d, CHOOSE i \in nth \ d.assigned : TRUE))

\* The first service of its class, in the order of the list, that has no role
FirstFree(st, r) ==
  LET free(d) == OfClass(d, r, 1) \ d.assigned
      has == {k \in DOMAIN st.devs : free(st.devs[k]) # {}}
  IN  IF st.srv[r] # NULL \/ (RoleHint[r].dev # "none" /\ force_hints) \/ has = {} THEN st
      ELSE LET d == st.devs[CHOOSE k \in has : \A j \in has : k <= j]
               i == CHOOSE i \in free(d) : \A j \in free(d) : i <= j
           IN  rolemgr_set(st, r, Service(d, i))

\* The two loops of rolemgr_autobind, over the roles in the order of their names
UseHints(st) ==
  LET after[r \in 0 .. MaxRole] ==
        IF r = 0 THEN st
        ELSE IF r \in roles THEN rolemgr_use_hint(after[r - 1], r) ELSE after[r - 1]
  IN  after[MaxRole]

BindFree(st) ==
  LET after[r \in 0 .. MaxRole] ==
        IF r = 0 THEN st
        ELSE IF r \in roles THEN FirstFree(after[r - 1], r) ELSE after[r - 1]
  IN  after[MaxRole]

rolemgr_autobind(st) == IF auto_bind_enabled THEN BindFree(UseHints(st)) ELSE st

Becomes(st) == jd_devices' = st.devs /\ service' = st.srv /\ changed' = st.chg

Init ==
  /\ life = [d \in Ids |-> 0] /\ table = FirstTables
  /\ reset_counter = [d \in Ids |-> 0] /\ due = Ids
  /\ jd_devices = <<>> /\ gcDue = TRUE /\ gens = [d \in Ids |-> 0]
  /\ roles = {} /\ service = [r \in RoleNames |-> NULL]
  /\ changed = FALSE /\ list_ptr = 0 /\ list_pipe = FALSE
  /\ auto_bind_enabled = TRUE /\ force_hints \in BOOLEAN /\ doubled = FALSE

-----------------------------------------------------------------------------
(* The devices *)

\* A restart of this device restarts the client too.
Restart(d) ==
  /\ d # 0
  /\ \E t \in Tables : table' = [table EXCEPT ![d] = t]
  /\ FoldFunction(+, 0, life) < MaxRestarts
  /\ life' = [life EXCEPT ![d] = @ + 1]
  /\ reset_counter' = [reset_counter EXCEPT ![d] = 0]
  /\ due' = due \cup {d}
  /\ jd_devices' = [i \in DOMAIN jd_devices |->
                      IF jd_devices[i].id = d THEN [jd_devices[i] EXCEPT !.later = FALSE]
                      ELSE jd_devices[i]]
  /\ UNCHANGED <<gcDue, gens, rolemgr>>

\* jd_services_announce
Announcing(d) ==
  /\ d \in due
  /\ due' = due \ {d}
  /\ reset_counter' = [reset_counter EXCEPT ![d] = IF @ < STEADY THEN @ + 1 ELSE @]
  /\ UNCHANGED <<life, table>>

AnnounceLost(d) == d # 0 /\ Announcing(d) /\ UNCHANGED <<routing, rolemgr>>

-----------------------------------------------------------------------------
(* routing.c *)

\* Mutant: only a counter that starts again from the beginning shows a restart.
RestartedFromZero(old, new) == new = 1 /\ old > new
Restarted(old, new) == old > new

(***************************************************************************)
(* jd_client_handle_packet on an announcement.  The fields later and own   *)
(* of the record are history: has it met the device's later life, and the  *)
(* counter last heard from its own.                                        *)
(***************************************************************************)
HandleAnnounce(d) ==
  LET flags == reset_counter'[d]
      fresh == ~ Known(jd_devices, d)
      old == Lookup(jd_devices, d)
      at == {i \in DOMAIN jd_devices : jd_devices[i].id = d}
      reset == IF fresh THEN FALSE ELSE Restarted(old.flags, flags)
      st == IF reset THEN rolemgr_device_destroyed([State EXCEPT !.devs = Unlinked(jd_devices, at)], {old})
            ELSE State
      same(x) == [x EXCEPT !.flags = flags, !.left = EXPIRES,
                           !.own = IF x.life = life[d] THEN flags ELSE @,
                           !.later = x.life # life[d]]
  IN  /\ Announcing(d)
      /\ IF fresh \/ reset
         THEN /\ gens' = [gens EXCEPT ![d] = 1 - @]
              /\ Becomes([st EXCEPT !.devs = jd_device_alloc(@, d, flags, gens'[d])])
         ELSE /\ gens' = gens
              /\ Becomes([st EXCEPT !.devs = [i \in DOMAIN @ |-> IF @[i].id = d THEN same(@[i]) ELSE @[i]]])
      /\ UNCHANGED <<gcDue, roles, list_ptr, list_pipe, auto_bind_enabled, force_hints, doubled>>

(***************************************************************************)
(* jd_device_gc: the positions it frees.  Expired devices at the head of   *)
(* the list go, and of those further on each that does not follow one just *)
(* freed: the loop passes over the successor of a device it frees.         *)
(***************************************************************************)
jd_device_gc(devs) ==
  LET expired(k) == devs[k].left <= 0
      head(k) == \A j \in 1 .. k : expired(j)
      freed[k \in 0 .. Len(devs)] ==
        IF k = 0 THEN FALSE ELSE expired(k) /\ (head(k) \/ ~ freed[k - 1])
  IN  {k \in DOMAIN devs : freed[k]}

jd_client_process ==
  /\ gcDue
  /\ gcDue' = FALSE
  /\ LET freed == jd_device_gc(jd_devices)
     IN  Becomes(rolemgr_device_destroyed([State EXCEPT !.devs = Unlinked(jd_devices, freed)],
                                          {jd_devices[k] : k \in freed}))
  /\ UNCHANGED <<bus, gens, roles, list_ptr, list_pipe, auto_bind_enabled, force_hints, doubled>>

\* The next period; in each one the devices announce and the client collects garbage.
Tick ==
  /\ due = {} /\ ~ gcDue
  /\ due' = Ids /\ gcDue' = TRUE
  /\ jd_devices' = [i \in DOMAIN jd_devices |->
                      [jd_devices[i] EXCEPT !.left = @ - 1]]
  /\ UNCHANGED <<life, table, reset_counter, gens, rolemgr>>

-----------------------------------------------------------------------------
(* rolemgr.c *)

\* The first role that is not hidden among those after r; 0 if there is none
next_visible(r) ==
  LET rest == {q \in roles \ Hidden : q > r}
  IN  IF rest = {} THEN 0 ELSE CHOOSE q \in rest : \A p \in rest : q <= p

(***************************************************************************)
(* rolemgr_process, its three parts: one turn of the loop that lists the   *)
(* roles (the pipe may have no room yet, or be broken), the periodic       *)
(* binding, and the change event.                                          *)
(***************************************************************************)
ListOne ==
  /\ list_ptr # 0
  /\ \E err \in BOOLEAN :
       /\ list_ptr' = IF err THEN 0 ELSE next_visible(list_ptr)
       /\ list_pipe' = (list_ptr' # 0)
  /\ UNCHANGED <<bus, routing, roles, service, changed, auto_bind_enabled, force_hints, doubled>>

Autobind ==
  /\ Becomes(rolemgr_autobind(State))
  /\ UNCHANGED <<bus, gcDue, gens, roles, list_ptr, list_pipe, auto_bind_enabled, force_hints, doubled>>

SendChange ==
  /\ changed /\ changed' = FALSE
  /\ UNCHANGED <<bus, routing, roles, service, list_ptr, list_pipe, auto_bind_enabled, force_hints, doubled>>

ClearAllRoles ==
  /\ Becomes(SetAll(State, roles))
  /\ UNCHANGED <<bus, gcDue, gens, roles, list_ptr, list_pipe, auto_bind_enabled, force_hints, doubled>>

\* rolemgr_set_role with a device: any of its services, whatever its class and role
rolemgr_set_role(r, id) ==
  /\ r \in roles /\ Known(jd_devices, id)
  /\ LET d == Lookup(jd_devices, id) IN
     \E idx \in DOMAIN d.services :
       /\ Becomes(rolemgr_set(State, r, Service(d, idx)))
       /\ doubled' = (doubled \/ \E q \in roles \ {r} : service[q] = Service(d, idx))
  /\ UNCHANGED <<bus, gcDue, gens, roles, list_ptr, list_pipe, auto_bind_enabled, force_hints>>

\* ... and without one
ClearRole(r) ==
  /\ r \in roles
  /\ Becomes(rolemgr_set(State, r, NULL))
  /\ UNCHANGED <<bus, gcDue, gens, roles, list_ptr, list_pipe, auto_bind_enabled, force_hints, doubled>>

ListRoles ==
  /\ list_ptr' = next_visible(0)
  /\ list_pipe' = (list_ptr' # 0)
  /\ UNCHANGED <<bus, routing, roles, service, changed, auto_bind_enabled, force_hints, doubled>>

\* The register auto_bind
WriteAutoBind ==
  /\ auto_bind_enabled' = ~ auto_bind_enabled
  /\ UNCHANGED <<bus, routing, roles, service, changed, list_ptr, list_pipe, force_hints, doubled>>

stop_list == list_ptr' = 0 /\ list_pipe' = FALSE

jd_role_alloc(r) ==
  /\ r \notin roles
  /\ stop_list
  /\ roles' = roles \cup {r} /\ changed' = TRUE
  /\ UNCHANGED <<bus, routing, service, auto_bind_enabled, force_hints, doubled>>

jd_role_free(r) ==
  /\ r \in roles
  /\ stop_list
  /\ Becomes(rolemgr_set(State, r, NULL)) /\ roles' = roles \ {r}
  /\ UNCHANGED <<bus, gcDue, gens, auto_bind_enabled, force_hints, doubled>>

jd_role_free_all ==
  /\ stop_list
  /\ Becomes([SetAll(State, roles) EXCEPT !.chg = TRUE]) /\ roles' = {}
  /\ UNCHANGED <<bus, gcDue, gens, auto_bind_enabled, force_hints, doubled>>

-----------------------------------------------------------------------------
Next ==
  \/ \E d \in Ids : Restart(d) \/ AnnounceLost(d) \/ HandleAnnounce(d)
  \/ jd_client_process \/ Tick
  \/ ListOne \/ Autobind \/ SendChange \/ ClearAllRoles \/ ListRoles \/ WriteAutoBind
  \/ \E r \in RoleNames, d \in Ids : rolemgr_set_role(r, d)
  \/ \E r \in RoleNames : ClearRole(r) \/ jd_role_alloc(r) \/ jd_role_free(r)
  \/ jd_role_free_all

Spec == Init /\ [][Next]_vars

-----------------------------------------------------------------------------
(* Properties *)

(***************************************************************************)
(* A role never points into a device that was freed: when a device         *)
(* expires, or restarts and is allocated anew, every role bound to it is   *)
(* unbound first (jd_device_free, rolemgr_device_destroyed).               *)
(***************************************************************************)
RolesPointToDevices ==
  \A r \in RoleNames : service[r] # NULL =>
    /\ r \in roles
    /\ \E i \in DOMAIN jd_devices : /\ jd_devices[i].id = service[r].dev
                                    /\ jd_devices[i].gen = service[r].gen
                                    /\ service[r].idx \in DOMAIN jd_devices[i].services

(***************************************************************************)
(* A service flagged as assigned has a role, or it would never be given to *)
(* one again.  As long as no command names a service that has a role       *)
(* already, the flags also are exact and no service has two roles; the     *)
(* automatic binding relies on that (rolemgr_set, rolemgr_autobind).       *)
(***************************************************************************)
FlagsMatchRoles ==
  \A k \in DOMAIN jd_devices : \A i \in DOMAIN jd_devices[k].services :
    LET holders == {r \in roles : service[r] = Service(jd_devices[k], i)} IN
    /\ i \in jd_devices[k].assigned => holders # {}
    /\ ~ doubled => /\ holders # {} => i \in jd_devices[k].assigned
                    /\ Cardinality(holders) <= 1

(***************************************************************************)
(* The client takes a restarted device for the one it knew (and keeps its  *)
(* old services and roles) only if it had heard few announcements of it:   *)
(* no more than fit into an expiry period and the collections that follow, *)
(* as many as there are other devices, for jd_device_gc passes over the    *)
(* successor of a device it frees.  A restart of a device in steady state  *)
(* is noticed, however many announcements are lost, if STEADY is larger.   *)
(***************************************************************************)
RestartNoticed ==
  \A i \in DOMAIN jd_devices : jd_devices[i].later => jd_devices[i].own <= EXPIRES + MaxId

(***************************************************************************)
(* The role to be listed next exists, and its pipe is open: freeing roles  *)
(* while they are being listed ends the list (stop_list).                  *)
(***************************************************************************)
ListedRoleExists == list_ptr # 0 => list_ptr \in roles /\ list_pipe

\* No pointer of the client dangles: neither a role's service (jd_device_free) nor
\* the role the list has come to (jd_role_free).
NoDangling == RolesPointToDevices /\ ListedRoleExists

=============================================================================
