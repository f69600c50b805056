------------------------------- MODULE JdThreads ------------------------------
(***************************************************************************)
(* Clients on threads (client/hclient.c, client/thr_pthread.c): a worker   *)
(* thread runs the main loop, in which devices appear and are freed and    *)
(* roles are bound to their services; application threads create clients   *)
(* and use the service their client is bound to.  The list of clients has  *)
(* a mutex, client_mut, and each client one of its own.                    *)
(*                                                                         *)
(* The role manager (client/rolemgr.c) belongs to the worker, and has no    *)
(* mutex: its flag `locked' is only asserted on.  jdc_create reaches it     *)
(* from an application thread all the same, to allocate the role, and so    *)
(* finds it wherever the worker has got to.  A failed assertion stops the   *)
(* device (panic).                                                          *)
(*                                                                         *)
(* Steps are taken between two lock operations, and between two accesses   *)
(* to what the role manager shares.  A client is named after its role; a   *)
(* service after its device, NoDev is NULL.  The role manager's own choice *)
(* of services is JdClient's.                                              *)
(***************************************************************************)
EXTENDS Integers, FiniteSets

CONSTANTS Apps,      \* application threads
          Roles,
          Devs,
          NoDev,
          Nobody,    \* no thread
          MaxWakes   \* bound: how often the worker is woken

VARIABLES pc,        \* thread -> where it is
          arg,       \* thread -> the role it is about
          list,      \* client_list: the clients that are on it
          roles,     \* roles the role manager knows: role -> service
          service,   \* client -> its service
          alive,     \* devices that have not been freed
          owner,     \* mutex -> the thread that holds it
          going,     \* the device that is being freed, or NoDev
          pending,   \* process_pending
          wakes,
          locked,    \* the role manager is going through its roles
          list_ptr,  \* it is sending the list of its roles ...
          list_pipe, \* ... and the pipe for it is open
          panic,     \* an assertion has failed
          raced      \* a role was allocated while the worker was in its main loop

rolemgr == <<locked, list_ptr, list_pipe>>
ends == <<panic, raced>>
vars == <<pc, arg, list, roles, service, alive, owner, going, pending, wakes, rolemgr, ends>>

Worker == "worker"
Threads == Apps \cup {Worker}
List == "client_mut"

\* Places in jdc_create.
Creating == {"create", "link", "insert"}

-----------------------------------------------------------------------------
Goto(t, where) == pc' = [pc EXCEPT ![t] = where]

Lock(t, m) == owner[m] = Nobody /\ owner' = [owner EXCEPT ![m] = t]
Unlock(m) == owner' = [owner EXCEPT ![m] = Nobody]

Init ==
  /\ pc = [t \in Threads |-> IF t = Worker THEN "loop" ELSE "idle"]
  /\ arg = [t \in Threads |-> CHOOSE r \in Roles : TRUE]
  /\ list = {}
  /\ roles = [r \in {} |-> NoDev]
  /\ service = [r \in Roles |-> NoDev]
  /\ alive = {}
  /\ owner = [m \in Roles \cup {List} |-> Nobody]
  /\ going = NoDev
  /\ pending = FALSE
  /\ wakes = 0
  /\ locked = FALSE
  /\ list_ptr = FALSE
  /\ list_pipe = FALSE
  /\ panic = FALSE
  /\ raced = FALSE

-----------------------------------------------------------------------------
(* Application threads.                                                    *)

jdc_create(t, r) ==
  /\ pc[t] = "idle" /\ r \notin list
  /\ \A u \in Apps : pc[u] \in Creating => arg[u] # r
  /\ Lock(t, List)
  /\ arg' = [arg EXCEPT ![t] = r]
  /\ Goto(t, "create")
  /\ UNCHANGED <<list, roles, service, alive, going, pending, wakes, rolemgr, ends>>

\* jd_role_alloc, for a name that is new: stop_list asserts that the role manager is
\* not going through its roles, and ends the list it may be sending.
stop_list(t) ==
  /\ pc[t] = "create"
  /\ raced' = (raced \/ pc[Worker] \notin {"loop", "wait", "woken"})
  /\ IF locked
     THEN panic' = TRUE /\ UNCHANGED <<pc, list_ptr, list_pipe>>
     ELSE /\ list_ptr' = FALSE
          /\ list_pipe' = (list_pipe /\ ~list_ptr)
          /\ Goto(t, "link")
          /\ UNCHANGED panic
  /\ UNCHANGED <<arg, list, roles, service, alive, owner, going, pending, wakes, locked>>

\* The role is linked into the list of roles: from now on the worker may bind it.
AllocRole(t) ==
  /\ pc[t] = "link"
  /\ roles' = [r \in DOMAIN roles \cup {arg[t]} |-> IF r = arg[t] THEN NoDev ELSE roles[r]]
  /\ Goto(t, "insert")
  /\ UNCHANGED <<arg, list, service, alive, owner, going, pending, wakes, rolemgr, ends>>

Insert(t) ==
  /\ pc[t] = "insert"
  /\ list' = list \cup {arg[t]}
  /\ Unlock(List)
  /\ Goto(t, "idle")
  /\ UNCHANGED <<arg, roles, service, alive, going, pending, wakes, rolemgr, ends>>

\* jdc_get_register and jdc_get_binding_info: under the client's mutex, if it is bound ...
UseStart(t, r) ==
  /\ pc[t] = "idle" /\ r \in list
  /\ Lock(t, r)
  /\ arg' = [arg EXCEPT ![t] = r]
  /\ Goto(t, IF service[r] = NoDev THEN "leave" ELSE "use")
  /\ UNCHANGED <<list, roles, service, alive, going, pending, wakes, rolemgr, ends>>

\* ... the device is looked at, and a query may be sent to it.
Use(t) ==
  /\ pc[t] = "use"
  /\ Goto(t, "leave")
  /\ UNCHANGED <<arg, list, roles, service, alive, owner, going, pending, wakes, rolemgr, ends>>

Leave(t) ==
  /\ pc[t] = "leave"
  /\ Unlock(arg[t])
  /\ Goto(t, "idle")
  /\ UNCHANGED <<arg, list, roles, service, alive, going, pending, wakes, rolemgr, ends>>

\* Any thread that has something for the main loop.
jd_thr_wake_main(t) ==
  /\ pc[t] = "idle" /\ wakes < MaxWakes
  /\ pending' = TRUE
  /\ pc' = [pc EXCEPT ![Worker] = IF @ = "wait" THEN "woken" ELSE @]
  /\ wakes' = wakes + 1
  /\ UNCHANGED <<arg, list, roles, service, alive, owner, going, rolemgr, ends>>

-----------------------------------------------------------------------------
(* The worker.                                                             *)

\* Waits unless it was woken in the meantime.
process_worker ==
  /\ pc[Worker] = "loop"
  /\ IF pending THEN Goto(Worker, "run") /\ pending' = FALSE
     ELSE Goto(Worker, "wait") /\ UNCHANGED pending
  /\ UNCHANGED <<arg, list, roles, service, alive, owner, going, wakes, rolemgr, ends>>

\* The wait is over: by a signal, or by its time.
WaitEnds ==
  /\ pc[Worker] \in {"wait", "woken"}
  /\ Goto(Worker, "run")
  /\ pending' = FALSE
  /\ UNCHANGED <<arg, list, roles, service, alive, owner, going, wakes, rolemgr, ends>>

\* The worker is in its main loop, and the role manager not in the middle of something.
Main == pc[Worker] = "run" /\ ~locked

\* jd_process_everything: a device appears ...
Appear(d) ==
  /\ Main /\ d \notin alive
  /\ alive' = alive \cup {d}
  /\ UNCHANGED <<pc, arg, list, roles, service, owner, going, pending, wakes, rolemgr, ends>>

\* The role manager gives a role another service, or none, and the client is told.
rolemgr_set(r, d) ==
  /\ roles' = [roles EXCEPT ![r] = d]
  /\ arg' = [arg EXCEPT ![Worker] = r]
  /\ Goto(Worker, "find")
  /\ UNCHANGED <<list, service, alive, owner, going, pending, wakes, rolemgr, ends>>

\* ... rolemgr_autobind goes through the roles ...
rolemgr_autobind ==
  /\ Main
  /\ locked' = TRUE
  /\ UNCHANGED <<pc, arg, list, roles, service, alive, owner, going, pending, wakes, list_ptr,
                 list_pipe, ends>>

\* ... and binds those that are free ...
Bind(r, d) ==
  /\ pc[Worker] = "run" /\ locked /\ going = NoDev
  /\ r \in DOMAIN roles /\ roles[r] = NoDev /\ d \in alive
  /\ rolemgr_set(r, d)

AutobindEnds ==
  /\ pc[Worker] = "run" /\ locked /\ going = NoDev
  /\ locked' = FALSE
  /\ UNCHANGED <<pc, arg, list, roles, service, alive, owner, going, pending, wakes, list_ptr,
                 list_pipe, ends>>

\* ... a command sets or clears a role ...
rolemgr_set_role(r, d) ==
  /\ Main
  /\ r \in DOMAIN roles /\ roles[r] # d /\ d \in alive \cup {NoDev}
  /\ rolemgr_set(r, d)

\* ... or asks for the list of roles ...
ListRoles ==
  /\ Main /\ ~list_pipe /\ DOMAIN roles # {}
  /\ list_ptr' = TRUE
  /\ list_pipe' = TRUE
  /\ UNCHANGED <<pc, arg, list, roles, service, alive, owner, going, pending, wakes, locked, ends>>

\* ... which rolemgr_process sends: is there space (or is the pipe gone), ...
ListCheck ==
  /\ Main /\ list_ptr
  /\ \/ list_pipe /\ Goto(Worker, "space") /\ UNCHANGED <<list_ptr, list_pipe>>
     \/ list_ptr' = FALSE /\ list_pipe' = FALSE /\ UNCHANGED pc
  /\ UNCHANGED <<arg, list, roles, service, alive, owner, going, pending, wakes, locked, ends>>

\* ... then the write, which is asserted to succeed, ...
ListWrite ==
  /\ pc[Worker] = "space"
  /\ IF list_pipe THEN Goto(Worker, "sent") /\ UNCHANGED panic
     ELSE panic' = TRUE /\ UNCHANGED pc
  /\ UNCHANGED <<arg, list, roles, service, alive, owner, going, pending, wakes, rolemgr, raced>>

\* ... and on to the next role, if there is one.
ListNext(more) ==
  /\ pc[Worker] = "sent"
  /\ list_ptr' = more
  /\ list_pipe' = (list_pipe /\ more)
  /\ Goto(Worker, "run")
  /\ UNCHANGED <<arg, list, roles, service, alive, owner, going, pending, wakes, locked, ends>>

\* Or a device is gone: jd_device_free has the roles unbound one by one ...
Destroy(d) ==
  /\ Main /\ d \in alive
  /\ going' = d
  /\ locked' = TRUE
  /\ UNCHANGED <<pc, arg, list, roles, service, alive, owner, pending, wakes, list_ptr, list_pipe,
                 ends>>

rolemgr_device_destroyed(r) ==
  /\ pc[Worker] = "run" /\ going # NoDev
  /\ r \in DOMAIN roles /\ roles[r] = going
  /\ rolemgr_set(r, NoDev)

\* ... and then frees it.
Free ==
  /\ pc[Worker] = "run" /\ going # NoDev
  /\ \A r \in DOMAIN roles : roles[r] # going
  /\ alive' = alive \ {going}
  /\ going' = NoDev
  /\ locked' = FALSE
  /\ UNCHANGED <<pc, arg, list, roles, service, owner, pending, wakes, list_ptr, list_pipe, ends>>

LoopEnds ==
  /\ Main
  /\ Goto(Worker, "loop")
  /\ UNCHANGED <<arg, list, roles, service, alive, owner, going, pending, wakes, rolemgr, ends>>

\* jdc_event_handler for a changed role: find_and_lock takes the list's mutex, ...
find_and_lock ==
  /\ pc[Worker] = "find"
  /\ Lock(Worker, List)
  /\ Goto(Worker, IF arg[Worker] \in list THEN "found" ELSE "missed")
  /\ UNCHANGED <<arg, list, roles, service, alive, going, pending, wakes, rolemgr, ends>>

\* Mutant: the service changes without the client's mutex.
LockClientSkipped ==
  /\ pc[Worker] = "found"
  /\ service' = [service EXCEPT ![arg[Worker]] = roles[arg[Worker]]]
  /\ Unlock(List)
  /\ Goto(Worker, "run")
  /\ UNCHANGED <<arg, list, roles, alive, going, pending, wakes, rolemgr, ends>>

\* ... a client's while it has the list's, ...
LockClient ==
  /\ pc[Worker] = "found"
  /\ owner[arg[Worker]] = Nobody
  /\ owner' = [owner EXCEPT ![arg[Worker]] = Worker, ![List] = Nobody]
  /\ Goto(Worker, "change")
  /\ UNCHANGED <<arg, list, roles, service, alive, going, pending, wakes, rolemgr, ends>>

NoClient ==
  /\ pc[Worker] = "missed"
  /\ Unlock(List)
  /\ Goto(Worker, "run")
  /\ UNCHANGED <<arg, list, roles, service, alive, going, pending, wakes, rolemgr, ends>>

\* ... and the client's service changes.
jdc_event_handler ==
  /\ pc[Worker] = "change"
  /\ service' = [service EXCEPT ![arg[Worker]] = roles[arg[Worker]]]
  /\ Unlock(arg[Worker])
  /\ Goto(Worker, "run")
  /\ UNCHANGED <<arg, list, roles, alive, going, pending, wakes, rolemgr, ends>>

Next ==
  /\ ~panic
  /\ \/ \E t \in Apps : \/ \E r \in Roles : jdc_create(t, r) \/ UseStart(t, r)
                        \/ stop_list(t) \/ AllocRole(t) \/ Insert(t)
                        \/ Use(t) \/ Leave(t) \/ jd_thr_wake_main(t)
     \/ process_worker \/ WaitEnds \/ LoopEnds
     \/ \E d \in Devs : Appear(d) \/ Destroy(d) \/ \E r \in Roles : Bind(r, d)
     \/ \E r \in Roles : \/ rolemgr_device_destroyed(r)
                         \/ \E d \in Devs \cup {NoDev} : rolemgr_set_role(r, d)
     \/ rolemgr_autobind \/ AutobindEnds \/ Free
     \/ ListRoles \/ ListCheck \/ ListWrite \/ \E more \in BOOLEAN : ListNext(more)
     \/ find_and_lock \/ LockClient \/ NoClient \/ jdc_event_handler

Spec == Init /\ [][Next]_vars

-----------------------------------------------------------------------------
\* The mutex a thread is waiting for, if any.
Wants(t) ==
  CASE t = Worker /\ pc[t] = "find" -> {List}
    [] t = Worker /\ pc[t] = "found" -> {arg[t]}
    [] OTHER -> {}

\* No thread uses a service whose device has been freed: an application thread
\* holds its client's mutex, and the worker frees a device only after it has told
\* every client, under that mutex.  A client that is created while its role is
\* being bound is told too.
ServicesAlive ==
  /\ \A t \in Apps : pc[t] = "use" => service[arg[t]] \in alive
  /\ pc[Worker] \in {"run", "space", "sent"} => \A r \in list : service[r] = roles[r]
  /\ \A r \in list : service[r] # NoDev => service[r] \in alive

\* The threads never wait for each other in a circle, and the worker never waits
\* for a wake-up that has already been sent.
NoCircle ==
  /\ \A m \in Wants(Worker) : owner[m] \in Apps =>
       pc[owner[m]] \in Creating \cup {"use", "leave"}
  /\ \A t \in Apps : pc[t] \in {"use", "leave"} => owner[arg[t]] = t
  /\ pc[Worker] = "wait" => ~pending

\* The assertions of the role manager (stop_list, the write of rolemgr_process) fail
\* only when a client was created while the worker was in its main loop: a client
\* that is created while the worker waits never stops the device, whatever the role
\* manager had been doing, or will do.
AssertionsHold == panic => raced

\* No service of a freed device is used, the threads do not wait for each other, and
\* no assertion fails while clients are created between two turns of the main loop.
ThreadsSound == ServicesAlive /\ NoCircle /\ AssertionsHold
=============================================================================
