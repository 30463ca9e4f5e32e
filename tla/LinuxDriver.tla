---------------------------- MODULE LinuxDriver -----------------------------
(***************************************************************************)
(* The driver of the primary VM (src/driver/linux/main.c): one kernel      *)
(* thread per vCPU of the secondary VMs runs it with ffa_run and acts on   *)
(* the answer; sockets exchange datagrams with the VMs.  The kernel and    *)
(* the hypervisor are external.                                            *)
(*                                                                         *)
(* Threads and the users of sockets are actors.  What an actor still has   *)
(* to do inside a call is a sequence of operations, each as long as the    *)
(* code is atomic: an atomic variable, a critical section, one call to the *)
(* kernel or the hypervisor.                                               *)
(***************************************************************************)
EXTENDS Integers, Sequences, FiniteSets, SequencesExt

CONSTANTS Limits,       \* bounds: [parts, idles, calls, requests], see below
          Socks,        \* sockets
          Ports,        \* ports of the VMs
          Buckets,      \* buckets of pg_local_port_hash
          CONFIG_HAFNIUM_MAX_VMS, CONFIG_HAFNIUM_MAX_VCPUS

\* A behaviour has one of the limits: parts are the vCPU counts of the
\* secondary VMs that the hypervisor reports, idles the ways a vCPU waits in it,
\* calls the calls left to the user of each socket, requests the requests of
\* each kind left to the guests.
Partitions == {l.parts : l \in Limits}

PRIMARY == 0
NoMsg == [from |-> PRIMARY, src |-> 0, dst |-> 0]
Ids == 1 .. 3           \* what a guest may name: VMs are numbered from 1
Vcpus == UNION {UNION {{<<i, j>> : j \in 0 .. p[i] - 1} : i \in DOMAIN p} : p \in Partitions}
Actors == Vcpus \union Socks

VARIABLES lpc, left,            \* step of the task that loads and unloads, its loop
          parts,                \* partition_info
          have, arrays, tasks,  \* what the driver has allocated and registered
          pg_vm_count, vcpu_count,
          tpc,                  \* step of a thread
          tstate, stop,         \* task state is TASK_RUNNING; KTHREAD_SHOULD_STOP
          abort_sleep, waiting, timer,
          prog,                 \* operations left to an actor
          sk, pg_next_port,     \* sockets
          send_lock, page,      \* pg_send_lock and the contents of pg_send_page
          full, rx, waiters,    \* hypervisor: mailboxes, the one of the primary, who waits
          need,                 \* history: woken, and not run since
          idles, calls, requests \* ways to wait, users' calls and guests' requests left

load == <<lpc, left, parts, have, arrays, tasks, pg_vm_count, vcpu_count>>
threads == <<tpc, tstate, stop, abort_sleep, waiting, timer, need>>
sockets == <<sk, pg_next_port, send_lock, page>>
hyp == <<full, rx, waiters>>
bounds == <<idles, calls, requests>>
vars == <<load, threads, prog, sockets, hyp, bounds>>

-----------------------------------------------------------------------------
\* pg_vm_from_id: ids of VMs that are not initialised have no entry.
pg_vm_from_id(id) == id \in 1 .. pg_vm_count

\* The vCPUs the loops over pg_vms reach.
Reached == {t \in Vcpus : t[1] <= pg_vm_count /\ t[2] < vcpu_count[t[1]]}
First(S) == CHOOSE t \in S : \A u \in S : t[1] < u[1] \/ (t[1] = u[1] /\ t[2] <= u[2])

\* An allocation or registration either succeeds or is cleaned up after.
Try(at, gets, to, fail) ==
  /\ lpc = at
  /\ \/ have' = have \union gets /\ lpc' = to
     \/ have' = have /\ lpc' = fail
  /\ UNCHANGED <<left, parts, arrays, tasks, pg_vm_count, vcpu_count, threads, prog, sockets, hyp, bounds>>

\* pg_init up to the array of VMs.
AllocPages ==
  \/ Try("send_page", {"send"}, "recv_page", "gone")
  \/ /\ lpc = "recv_page"
     /\ \/ have' = have \union {"recv"} /\ lpc' = "rxtx"
        \/ have' = {} /\ lpc' = "gone"
     /\ UNCHANGED <<left, parts, arrays, tasks, pg_vm_count, vcpu_count, threads, prog, sockets, hyp, bounds>>
  \/ Try("rxtx", {}, "info", "stop")
  \/ lpc = "info" /\ Try("info", {}, IF Len(parts) > CONFIG_HAFNIUM_MAX_VMS - 1 THEN "stop" ELSE "vms", "stop")
  \/ Try("vms", {"vms"}, "vm", "stop")

\* total_vcpu_count once VM i is counted.
Total(i) == FoldFunctionOnSet(+, 0, parts, 1 .. i)

InitVm ==
  /\ lpc = "vm"
  /\ LET i == pg_vm_count + 1
     IN  IF i > Len(parts) THEN lpc' = "rx_release" /\ UNCHANGED <<pg_vm_count, vcpu_count, arrays>>
         ELSE \/ /\ Total(i) <= CONFIG_HAFNIUM_MAX_VCPUS
                 /\ pg_vm_count' = i /\ vcpu_count' = [vcpu_count EXCEPT ![i] = parts[i]]
                 /\ arrays' = arrays \union {i} /\ lpc' = "thread"
              \/ lpc' = "stop" /\ UNCHANGED <<pg_vm_count, vcpu_count, arrays>>
  /\ UNCHANGED <<left, parts, have, tasks, threads, prog, sockets, hyp, bounds>>


\* One round of the loop that creates the threads; the flags start cleared.
CreateThread ==
  /\ lpc = "thread"
  /\ LET i == pg_vm_count  j == Cardinality({t \in tasks : t[1] = i})
     IN  IF j = vcpu_count[i] THEN lpc' = "vm" /\ UNCHANGED <<tasks, tpc, vcpu_count>>
         ELSE \/ /\ tasks' = tasks \union {<<i, j>>} /\ tpc' = [tpc EXCEPT ![<<i, j>>] = "created"]
                 /\ UNCHANGED <<lpc, vcpu_count>>
              \/ /\ vcpu_count' = [vcpu_count EXCEPT ![i] = j] /\ lpc' = "stop"
                 /\ UNCHANGED <<tasks, tpc>>
  /\ UNCHANGED <<left, parts, have, arrays, pg_vm_count, tstate, stop, abort_sleep, waiting, timer,
                 need, prog, sockets, hyp, bounds>>

Register ==
  \/ Try("rx_release", {}, "proto", "stop")
  \/ Try("proto", {"proto"}, "family", "stop")
  \/ Try("family", {"family"}, "platform", "unreg_proto")
  \/ Try("platform", {"platform"}, "start", "unreg_family")

\* The threads are started one after the other.
Start ==
  /\ lpc = "start"
  /\ LET todo == {t \in Reached : t \notin left}
     IN  IF todo = {} THEN lpc' = "loaded" /\ left' = {} /\ UNCHANGED tpc
         ELSE /\ left' = left \union {First(todo)} /\ UNCHANGED lpc
              /\ tpc' = [tpc EXCEPT ![First(todo)] = IF @ = "created" THEN "top" ELSE @]
  /\ UNCHANGED <<parts, have, arrays, tasks, pg_vm_count, vcpu_count, tstate, stop, abort_sleep,
                 waiting, timer, need, prog, sockets, hyp, bounds>>

\* The kernel does not unload a module with sockets.
pg_exit ==
  /\ lpc = "loaded" /\ \A s \in Socks : sk[s].refs = 0
  /\ lpc' = "unreg_family"
  /\ UNCHANGED <<left, parts, have, arrays, tasks, pg_vm_count, vcpu_count, threads, prog, sockets, hyp, bounds>>

\* The rest of pg_exit, and the labels of the failures of pg_init.
Unregister ==
  /\ \/ lpc = "unreg_family" /\ have' = have \ {"family"} /\ lpc' = "unreg_proto"
     \/ lpc = "unreg_proto" /\ have' = have \ {"proto"} /\ lpc' = "stop"
     \/ lpc = "unreg_platform" /\ have' = have \ {"platform"} /\ lpc' = "gone"
  /\ UNCHANGED <<left, parts, arrays, tasks, pg_vm_count, vcpu_count, threads, prog, sockets, hyp, bounds>>

\* The first loop of pg_free_resources: kthread_stop sets the flag, wakes the
\* thread and waits until it has returned.
StopThreads ==
  /\ lpc = "stop"
  /\ LET todo == {t \in Reached : t \notin left}  t == First(todo)
     IN  IF todo = {} THEN lpc' = "free" /\ UNCHANGED <<left, stop, tstate>>
         ELSE /\ UNCHANGED lpc
              /\ \/ /\ ~stop[t] /\ stop' = [stop EXCEPT ![t] = TRUE]
                    /\ tstate' = [tstate EXCEPT ![t] = "R"] /\ UNCHANGED left
                 \/ /\ stop[t] /\ tpc[t] = "exited" /\ left' = left \union {t}
                    /\ UNCHANGED <<stop, tstate>>
  /\ UNCHANGED <<parts, have, arrays, tasks, pg_vm_count, vcpu_count, tpc, abort_sleep, waiting,
                 timer, need, prog, sockets, hyp, bounds>>

FreeVms ==
  /\ lpc = "free" /\ lpc' = "pages"
  /\ tasks' = tasks \ Reached /\ arrays' = arrays \ (1 .. pg_vm_count) /\ have' = have \ {"vms"}
  /\ UNCHANGED <<left, parts, pg_vm_count, vcpu_count, threads, prog, sockets, hyp, bounds>>

FreePages ==
  /\ lpc = "pages" /\ lpc' = IF "platform" \in have THEN "unreg_platform" ELSE "gone"
  /\ have' = have \ {"send", "recv"} /\ rx' = NoMsg
  /\ UNCHANGED <<left, parts, arrays, tasks, pg_vm_count, vcpu_count, threads, prog, sockets, full,
                 waiters, bounds>>

Loader == \/ AllocPages \/ InitVm \/ CreateThread \/ Register \/ Start
          \/ StopThreads \/ FreeVms \/ FreePages \/ Unregister

-----------------------------------------------------------------------------
(* Operations of actors.  Do(a, ops) replaces the first operation of a.    *)
Op(a, name) == prog[a] # <<>> /\ prog[a][1].op = name
Arg(a) == prog[a][1]
Do(a, ops) == prog' = [prog EXCEPT ![a] = ops \o Tail(@)]

\* pg_vcpu_wake_up, and the request that is ignored for an unknown vCPU.
pg_vcpu_wake_up(t) == <<[op |-> "abort", t |-> t], [op |-> "wake", t |-> t]>>
pg_handle_wake_up_request(v, j) ==
  IF pg_vm_from_id(v) /\ j < vcpu_count[v] THEN pg_vcpu_wake_up(<<v, j>>) ELSE <<>>
pg_interrupt_vm(v) == IF pg_vm_from_id(v) THEN <<[op |-> "inject", v |-> v]>> ELSE <<>>
pg_deliver_message(v) == IF pg_vm_from_id(v) THEN <<[op |-> "deliver", v |-> v, j |-> 0]>> ELSE <<>>

SetAbort(a) ==
  /\ Op(a, "abort")
  /\ abort_sleep' = [abort_sleep EXCEPT ![Arg(a).t] = TRUE]
  /\ need' = [need EXCEPT ![Arg(a).t] = TRUE]
  /\ Do(a, <<>>)
  /\ UNCHANGED <<load, tpc, tstate, stop, waiting, timer, sockets, hyp, bounds>>

\* wake_up_process; it also starts a thread that was only created.
WakeUpProcess(a) ==
  /\ Op(a, "wake")
  /\ LET t == Arg(a).t
     IN  /\ tstate' = [tstate EXCEPT ![t] = "R"]
         /\ tpc' = [tpc EXCEPT ![t] = IF @ = "created" THEN "top" ELSE @]
  /\ Do(a, <<>>)
  /\ UNCHANGED <<load, stop, abort_sleep, waiting, timer, need, sockets, hyp, bounds>>

\* The loop of pg_deliver_message, a flag at a time.
Deliver(a) ==
  /\ Op(a, "deliver")
  /\ LET v == Arg(a).v  j == Arg(a).j
     IN  Do(a, IF j = vcpu_count[v] THEN pg_interrupt_vm(v)
               ELSE IF waiting[<<v, j>>] THEN pg_handle_wake_up_request(v, j)
               ELSE <<[op |-> "deliver", v |-> v, j |-> j + 1]>>)
  /\ UNCHANGED <<load, threads, sockets, hyp, bounds>>

\* pg_interrupt_inject asks for a wake-up or not, or fails.
Inject(a) ==
  /\ Op(a, "inject")
  /\ \E wake \in BOOLEAN : Do(a, IF wake THEN pg_handle_wake_up_request(Arg(a).v, 0) ELSE <<>>)
  /\ UNCHANGED <<load, threads, sockets, hyp, bounds>>

pg_notify_waiters(a) ==
  /\ Op(a, "notify")
  /\ LET v == Arg(a).v
     IN  \/ waiters[v] = {} /\ Do(a, <<>>) /\ UNCHANGED waiters
         \/ \E w \in waiters[v] : /\ waiters' = [waiters EXCEPT ![v] = @ \ {w}]
                                  /\ Do(a, pg_interrupt_vm(w) \o <<Arg(a)>>)
  /\ UNCHANGED <<load, threads, sockets, full, rx, bounds>>

(* pg_handle_message: lookup under RCU, sk_buff, and the two ways out.     *)
Candidates(m) == {s \in Socks : /\ sk[s].hashed /\ sk[s].local % Buckets = m.dst % Buckets
                                /\ sk[s].peer = m.from /\ sk[s].remote = m.src}
Lookup(a) ==
  /\ Op(a, "lookup")
  /\ IF Candidates(rx) = {} THEN Do(a, <<[op |-> "rx_release", notify |-> FALSE]>>)
     ELSE \E s \in Candidates(rx) :
            Do(a, <<[op |-> "hold", s |-> s], [op |-> "queue", s |-> s], [op |-> "put", s |-> s],
                    [op |-> "rx_release", notify |-> TRUE]>>)
  /\ UNCHANGED <<load, threads, sockets, hyp, bounds>>

SockHold(a) ==
  /\ Op(a, "hold")
  /\ sk' = [sk EXCEPT ![Arg(a).s].refs = @ + 1]
  /\ Do(a, <<>>)
  /\ UNCHANGED <<load, threads, pg_next_port, send_lock, page, hyp, bounds>>

\* The message is lost when there is no memory or no room in the queue.
QueueSkb(a) ==
  /\ Op(a, "queue")
  /\ \/ sk' = [sk EXCEPT ![Arg(a).s].queue = Append(@, rx)]
     \/ UNCHANGED sk
  /\ Do(a, <<>>)
  /\ UNCHANGED <<load, threads, pg_next_port, send_lock, page, hyp, bounds>>

\* The last reference runs pg_sock_destruct and frees the socket.
SockPut(a) ==
  /\ Op(a, "put")
  /\ LET s == Arg(a).s
     IN  sk' = [sk EXCEPT ![s].refs = @ - 1, ![s].queue = IF sk[s].refs = 1 THEN <<>> ELSE @]
  /\ Do(a, <<>>)
  /\ UNCHANGED <<load, threads, pg_next_port, send_lock, page, hyp, bounds>>

\* ffa_rx_release says whether VMs wait for the mailbox of the primary.
RxRelease(a) ==
  /\ Op(a, "rx_release") /\ rx' = NoMsg
  /\ Do(a, IF Arg(a).notify /\ waiters[PRIMARY] # {} THEN <<[op |-> "notify", v |-> PRIMARY]>> ELSE <<>>)
  /\ UNCHANGED <<load, threads, sockets, full, waiters, bounds>>

(* pg_send_skb: the shared page is written and sent under pg_send_lock.    *)
Header(s) == [from |-> s, src |-> sk[s].local, dst |-> sk[s].remote]

\* Mutant: the page is written without the lock.
CopyUnlocked(a) ==
  /\ Op(a, "copy") /\ page' = Header(a)
  /\ Do(a, <<[op |-> "send", v |-> sk[a].peer]>>)
  /\ UNCHANGED <<load, threads, sk, pg_next_port, send_lock, hyp, bounds>>

CopySkb(a) ==
  /\ Op(a, "copy") /\ ~send_lock /\ send_lock' = TRUE /\ page' = Header(a)
  /\ Do(a, <<[op |-> "send", v |-> sk[a].peer]>>)
  /\ UNCHANGED <<load, threads, sk, pg_next_port, hyp, bounds>>

\* ffa_msg_send fills the mailbox of the peer, or fails (it is busy, or not
\* mapped); only what was sent is delivered.
SendSkb(a) ==
  /\ Op(a, "send") /\ send_lock' = FALSE
  /\ LET v == Arg(a).v
     IN  \/ ~full[v] /\ full' = [full EXCEPT ![v] = TRUE] /\ Do(a, pg_deliver_message(v))
         \/ UNCHANGED full /\ Do(a, <<>>)
  /\ UNCHANGED <<load, threads, sk, pg_next_port, page, rx, waiters, bounds>>

(* pg_sock_release after the shutdown.                                     *)
\* Mutant: no wait for the lookups in flight.
DelNoGrace(a) ==
  /\ Op(a, "del") /\ sk' = [sk EXCEPT ![a].hashed = FALSE]
  /\ Do(a, <<[op |-> "grace", readers |-> {}], [op |-> "put", s |-> a]>>)
  /\ UNCHANGED <<load, threads, pg_next_port, send_lock, page, hyp, bounds>>

HashDel(a) ==
  /\ Op(a, "del") /\ sk' = [sk EXCEPT ![a].hashed = FALSE]
  /\ Do(a, <<[op |-> "grace", readers |-> {t \in Vcpus : Op(t, "hold")}], [op |-> "put", s |-> a]>>)
  /\ UNCHANGED <<load, threads, pg_next_port, send_lock, page, hyp, bounds>>

\* synchronize_rcu returns when the readers of its call have left.
SynchronizeRcu(a) ==
  /\ Op(a, "grace") /\ \A t \in Arg(a).readers : ~Op(t, "hold")
  /\ Do(a, <<>>)
  /\ UNCHANGED <<load, threads, sockets, hyp, bounds>>

Exec(a) == \/ SetAbort(a) \/ WakeUpProcess(a) \/ Deliver(a) \/ Inject(a) \/ pg_notify_waiters(a)
           \/ Lookup(a) \/ SockHold(a) \/ QueueSkb(a) \/ SockPut(a) \/ RxRelease(a)
           \/ CopySkb(a) \/ SendSkb(a) \/ HashDel(a) \/ SynchronizeRcu(a)

-----------------------------------------------------------------------------
(* Calls of the user of a socket.                                          *)
Call(s) == /\ prog[s] = <<>> /\ calls[s] > 0 /\ calls' = [calls EXCEPT ![s] = @ - 1]
           /\ UNCHANGED <<idles, requests>>

pg_sock_create(s) ==
  /\ Call(s) /\ "family" \in have /\ sk[s].state = "none"
  /\ sk' = [sk EXCEPT ![s].state = "unconnected", ![s].refs = 1]
  /\ UNCHANGED <<load, threads, prog, pg_next_port, send_lock, page, hyp>>

pg_sock_connect(s) ==
  /\ Call(s) /\ sk[s].state = "unconnected"
  /\ \E v \in Ids, p \in Ports :
       /\ pg_vm_from_id(v)
       /\ sk' = [sk EXCEPT ![s].state = "connected", ![s].local = pg_next_port + 1, ![s].remote = p,
                           ![s].peer = v, ![s].hashed = TRUE]
  /\ pg_next_port' = pg_next_port + 1
  /\ UNCHANGED <<load, threads, prog, send_lock, page, hyp>>

pg_sock_sendmsg(s) ==
  /\ Call(s) /\ sk[s].state = "connected"
  /\ prog' = [prog EXCEPT ![s] = <<[op |-> "copy"]>>]
  /\ UNCHANGED <<load, threads, sockets, hyp>>

pg_sock_recvmsg(s) ==
  /\ prog[s] = <<>> /\ sk[s].state = "connected" /\ sk[s].queue # <<>>
  /\ sk' = [sk EXCEPT ![s].queue = Tail(@)]
  /\ UNCHANGED <<load, threads, prog, pg_next_port, send_lock, page, hyp, bounds>>

pg_sock_release(s) ==
  /\ prog[s] = <<>> /\ sk[s].state \in {"unconnected", "connected"}
  /\ sk' = [sk EXCEPT ![s].state = "closed"]
  /\ prog' = [prog EXCEPT ![s] = <<[op |-> "del"]>>]
  /\ UNCHANGED <<load, threads, pg_next_port, send_lock, page, hyp, bounds>>

User(s) == \/ pg_sock_create(s) \/ pg_sock_connect(s) \/ pg_sock_sendmsg(s)
           \/ pg_sock_recvmsg(s) \/ pg_sock_release(s)

-----------------------------------------------------------------------------
(* pg_vcpu_thread: the head of the loop, ffa_run, and the way to sleep.    *)
Free(t) == prog[t] = <<>>

ThreadTop(t) ==
  /\ tpc[t] = "top" /\ Free(t)
  /\ IF stop[t] THEN tpc' = [tpc EXCEPT ![t] = "exited"] /\ UNCHANGED abort_sleep
     ELSE tpc' = [tpc EXCEPT ![t] = "run"] /\ abort_sleep' = [abort_sleep EXCEPT ![t] = FALSE]
  /\ UNCHANGED <<load, tstate, stop, waiting, timer, need, prog, sockets, hyp, bounds>>

\* The answer of the hypervisor (external): the vCPU gave up the CPU, or has
\* nothing to do, for a time or until it is woken.
Answer(t, pc, ops) ==
  /\ tpc[t] = "run" /\ tpc' = [tpc EXCEPT ![t] = pc]
  /\ need' = [need EXCEPT ![t] = FALSE]
  /\ prog' = [prog EXCEPT ![t] = ops]
  /\ UNCHANGED <<load, tstate, stop, abort_sleep, waiting, timer, sockets>>

RunIdles(t) ==
  /\ \/ Answer(t, "top", <<>>)
     \/ \E r \in idles : Answer(t, r, <<>>)
  /\ UNCHANGED <<hyp, bounds>>

\* The guest asks for something.
Request(t, kind) ==
  /\ tpc[t] = "run" /\ requests[kind] > 0 /\ requests' = [requests EXCEPT ![kind] = @ - 1]
  /\ UNCHANGED <<idles, calls>>

\* To wake up a vCPU, which need not exist.
RunWakesUp(t) ==
  /\ Request(t, "wake")
  /\ \E v \in Ids, j \in {0, 1} : Answer(t, "top", pg_handle_wake_up_request(v, j))
  /\ UNCHANGED hyp

\* To send to the primary, perhaps less than a header; or its mailbox is full,
\* and the VM waits until it is writable.
RunSendsToPrimary(t) ==
  /\ Request(t, "primary")
  /\ \/ /\ rx = NoMsg
        /\ \E p \in Ports, q \in 1 .. pg_next_port + 1, short \in BOOLEAN :
             /\ rx' = [from |-> t[1], src |-> p, dst |-> q]
             /\ Answer(t, "top", IF short THEN <<[op |-> "rx_release", notify |-> FALSE]>>
                                 ELSE <<[op |-> "lookup"]>>)
        /\ UNCHANGED waiters
     \/ /\ rx # NoMsg /\ waiters' = [waiters EXCEPT ![PRIMARY] = @ \union {t[1]}]
        /\ Answer(t, "top", <<>>) /\ UNCHANGED rx
  /\ UNCHANGED full

\* To send to another VM, or to wait until its mailbox is writable.
RunSendsToVm(t) ==
  /\ Request(t, "vm")
  /\ \E v \in DOMAIN full \ {t[1]} :
       \/ /\ ~full[v] /\ full' = [full EXCEPT ![v] = TRUE]
          /\ Answer(t, "top", pg_deliver_message(v)) /\ UNCHANGED waiters
       \/ /\ full[v] /\ waiters' = [waiters EXCEPT ![v] = @ \union {t[1]}]
          /\ Answer(t, "top", <<>>) /\ UNCHANGED full
  /\ UNCHANGED rx

\* To release its mailbox; ffa_run says so if there are waiters.
RunReleases(t) ==
  /\ Request(t, "release")
  /\ full[t[1]] /\ full' = [full EXCEPT ![t[1]] = FALSE]
  /\ Answer(t, "top", IF waiters[t[1]] = {} THEN <<>> ELSE <<[op |-> "notify", v |-> t[1]]>>)
  /\ UNCHANGED <<rx, waiters>>

\* The VM is aborted, and its other vCPUs are run to notice.
Others(t) == {u \in Reached : u[1] = t[1] /\ u # t}
WakeOthers(t) == LET next == SetToSortSeq(Others(t), LAMBDA u, w : u[2] < w[2])
                 IN  FlattenSeq([k \in DOMAIN next |-> pg_vcpu_wake_up(next[k])])
RunAborted(t) == Request(t, "abort") /\ Answer(t, "aborted", WakeOthers(t)) /\ UNCHANGED hyp

Requests(t) == \/ RunWakesUp(t) \/ RunSendsToPrimary(t) \/ RunSendsToVm(t)
               \/ RunReleases(t) \/ RunAborted(t)

\* Before pg_vcpu_sleep the flag for pg_deliver_message and the timer;
\* pg_vcpu_sleep sets the task state before it reads the flags.
SetInterruptible(t) ==
  /\ tpc[t] \in {"wfi", "wfi_timeout", "msg_wait", "msg_wait_timeout", "aborted"} /\ Free(t)
  /\ tpc' = [tpc EXCEPT ![t] = "check"] /\ tstate' = [tstate EXCEPT ![t] = "S"]
  /\ waiting' = [waiting EXCEPT ![t] = tpc[t] \in {"msg_wait", "msg_wait_timeout"}]
  /\ timer' = [timer EXCEPT ![t] = IF tpc[t] \in {"wfi_timeout", "msg_wait_timeout"} THEN "armed" ELSE @]
  /\ UNCHANGED <<load, stop, abort_sleep, need, prog, sockets, hyp, bounds>>



CheckFlags(t) ==
  /\ tpc[t] = "check"
  /\ tpc' = [tpc EXCEPT ![t] = IF abort_sleep[t] \/ stop[t] THEN "woken" ELSE "asleep"]
  /\ UNCHANGED <<load, tstate, stop, abort_sleep, waiting, timer, need, prog, sockets, hyp, bounds>>

\* schedule() returns once somebody has made the task runnable;
\* hrtimer_cancel waits for a callback that is running.
AfterSleep(t) ==
  /\ tpc[t] = "woken" \/ (tpc[t] = "asleep" /\ tstate[t] = "R")
  /\ timer[t] # "expired" /\ tpc' = [tpc EXCEPT ![t] = "top"]
  /\ tstate' = [tstate EXCEPT ![t] = "R"] /\ timer' = [timer EXCEPT ![t] = "off"]
  /\ waiting' = [waiting EXCEPT ![t] = FALSE]
  /\ UNCHANGED <<load, stop, abort_sleep, need, prog, sockets, hyp, bounds>>

\* A thread that never ran returns when it is stopped.
NeverRan(t) ==
  /\ tpc[t] = "created" /\ stop[t] /\ tpc' = [tpc EXCEPT ![t] = "exited"]
  /\ UNCHANGED <<load, tstate, stop, abort_sleep, waiting, timer, need, prog, sockets, hyp, bounds>>

\* pg_vcpu_timer_expired, in the interrupt: the two steps of pg_vcpu_wake_up.
TimerExpires(t) ==
  /\ timer[t] = "armed" /\ timer' = [timer EXCEPT ![t] = "expired"]
  /\ abort_sleep' = [abort_sleep EXCEPT ![t] = TRUE] /\ need' = [need EXCEPT ![t] = TRUE]
  /\ UNCHANGED <<load, tpc, tstate, stop, waiting, prog, sockets, hyp, bounds>>
TimerWakes(t) ==
  /\ timer[t] = "expired" /\ timer' = [timer EXCEPT ![t] = "off"]
  /\ tstate' = [tstate EXCEPT ![t] = "R"]
  /\ UNCHANGED <<load, tpc, stop, abort_sleep, waiting, need, prog, sockets, hyp, bounds>>

Thread(t) == \/ ThreadTop(t) \/ RunIdles(t) \/ SetInterruptible(t) \/ CheckFlags(t)
             \/ AfterSleep(t) \/ NeverRan(t) \/ TimerWakes(t)

-----------------------------------------------------------------------------
NoSock == [state |-> "none", local |-> 0, remote |-> 0, peer |-> 0, hashed |-> FALSE, refs |-> 0,
           queue |-> <<>>]

Init ==
  /\ \E l \in Limits : /\ parts = l.parts /\ idles = l.idles
                       /\ calls = l.calls /\ requests = l.requests
  /\ lpc = "send_page" /\ left = {} /\ have = {} /\ arrays = {} /\ tasks = {}
  /\ pg_vm_count = 0 /\ vcpu_count = [i \in Ids |-> 0]
  /\ tpc = [t \in Vcpus |-> "none"]
  /\ tstate = [t \in Vcpus |-> "R"] /\ stop = [t \in Vcpus |-> FALSE]
  /\ abort_sleep = [t \in Vcpus |-> FALSE] /\ waiting = [t \in Vcpus |-> FALSE]
  /\ timer = [t \in Vcpus |-> "off"] /\ need = [t \in Vcpus |-> FALSE]
  /\ prog = [a \in Actors |-> <<>>]
  /\ sk = [s \in Socks |-> NoSock] /\ pg_next_port = 0 /\ send_lock = FALSE /\ page = NoMsg
  /\ full = [i \in 1 .. Len(parts) |-> FALSE] /\ rx = NoMsg
  /\ waiters = [i \in 0 .. Len(parts) |-> {}]

Next == \/ Loader \/ pg_exit
        \/ \E a \in Actors : Exec(a)
        \/ \E s \in Socks : User(s)
        \/ \E t \in Vcpus : Thread(t) \/ Requests(t) \/ TimerExpires(t)

\* The loading task, the threads, their calls and a running timer callback go
\* on; the hypervisor returns from ffa_run at the latest when its timer
\* interrupts the vCPU.  Nothing is assumed of users and guests.
Spec == /\ Init /\ [][Next]_vars
        /\ WF_vars(Loader)
        /\ \A s \in Socks : WF_vars(Exec(s))
        /\ \A t \in Vcpus : WF_vars(Exec(t) \/ Thread(t))

-----------------------------------------------------------------------------
\* What the next operation of a touches is there: the entry in pg_vms and the
\* task of a thread to wake, and the VM to deliver to.
Touches(a) ==
  /\ (Op(a, "abort") \/ Op(a, "wake")) => Arg(a).t \in tasks /\ Arg(a).t[1] \in arrays
  /\ Op(a, "deliver") => Arg(a).v \in arrays


\* A message handler only works on a socket that is still allocated, although
\* pg_sock_release may run between its lookup and its reference; what it
\* queued on a closed socket goes with the last reference.
SocketAlive ==
  /\ \A a \in Actors : Op(a, "hold") \/ Op(a, "queue") \/ Op(a, "put") => sk[Arg(a).s].refs > 0
  /\ \A s \in Socks : sk[s].refs = 0 => sk[s].queue = <<>>

\* What ffa_msg_send sends is the message of the socket that calls it, however
\* many users share pg_send_page.
SendsOwnMessage == \A s \in Socks : Op(s, "send") => page = Header(s)


=============================================================================
