-------------------------------- MODULE NetStart --------------------------------
(***************************************************************************)
(* initialize_network of plc_network.c: the main thread waits for the      *)
(* interface to come up, in LOOP_DIVIDER slices of the timeout, while the  *)
(* thread of net_mgmt runs iface_up_handler when the event reaches it.     *)
(*                                                                         *)
(* The build has a valid static address and no DHCP: setup_ipv4 makes the  *)
(* services ready at once, and the second wait is never entered.           *)
(***************************************************************************)
EXTENDS Integers

CONSTANT Slices     \* LOOP_DIVIDER

ASSUME SlicesAssumption == Slices \in Nat \ {0}

VARIABLES
    up,             \* the interface is up
    event,          \* NET_EVENT_IF_UP: "none", "queued", "handled", or in the handler, "reset"
    registered,     \* mgmt_iface_cb is registered
    counter, waiter,
    net,            \* initialize_network: its statement, count and result
    services,       \* NET_CONFIG_NEED_IPV4 is set in services_flags
    told            \* history: the count at which the wait heard of the interface, or why not

netVars == <<up, event, registered, counter, waiter, net, services, told>>

NetInit ==
    /\ up \in BOOLEAN /\ event = "none" /\ registered = FALSE
    /\ counter = 0 /\ waiter = 0 /\ services = FALSE /\ told = "never"
    /\ net = [at |-> "off", count |-> 0, ret |-> "none"]

NetRestart(link) ==
    /\ up' = link /\ event' = "none" /\ registered' = FALSE
    /\ counter' = 0 /\ waiter' = 0 /\ services' = FALSE /\ told' = "never"
    /\ net' = [at |-> "off", count |-> 0, ret |-> "none"]

NetAt(at) == net.at = at
NetGoto(at) == net' = [net EXCEPT !.at = at]

-----------------------------------------------------------------------------
(* initialize_network *)

\* Without a default interface, or with one that is not to be started, nothing is waited for.
NetBegin ==
    /\ NetAt("off")
    /\ \/ \E ret \in {"ENOENT", "ENETDOWN"} : net' = [net EXCEPT !.at = "done", !.ret = ret]
       \/ net' = [net EXCEPT !.at = "check", !.count = Slices]
    /\ UNCHANGED <<up, event, registered, counter, waiter, services, told>>

CheckInterface ==
    /\ NetAt("check")
    /\ IF up
       THEN counter' = 0 /\ waiter' = 1 /\ told' = "up" /\ NetGoto("setup")
       ELSE UNCHANGED <<counter, waiter, told>> /\ NetGoto("register")
    /\ UNCHANGED <<up, event, registered, services>>

Register ==
    /\ NetAt("register")
    /\ registered' = TRUE
    /\ NetGoto("sem_init")
    /\ UNCHANGED <<up, event, counter, waiter, services, told>>

\* Mutant: the counter keeps the value it was defined with.
SemInitNone ==
    /\ NetAt("sem_init")
    /\ NetGoto("wait")
    /\ UNCHANGED <<up, event, registered, counter, waiter, services, told>>

SemInit ==
    /\ NetAt("sem_init")
    /\ counter' = 1
    /\ NetGoto("wait")
    /\ UNCHANGED <<up, event, registered, waiter, services, told>>

\* while (count-- > 0), the test of counter, and k_sem_take up to where it pends.
WaitLoop ==
    /\ NetAt("wait")
    /\ net' = [net EXCEPT !.count = @ - 1,
                          !.at = IF net.count = 0 \/ counter = 0 THEN "setup"
                                 ELSE IF waiter = 1 THEN "wait" ELSE "pend"]
    /\ waiter' = IF net.count > 0 /\ counter > 0 THEN 0 ELSE waiter
    /\ UNCHANGED <<up, event, registered, counter, services, told>>

\* The slice is over before the semaphore is given.
SliceOver ==
    /\ NetAt("pend")
    /\ NetGoto(IF counter = 0 THEN "setup" ELSE "wait")
    /\ UNCHANGED <<up, event, registered, counter, waiter, services, told>>

\* The callback is removed, setup_ipv4 gives its token, and the result follows from count.
Setup ==
    /\ NetAt("setup")
    /\ registered' = FALSE /\ services' = TRUE /\ waiter' = 1
    /\ net' = [net EXCEPT !.at = "done", !.ret = IF net.count < 0 THEN "ENETDOWN" ELSE "ok"]
    /\ UNCHANGED <<up, event, counter, told>>

InitializeNetwork ==
    NetBegin \/ CheckInterface \/ Register \/ SemInit \/ WaitLoop \/ SliceOver \/ Setup

-----------------------------------------------------------------------------
(* The interface and net_mgmt *)

\* The link is found, or lost again, of which nobody is told.  While an event is on its
\* way another one makes no difference, nor does one once the wait is over.
LinkUp ==
    /\ ~up /\ ~NetAt("done") /\ event \in {"none", "handled"}
    /\ up' = TRUE /\ event' = "queued"
    /\ UNCHANGED <<registered, counter, waiter, net, services, told>>

LinkDown ==
    /\ up /\ ~NetAt("done")
    /\ up' = FALSE
    /\ UNCHANGED <<event, registered, counter, waiter, net, services, told>>

\* When during the wait the handler runs: before it ("early"), in its last slice, or in time.
When ==
    IF NetAt("sem_init") THEN "early"
    ELSE IF net.at \in {"wait", "pend"} /\ net.count > 0 THEN "in_time"
    ELSE "late"

\* iface_up_handler resets counter, if it is called at all ...
HandlerReset ==
    /\ event = "queued"
    /\ IF registered
       THEN /\ counter' = 0 /\ event' = "reset"
            /\ told' = IF told \in {"never", "early"} THEN When ELSE told
       ELSE event' = "handled" /\ UNCHANGED <<counter, told>>
    /\ UNCHANGED <<up, registered, waiter, net, services>>

\* ... and then gives waiter, to the wait if it pends.
HandlerGive ==
    /\ event = "reset"
    /\ event' = "handled"
    /\ IF NetAt("pend")
       THEN NetGoto("wait") /\ UNCHANGED waiter
       ELSE waiter' = 1 /\ UNCHANGED net
    /\ UNCHANGED <<up, registered, counter, services, told>>

NetMgmt == LinkUp \/ LinkDown \/ HandlerReset \/ HandlerGive

-----------------------------------------------------------------------------
(* Properties *)

NetTypeOK ==
    /\ up \in BOOLEAN /\ registered \in BOOLEAN /\ services \in BOOLEAN
    /\ event \in {"none", "queued", "reset", "handled"}
    /\ counter \in {0, 1} /\ waiter \in {0, 1}
    /\ net \in [at : {"off", "check", "register", "sem_init", "wait", "pend", "setup", "done"},
                count : -1 .. Slices, ret : {"none", "ok", "ENOENT", "ENETDOWN"}]
    /\ told \in {"never", "up", "early", "in_time", "late"}

\* Success means an interface that was up when it was checked or came up in the wait, with
\* its address; a timeout is never reported when the wait heard of the interface before
\* its last slice, but for an event that is handled before counter is initialised
\* (plc_network.c:302 to 320, 335).  That the interface still is up is not promised:
\* nobody listens for its loss.
NetReport ==
    NetAt("done") =>
        /\ net.ret = "ok" => services /\ told \notin {"never", "early"}
        /\ net.ret = "ENETDOWN" => told \in {"never", "early", "late"}
=============================================================================
