------------------------------ MODULE WinService ----------------------------
(***************************************************************************)
(* The Windows service (packaging/windows/service/src/service_main.rs):    *)
(* service_main, the control handler the service manager calls on a thread *)
(* of its own, and the thread that passes a stop on to the daemon.  The    *)
(* daemon is what Daemon says of it: it ends after the shutdown flag, or   *)
(* by an error at any time.                                                *)
(***************************************************************************)
EXTENDS Integers

VARIABLES
    main,               \* service_main's place
    handler,            \* the control handler's next step, 0 when it is idle
    bridge,             \* the thread between the two flags
    handle,             \* STATUS_HANDLE is set
    stop_requested, shutdown,
    reported,           \* the state the service manager was told last
    asked,              \* history: a stop was delivered
    broke               \* history: the daemon ended by itself

vars == <<main, handler, bridge, handle, stop_requested, shutdown, reported, asked, broke>>

Init ==
    /\ main = "register" /\ handler = 0 /\ bridge = "none"
    /\ handle = FALSE /\ stop_requested = FALSE /\ shutdown = FALSE
    /\ reported = "none" /\ asked = FALSE /\ broke = FALSE

\* SetServiceStatus, only with a handle.
report_status(state) == reported' = IF handle THEN state ELSE reported

\* Registering may be refused: the service never runs.
register_handler ==
    /\ main = "register"
    /\ \/ handle' = TRUE /\ main' = "pending"
       \/ handle' = FALSE /\ main' = "refused"
    /\ UNCHANGED <<handler, bridge, stop_requested, shutdown, reported, asked, broke>>

report_start ==
    /\ main = "pending"
    /\ report_status("START_PENDING")
    /\ main' = "started"
    /\ UNCHANGED <<handler, bridge, handle, stop_requested, shutdown, asked, broke>>

report_running ==
    /\ main = "started"
    /\ report_status("RUNNING")
    /\ main' = "running"
    /\ UNCHANGED <<handler, bridge, handle, stop_requested, shutdown, asked, broke>>

\* The bridge is spawned, then the configuration is read; one that is not
\* valid ends the service with the same report as a stop.
spawn_bridge ==
    /\ main = "running"
    /\ bridge' = "watch"
    /\ \/ main' = "daemon" /\ UNCHANGED broke
       \/ main' = "ending" /\ broke' = TRUE
    /\ UNCHANGED <<handler, handle, stop_requested, shutdown, reported, asked>>

BridgeSets == TRUE

bridge_passes ==
    /\ bridge = "watch" /\ stop_requested
    /\ shutdown' = BridgeSets
    /\ bridge' = "done"
    /\ UNCHANGED <<main, handler, handle, stop_requested, reported, asked, broke>>

daemon_ends ==
    /\ main = "daemon"
    /\ \/ shutdown /\ UNCHANGED broke
       \/ ~shutdown /\ broke' = TRUE
    /\ main' = "ending"
    /\ UNCHANGED <<handler, bridge, handle, stop_requested, shutdown, reported, asked>>

report_stopped ==
    /\ main = "ending"
    /\ report_status("STOPPED")
    /\ main' = "done"
    /\ UNCHANGED <<handler, bridge, handle, stop_requested, shutdown, asked, broke>>

\* The service manager delivers a stop or a shutdown only while the last
\* report accepts it.
deliver_stop ==
    /\ reported = "RUNNING" /\ handler = 0 /\ ~asked
    /\ handler' = 1 /\ asked' = TRUE
    /\ UNCHANGED <<main, bridge, handle, stop_requested, shutdown, reported, broke>>

\* Variant: the flag is set before the report.
HandlerOrder_flag == <<"flag", "report">>

HandlerOrder == <<"report", "flag">>

service_control_handler ==
    /\ handler # 0
    /\ \/ /\ HandlerOrder[handler] = "report"
          /\ report_status("STOP_PENDING") /\ UNCHANGED stop_requested
       \/ /\ HandlerOrder[handler] = "flag"
          /\ stop_requested' = TRUE /\ UNCHANGED reported
    /\ handler' = (handler + 1) % 3
    /\ UNCHANGED <<main, bridge, handle, shutdown, asked, broke>>

MainStep ==
    register_handler \/ report_start \/ report_running \/ spawn_bridge \/ report_stopped

Next == MainStep \/ daemon_ends \/ bridge_passes \/ deliver_stop
        \/ service_control_handler

\* The threads are scheduled, and the daemon ends once it is told to.
Fairness ==
    /\ WF_vars(MainStep) /\ WF_vars(service_control_handler) /\ WF_vars(bridge_passes)
    /\ WF_vars(shutdown /\ daemon_ends)

Spec == Init /\ [][Next]_vars /\ Fairness
----------------------------------------------------------------------------
(***************************************************************************)
(* A stop the service manager delivers ends the service and is reported:   *)
(* the flag crosses from the handler to the daemon's own, and the last     *)
(* report is STOPPED, as the handler makes its STOP_PENDING report before  *)
(* it sets the flag (service_main.rs:187-226).  A daemon that ends by      *)
(* itself while the handler runs can have its STOPPED overwritten.         *)
(***************************************************************************)
StopIsCarriedOut ==
    asked ~> main = "done" /\ handler = 0 /\ (reported = "STOPPED" \/ broke)

=============================================================================
