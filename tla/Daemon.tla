------------------------------- MODULE Daemon -------------------------------
(***************************************************************************)
(* The daemon process and what talks to it: run_daemon and the client and  *)
(* server loops (daemon/runner.rs, client.rs, handshake.rs,                *)
(* server_loop.rs), the control socket's thread (daemon/ipc.rs), commands  *)
(* of the command line (desmos-cli) and the web handlers that write        *)
(* (desmos-webui/src/handlers).  The threads share the shutdown flag, the  *)
(* configuration's lock and the client registry.  Neither the control      *)
(* socket nor the web server is started by run_daemon: whoever embeds the  *)
(* daemon starts them, at any time.                                        *)
(***************************************************************************)
EXTENDS Integers, Sequences, FiniteSets

CONSTANTS
    Cli,                \* invocations of the command line
    Downs,              \* the ones among them that bring the tunnel down
    Requests,           \* the commands the others may be given
    Sessions,           \* session ids of the server's registry
    MaxRuns,            \* bound: starts of the process
    MaxConfigs,         \* bound: configurations written
    MaxJoins,           \* bound: handshakes of one session id
    MaxTraffic          \* bound: packets that arrive while a loop drains

ASSUME DaemonBounds ==
    {MaxRuns, MaxConfigs, MaxJoins, MaxTraffic} \subseteq Nat

Modes == {"client", "server", "p2p"}
\* "other" stands for the ones that read without the configuration's lock:
\* bonding, interfaces, clients_list and stats.  logs answers like reload.
Commands == {"down", "status", "config", "kick", "reload", "other"}

ASSUME ScriptedCommands == Downs \subseteq Cli /\ Requests \subseteq Commands

Script(c) == IF c \in Downs THEN {"down"} ELSE Requests

VARIABLES
    epoch,              \* how often the process was started
    alive, mode, runner, shutdown, tunnel, guard, traffic,
    ready,              \* history: what the mode needs was set up
    config,             \* the configuration's version
    sessions, joins, kicked,
    file, ipc, backlog,
    cli,                \* each invocation: pc, cmd, line in the socket, reply
    served,             \* history: times a command was carried out
    web                 \* the web server's thread

process == <<epoch, alive, mode, runner, shutdown, tunnel, guard, traffic, ready>>
registry == <<sessions, joins, kicked>>
control == <<file, ipc, backlog>>
daemon_vars == <<process, config, registry, control, cli, served, web>>

NoReply == "none"

DaemonInit ==
    /\ epoch = 0 /\ alive = FALSE /\ mode = "p2p" /\ runner = "off"
    /\ shutdown = FALSE /\ tunnel = "down" /\ guard = FALSE /\ traffic = 0 /\ ready = FALSE
    /\ config = 0
    /\ sessions = {} /\ joins = [s \in Sessions |-> 0] /\ kicked = [s \in Sessions |-> 0]
    /\ file \in {"none", "stale"} /\ ipc = "off" /\ backlog = <<>>
    /\ cli = [c \in Cli |-> [pc |-> "off", cmd |-> "other", line |-> FALSE, reply |-> NoReply]]
    /\ served = [c \in Cli |-> 0]
    /\ web = "idle"

----------------------------------------------------------------------------
\* The lock of the configuration: a waiting writer keeps new readers out.

CanRead == web # "write"

CanWrite == ~guard

----------------------------------------------------------------------------
\* The process.

run_encrypted(m) ==
    /\ ~alive /\ epoch < MaxRuns
    /\ epoch' = epoch + 1 /\ alive' = TRUE /\ mode' = m /\ runner' = "start"
    /\ UNCHANGED <<shutdown, tunnel, guard, traffic, ready, config, registry, control, cli,
                   served, web>>

init_context ==
    /\ runner = "start"
    /\ runner' = "context"
    /\ UNCHANGED <<epoch, alive, mode, shutdown, tunnel, guard, traffic, ready, config,
                   registry, control, cli, served, web>>

\* An error returns from run_daemon, which drops the guard and leaves the
\* tunnel's state as it is.
Fails == runner' = "failed" /\ guard' = FALSE /\ UNCHANGED <<tunnel, ready>>

\* Client and server keep the read guard until they return; a missing
\* section or a bad address ends them.
take_config ==
    /\ runner = "context" /\ CanRead
    /\ \/ mode = "p2p" /\ runner' = "loop" /\ UNCHANGED <<tunnel, ready, guard>>
       \/ mode # "p2p" /\ runner' = "setup" /\ guard' = TRUE /\ UNCHANGED <<tunnel, ready>>
       \/ mode # "p2p" /\ Fails
    /\ UNCHANGED <<epoch, alive, mode, shutdown, traffic, config,
                   registry, control, cli, served, web>>

\* The device, the keys and the sockets, one per interface; any may fail.
setup_client ==
    /\ runner = "setup" /\ mode = "client"
    /\ \/ runner' = "handshake" /\ UNCHANGED <<tunnel, ready, guard>>
       \/ Fails
    /\ UNCHANGED <<epoch, alive, mode, shutdown, traffic, config,
                   registry, control, cli, served, web>>

\* The device, the socket and the reactor; any may fail.
setup_server ==
    /\ runner = "setup" /\ mode = "server"
    /\ \/ runner' = "loop" /\ tunnel' = "up" /\ ready' = TRUE /\ UNCHANGED guard
       \/ Fails
    /\ UNCHANGED <<epoch, alive, mode, shutdown, traffic, config,
                   registry, control, cli, served, web>>

\* One message out, one answer awaited until the deadline; the flag is not
\* looked at.
client_handshake ==
    /\ runner = "handshake"
    /\ \/ runner' = "drop" /\ UNCHANGED <<tunnel, ready, guard>>
       \/ Fails
    /\ UNCHANGED <<epoch, alive, mode, shutdown, traffic, config,
                   registry, control, cli, served, web>>

drop_privileges ==
    /\ runner = "drop"
    /\ \/ runner' = "register" /\ ready' = TRUE /\ tunnel' = "up" /\ UNCHANGED guard
       \/ Fails
    /\ UNCHANGED <<epoch, alive, mode, shutdown, traffic, config,
                   registry, control, cli, served, web>>

register ==
    /\ runner = "register"
    /\ \/ runner' = "loop" /\ UNCHANGED <<tunnel, ready, guard>>
       \/ Fails
    /\ UNCHANGED <<epoch, alive, mode, shutdown, traffic, config,
                   registry, control, cli, served, web>>

\* Variant: the loop only leaves by an error.
Leave_never == FALSE

Leave == shutdown

loop_check ==
    /\ runner = "loop"
    /\ IF Leave
       THEN runner' = "returned" /\ tunnel' = "down" /\ guard' = FALSE
       ELSE runner' = "poll" /\ UNCHANGED <<tunnel, guard>>
    /\ UNCHANGED <<epoch, alive, mode, shutdown, traffic, ready, config,
                   registry, control, cli, served, web>>

\* A timeout, events to drain, or an error.
poll ==
    /\ runner = "poll"
    /\ \/ runner' = "loop" /\ UNCHANGED <<tunnel, ready, guard>>
       \/ mode # "p2p" /\ runner' = "drain" /\ UNCHANGED <<tunnel, ready, guard>>
       \/ mode # "p2p" /\ Fails
    /\ UNCHANGED <<epoch, alive, mode, shutdown, traffic, config,
                   registry, control, cli, served, web>>

\* Packets are taken until there is none; the flag is not looked at.
drain ==
    /\ runner = "drain"
    /\ \/ traffic < MaxTraffic /\ traffic' = traffic + 1 /\ UNCHANGED runner
       \/ runner' = "loop" /\ UNCHANGED traffic
    /\ UNCHANGED <<epoch, alive, mode, shutdown, tunnel, guard, ready, config,
                   registry, control, cli, served, web>>

\* A handshake at the server.
client_joins(s) ==
    /\ runner = "drain" /\ mode = "server" /\ s \notin sessions /\ joins[s] < MaxJoins
    /\ sessions' = sessions \cup {s}
    /\ joins' = [joins EXCEPT ![s] = @ + 1]
    /\ UNCHANGED <<process, config, kicked, control, cli, served, web>>

\* The end of the process: its memory and its threads are gone, every
\* connection is closed, answers already sent can be read, and a bound
\* socket's file stays.
Gone ==
    /\ alive' = FALSE /\ mode' = "p2p" /\ runner' = "off" /\ shutdown' = FALSE
    /\ tunnel' = "down" /\ guard' = FALSE /\ traffic' = 0 /\ ready' = FALSE
    /\ sessions' = {} /\ joins' = [s \in Sessions |-> 0] /\ kicked' = [s \in Sessions |-> 0]
    /\ ipc' = "off" /\ backlog' = <<>> /\ web' = "idle"
    /\ file' = IF file = "bound" THEN "stale" ELSE file
    /\ cli' = [c \in Cli |->
                 [cli[c] EXCEPT !.pc = IF @ \notin {"connected", "sent"} THEN @
                                       ELSE IF cli[c].reply = NoReply THEN "failed" ELSE "done",
                                !.line = FALSE]]
    /\ UNCHANGED <<epoch, config, served>>

exit == alive /\ runner \in {"returned", "failed"} /\ Gone

crash == alive /\ Gone

signal_handler ==
    /\ alive /\ ~shutdown
    /\ shutdown' = TRUE
    /\ UNCHANGED <<epoch, alive, mode, runner, tunnel, guard, traffic, ready, config,
                   registry, control, cli, served, web>>

----------------------------------------------------------------------------
\* The control socket's thread: one connection at a time.

\* A file that is there is removed first.
spawn_ipc_server ==
    /\ alive /\ ipc = "off" /\ file # "bound"
    /\ file' = "bound" /\ ipc' = "accept"
    /\ UNCHANGED <<process, config, registry, backlog, cli, served, web>>

\* Who is still connected.
Waiting(c) == cli[c].pc \in {"connected", "sent"}

ipc_accept ==
    /\ ipc = "accept" /\ ~shutdown /\ backlog # <<>>
    /\ ipc' = Head(backlog) /\ backlog' = Tail(backlog)
    /\ UNCHANGED <<process, config, registry, file, cli, served, web>>

\* The thread ends: the listener and what it had not accepted are closed.
ipc_stop ==
    /\ ipc = "accept" /\ shutdown
    /\ ipc' = "ended" /\ file' = "none" /\ backlog' = <<>>
    /\ cli' = [c \in Cli |-> IF \E k \in DOMAIN backlog : backlog[k] = c
                             THEN [cli[c] EXCEPT !.pc = IF @ \in {"connected", "sent"}
                                                        THEN "failed" ELSE @,
                                                 !.line = FALSE]
                             ELSE cli[c]]
    /\ UNCHANGED <<process, config, registry, served, web>>

\* What a command answers: with no context only down and reload succeed.
Context == runner \notin {"off", "start"}
Answer(cmd, done) ==
    IF cmd = "down" THEN "shutdown"
    ELSE IF cmd = "reload" THEN "ok"
    ELSE IF ~Context THEN "error"
    ELSE CASE cmd = "status" -> tunnel
           [] cmd = "kick" -> IF mode # "server" THEN "error"
                              ELSE IF done THEN "kicked" ELSE "not kicked"
           [] cmd \in {"config", "other"} -> "ok"

\* Variant: the answer does not depend on what the registry held.
remove_client_blind(s) ==
    /\ sessions' = sessions \ {s}
    /\ kicked' = [kicked EXCEPT ![s] = @ + 1]

\* A kick is reported when the session was there.
remove_client(s) ==
    /\ sessions' = sessions \ {s}
    /\ kicked' = [kicked EXCEPT ![s] = IF s \in sessions THEN @ + 1 ELSE @]

SetsFlag(cmd) == cmd = "down"

\* dispatch_command and the reply; a peer that is gone ends the connection.
\* config waits for the lock with the connection open.
ipc_serve(c) ==
    /\ ipc = c /\ cli[c].line
    /\ cli[c].cmd = "config" /\ Context => CanRead
    /\ \E s \in Sessions :
         LET kick == cli[c].cmd = "kick" /\ Context /\ mode = "server"
         IN  /\ IF kick THEN remove_client(s) ELSE UNCHANGED <<sessions, kicked>>
             /\ cli' = [cli EXCEPT ![c] =
                          [@ EXCEPT !.line = FALSE,
                                    !.reply = IF Waiting(c) THEN Answer(cli[c].cmd, s \in sessions)
                                              ELSE cli[c].reply]]
    /\ shutdown' = (shutdown \/ SetsFlag(cli[c].cmd))
    /\ ipc' = IF Waiting(c) THEN c ELSE "accept"
    /\ served' = [served EXCEPT ![c] = @ + 1]
    /\ UNCHANGED <<epoch, alive, mode, runner, tunnel, guard, traffic, ready, config, joins,
                   file, backlog, web>>

\* Nothing to read: the peer closed, or the read timeout passed.
GivesUp(c) == ~cli[c].line

ipc_hangup(c) ==
    /\ ipc = c /\ GivesUp(c)
    /\ ipc' = "accept"
    /\ cli' = [cli EXCEPT ![c].pc = IF Waiting(c) /\ cli[c].reply = NoReply THEN "failed" ELSE @]
    /\ UNCHANGED <<process, config, registry, file, backlog, served, web>>

----------------------------------------------------------------------------
\* A command of the command line (ipc_client.rs): connect, one line, one
\* line back within the timeout.

cli_connect(c, cmd) ==
    /\ cli[c].pc = "off"
    /\ IF file = "bound"
       THEN /\ cli' = [cli EXCEPT ![c] = [@ EXCEPT !.pc = "connected", !.cmd = cmd]]
            /\ backlog' = Append(backlog, c)
       ELSE /\ cli' = [cli EXCEPT ![c] = [@ EXCEPT !.pc = "failed", !.cmd = cmd]]
            /\ UNCHANGED backlog
    /\ UNCHANGED <<process, config, registry, file, ipc, served, web>>

cli_send(c) ==
    /\ cli[c].pc = "connected"
    /\ cli' = [cli EXCEPT ![c] = [@ EXCEPT !.pc = "sent", !.line = TRUE]]
    /\ UNCHANGED <<process, config, registry, control, served, web>>

\* ipc_run: exit 0 with any answer.
cli_done(c) ==
    /\ Waiting(c) /\ cli[c].reply # NoReply
    /\ cli' = [cli EXCEPT ![c].pc = "done"]
    /\ UNCHANGED <<process, config, registry, control, served, web>>

\* The line stays in the socket for the thread to find.
cli_timeout(c) ==
    /\ cli[c].pc = "sent" /\ cli[c].reply = NoReply
    /\ cli' = [cli EXCEPT ![c].pc = "failed"]
    /\ UNCHANGED <<process, config, registry, control, served, web>>

----------------------------------------------------------------------------
\* The web handlers that write.

\* PUT /config: the body is compared with the configuration as it is read;
\* an unsafe difference is refused (no step), a safe one waits for the lock.
web_put_begin ==
    /\ alive /\ Context /\ web = "idle" /\ config < MaxConfigs
    /\ web' = "write"
    /\ UNCHANGED <<process, config, registry, control, cli, served>>

web_put_end ==
    /\ web = "write" /\ CanWrite
    /\ config' = config + 1
    /\ web' = "idle"
    /\ UNCHANGED <<process, registry, control, cli, served>>

\* DELETE /clients/:session_id
web_kick(s) ==
    /\ alive /\ Context /\ mode = "server" /\ web = "idle"
    /\ remove_client(s)
    /\ UNCHANGED <<process, config, joins, control, cli, served, web>>

----------------------------------------------------------------------------
RunnerStep ==
    \/ init_context \/ take_config \/ setup_client \/ setup_server \/ client_handshake
    \/ drop_privileges \/ register \/ loop_check \/ poll \/ drain \/ exit

IpcStep == ipc_accept \/ ipc_stop \/ \E c \in Cli : ipc_serve(c) \/ ipc_hangup(c)

CliStep(c) == cli_send(c) \/ cli_done(c) \/ cli_timeout(c)

DaemonNext ==
    \/ \E m \in Modes : run_encrypted(m)
    \/ RunnerStep \/ crash \/ signal_handler
    \/ \E s \in Sessions : client_joins(s) \/ web_kick(s)
    \/ spawn_ipc_server \/ IpcStep
    \/ \E c \in Cli : CliStep(c) \/ \E cmd \in Script(c) : cli_connect(c, cmd)
    \/ web_put_begin \/ web_put_end

\* The process and its threads are scheduled, and so are the commands.
Fairness ==
    /\ WF_daemon_vars(RunnerStep) /\ WF_daemon_vars(IpcStep) /\ WF_daemon_vars(web_put_end)
    /\ \A c \in Cli : WF_daemon_vars(CliStep(c))

DaemonSpec == DaemonInit /\ [][DaemonNext]_daemon_vars /\ Fairness

----------------------------------------------------------------------------
(***************************************************************************)
(* The shutdown flag, whoever sets it (a signal, down over the control     *)
(* socket), ends the process: not even a web request that waits for the    *)
(* configuration or a handshake without answer keeps run_daemon from       *)
(* returning (runner.rs:78-167, client.rs:322-325).  And a down that was   *)
(* sent before its client gave up sets it, behind however many other       *)
(* connections it waits, unless a configuration is being written: then the *)
(* thread can be stuck in a config command (ipc.rs:57-100, 168-178).       *)
(***************************************************************************)
ShutdownEnds ==
    /\ shutdown /\ alive ~> ~alive
    /\ \A c \in Cli : cli[c].line /\ cli[c].cmd = "down"
                         ~> shutdown \/ ~alive \/ web = "write"

(***************************************************************************)
(* A command is carried out at most once however its client fares, and an  *)
(* answered down has set the flag of the process that answered             *)
(* (ipc.rs:79-100, 157-160; ipc_client.rs:34-61).                          *)
(***************************************************************************)
OncePerCommand ==
    \A c \in Cli : /\ served[c] <= 1
                   /\ cli[c].reply = "shutdown" /\ Waiting(c) => shutdown

(***************************************************************************)
(* The control side and the runner do not get into each other's way.       *)
(* Every command takes effect once.  Of all the kicks of a session, from   *)
(* the control socket and from the web, as many are reported done as       *)
(* sessions were removed (ipc.rs:249-264, handlers/clients.rs:51-98).  A   *)
(* client's tunnel is only ever up with a finished handshake and without   *)
(* the privileges the process started with, a server's with its device and *)
(* its socket (client.rs:79-81, server_loop.rs:76-93).  And the            *)
(* configuration does not change under a running loop, which borrows from  *)
(* it until it returns (runner.rs:79-158).                                 *)
(***************************************************************************)
ControlIsSafe ==
    /\ []OncePerCommand
    /\ [](\A s \in Sessions :
             joins[s] = kicked[s] + (IF s \in sessions THEN 1 ELSE 0))
    /\ [](tunnel = "up" => ready)
    /\ [][config' # config => ~guard]_daemon_vars

(***************************************************************************)
(* A configuration put to the running instance is written without the      *)
(* tunnel being dropped (SPECIFICATION.md:290, handlers/config.rs:2).      *)
(***************************************************************************)
PutIsApplied == web = "write" ~> web # "write"
=============================================================================
