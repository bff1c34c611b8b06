------------------------------ MODULE WebServer ------------------------------
(***************************************************************************)
(* The command that serves DSSs (cabriui/web.go over cabridss/web.go): it  *)
(* opens each DSS and serves it, the first one by a new server, the next   *)
(* one, of the same address, by this server that is already serving. When  *)
(* the context is cancelled it closes the DSSs, then stops the server.     *)
(*                                                                         *)
(* Left out: several addresses, certificates, the REST interface.          *)
(***************************************************************************)
EXTENDS DssCommand, Context

webApi == Shape("webapi", 2, "never", {"open"})

VARIABLE server         \* what the server is at

ServerTypeOK == server \in {"off", "serving", "configuring", "shut"}

ServerInit == server = "off"

\* The next DSS is opened when the one before is served.
openMapped(i) ==
    /\ cmd # "serve"
    /\ (i = 2) = (server = "serving")
    /\ NewHDss(i)
    /\ UNCHANGED server

\* A configuration, a DSS, or one without a persistent index: the command
\* returns at once.
mappingFails ==
    /\ Opening /\ server # "configuring"
    /\ Fails("open")
    /\ UNCHANGED server

\* The port is free, and the server answers.
Serve ==
    /\ Opening /\ dss[1] = "open" /\ server = "off"
    /\ server' = "serving"
    /\ UNCHANGED dssVars

\* It is not, or it does not.
ServeFails ==
    /\ Opening /\ dss[1] = "open" /\ server = "off"
    /\ failure' = "serve" /\ cmd' = "over"
    /\ dss' = [dss EXCEPT ![1] = "closed"]
    /\ UNCHANGED <<command, server>>

\* The second DSS is added to the maps of the server.
ConfigureApi ==
    /\ Opening /\ dss[2] = "open"
    /\ \/ server = "serving" /\ server' = "configuring" /\ UNCHANGED cmd
       \/ server = "configuring" /\ server' = "serving" /\ cmd' = "serve"
    /\ UNCHANGED <<command, dss, failure>>

\* The context is cancelled: the command says that it shuts down.
ShuttingDown ==
    /\ cmd = "serve"
    /\ cancelled
    /\ cmd' = "closing"
    /\ UNCHANGED <<command, dss, failure, server>>

\* Shutdown closes the DSSs in any order.
shutdownCallback(i) ==
    /\ cmd = "closing"
    /\ i \in opened
    /\ dss' = [dss EXCEPT ![i] = "closed"]
    /\ UNCHANGED <<cmd, command, failure, server>>

\* Then it stops the server; its errors, if any, are said.
Shutdown ==
    /\ cmd = "closing"
    /\ opened = {}
    /\ server' = "shut" /\ cmd' \in {"report", "over"}
    /\ UNCHANGED <<command, dss, failure>>

Mapping ==
    \/ \E i \in 1 .. 2 : openMapped(i)
    \/ mappingFails \/ Serve \/ ServeFails \/ ConfigureApi
=============================================================================
