---------------------- MODULE MCClusterTopologyMonitor ----------------------
(* Small instances of ClusterTopologyMonitor for TLC.                      *)
EXTENDS ClusterTopologyMonitor, TLC

CONSTANTS h1, h2, x1, x2, x3, x4, x5

(* Two hosts: a handle for each member of the monitor and for each node    *)
(* thread.  A handle is opened by open_any_conn_get_hosts only when there  *)
(* are no node threads, so that a fresh one is always there.               *)
TwoHosts     == {h1, h2}
TwoHandles   == {x1, x2, x3, x4, x5}
(* A query lists all hosts, or the writer alone.                           *)
TwoViews     == {{h1, h2}, {h1}, {h2}}
(* The cache may start with a topology of an earlier time.                 *)
TwoStale     == {[w |-> h1, m |-> {h1}]}
FullView     == {{h1, h2}}
FullStale    == {[w |-> h1, m |-> {h1, h2}]}
NoStale      == {}
=============================================================================
