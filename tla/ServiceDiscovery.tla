-------------------------- MODULE ServiceDiscovery --------------------------
(***************************************************************************)
(* service-discovery-common.c, as far as a match descriptor request to one *)
(* node goes: one request at a time, no identifier in the response, and a  *)
(* timeout.  Module IasZoneClient conjoins the callback of the caller.     *)
(***************************************************************************)
VARIABLE discovery   \* a request is outstanding (active)

\* emberAfFindDevicesByProfileAndCluster, when the request was sent.
FindDevices ==
  /\ ~discovery
  /\ discovery' = TRUE

\* serviceDiscoveryComplete, by the response or by the timeout event.
DiscoveryComplete ==
  /\ discovery
  /\ discovery' = FALSE
=============================================================================
