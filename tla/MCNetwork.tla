----------------------------- MODULE MCNetwork ------------------------------
(* Network with three requests: two that may meet, and one that comes when *)
(* they are over.                                                          *)
EXTENDS Network

MCAsks == <<
    {"create_aggr", "create_vlan", "create_etherstub", "create_vnic", "create_address",
     "create_route", "remove_link", "list_links", "list_routes"},
    {"create_vlan", "remove_link", "update_link", "create_address",
     "delete_address", "delete_route"},
    {"create_vlan", "remove_link", "create_address", "delete_address"}>>
=============================================================================
