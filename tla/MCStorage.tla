----------------------------- MODULE MCStorage ------------------------------
(* Storage with three requests: one, another that meets what it does while *)
(* it does it, and one that comes late with an id from before.             *)
EXTENDS Storage

MCPlaces == {<<"rpool", "a">>, <<"tank", "c", "d">>, <<"rpool", "ROOT", "e">>}
MCLayouts == {
    <<VdevSpec("log", <<"d5">>), VdevSpec("raidz1", <<"d2", "d3">>),
      VdevSpec("cache", <<"d4">>), VdevSpec("mirror", <<"d6", "d7">>),
      VdevSpec("spare", <<"d8">>)>>,
    <<VdevSpec("mirror", <<"d2", "d3">>), VdevSpec("stripe", <<"d4">>)>>}
MCAsks == <<
    {"list_datasets", "list_snapshots", "destroy_dataset", "destroy_snapshot", "create_snapshot",
     "create_pool", "scrub", "update_dataset", "clone"},
    {"list_datasets", "create_dataset", "destroy_pool", "rollback", "stop_scrub",
     "destroy_dataset", "create_snapshot"},
    {"destroy_dataset", "destroy_snapshot"}>>
=============================================================================
