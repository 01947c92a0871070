----------------------------- MODULE ZoneConfig -----------------------------
(***************************************************************************)
(* The configuration of a zone, as mandraked writes it with zonecfg and    *)
(* reads it back from `zonecfg export` (crates/mandrake-zones/src/parse.rs *)
(* and cli.rs).                                                            *)
(*                                                                         *)
(* A configuration is a brand, its attributes, from keys to values, and a  *)
(* sequence of values for each other kind of resource.  A key is a pair:   *)
(* <<"disk", 2>> is `disk2`, <<"ram", 0>> is `ram`; `disk` and `cdrom`     *)
(* without a number are <<"bare disk", 0>> and <<"bare cdrom", 0>>.        *)
(* Abstracted: the properties of a resource (one value stands for them),   *)
(* quoting, autoboot, zonepath, and how the commands or blocks of several  *)
(* kinds, and of attributes, are mixed: no kind bears on another.          *)
(***************************************************************************)
EXTENDS Naturals, SequencesExt

\* f where it has a value, g elsewhere; and the function of one key.
f ++ g == [k \in DOMAIN f \cup DOMAIN g |-> IF k \in DOMAIN f THEN f[k] ELSE g[k]]
Only(key, value) == [k \in {key} |-> value]

\* The kinds an update writes anew, and the fields of a configuration.
Caps == {"capped-cpu", "capped-memory"}
Rewritten == Caps \cup {"anet", "device", "fs"}
Fields == Rewritten \cup {"brand", "attr", "dataset", "rctl", "other"}

Empty(brand) == [field \in Fields |-> IF field = "brand" THEN brand ELSE << >>]

DiskKinds == {"bootdisk", "bare disk", "disk"}
CdromKinds == {"bare cdrom", "cdrom"}

\* An attribute that an update removes unless it writes it.
IsManaged(key) ==
    key[1] \in DiskKinds \cup CdromKinds \cup {"vcpus", "extra", "hostname", "resolvers"}

-----------------------------------------------------------------------------
(* Scripts: which kinds are cleared, what is added of each kind, and the   *)
(* attributes that are selected and set, added, and removed.               *)

Adds(spec) == [kind \in Rewritten |-> spec[kind]]

RenderCreate(spec) ==
    [cleared |-> {}, added |-> Adds(spec), set |-> << >>, new |-> spec.attr, removed |-> {}]

\* Mutant of Unwanted: what the update does not write stays.
UnwantedNone(current, spec) == {}

Unwanted(current, spec) ==
    {k \in DOMAIN current.attr : IsManaged(k) /\ k \notin DOMAIN spec.attr}

\* NICs, caps, devices and filesystems are replaced as they are, attributes one by one.
RenderUpdate(current, spec) ==
    LET there == DOMAIN spec.attr \cap DOMAIN current.attr
    IN  [cleared |-> {kind \in Rewritten : current[kind] # << >>},
         added |-> Adds(spec),
         set |-> Restrict(spec.attr, there),
         new |-> Restrict(spec.attr, DOMAIN spec.attr \ there),
         removed |-> Unwanted(current, spec)]

-----------------------------------------------------------------------------
(* zonecfg: a command that does not fit fails all of them, for the commit  *)
(* comes last.  No kind but a cap is there twice in the same way, a cap    *)
(* not at all.                                                             *)

After(config, script, kind) ==
    (IF kind \in script.cleared THEN << >> ELSE config[kind]) \o script.added[kind]

Fits(config, script) ==
    /\ \A kind \in script.cleared : config[kind] # << >>
    /\ \A kind \in Rewritten : LET after == After(config, script, kind)
                              IN  IF kind \in Caps THEN Len(after) <= 1 ELSE IsInjective(after)
    /\ DOMAIN script.set \cup script.removed \subseteq DOMAIN config.attr
    /\ DOMAIN script.new \cap DOMAIN config.attr = {}

Done(config, script) ==
    LET kept == DOMAIN config.attr \ script.removed
    IN  [field \in Fields |->
            CASE field \in Rewritten -> After(config, script, field)
              [] field = "attr" -> script.new ++ script.set ++ Restrict(config.attr, kept)
              [] OTHER -> config[field]]

\* [ok, config]: whether they were done, and the configuration after it.
Zonecfg(config, script) ==
    [ok |-> Fits(config, script),
     config |-> IF Fits(config, script) THEN Done(config, script) ELSE config]

-----------------------------------------------------------------------------
(* Reading back: what is kept of the blocks of a kind, one `add <kind> ... *)
(* end` for every value: all, the last cap, or, of a kind the parser does  *)
(* not know, the block as it is, among the others.                         *)

FinishResource(config, field) ==
    CASE field \in Caps /\ config[field] # << >> -> <<Last(config[field])>>
      [] field = "rctl" -> << >>
      [] field = "other" -> [i \in DOMAIN config.rctl |-> <<"rctl", config.rctl[i]>>]
      [] OTHER -> config[field]

Read(config) == [field \in Fields |-> FinishResource(config, field)]

-----------------------------------------------------------------------------
(* Zones of other brands than bhyve: what PATCH /zones/{id} changes, by    *)
(* name; a value of 0 takes it away.                                       *)

AttrOf(setting) == <<setting, 0>>
Settings == {"anet", "capped-memory", "hostname", "resolvers"}

\* zones::attrs: the attributes of a new zone.
ZoneAttrs(hostname, resolvers) ==
    Only(<<"mandrake-id", 0>>, 1) ++ Only(AttrOf("hostname"), hostname)
    ++ (IF resolvers = 0 THEN << >> ELSE Only(AttrOf("resolvers"), resolvers))

ZonePatched(config, setting, value) ==
    CASE setting \in {"anet", "capped-memory"} ->
            [config EXCEPT ![setting] = IF value = 0 THEN << >> ELSE <<value>>]
      [] setting \in {"hostname", "resolvers"} /\ value = 0 ->
            [config EXCEPT !.attr = [k \in DOMAIN @ \ {AttrOf(setting)} |-> @[k]]]
      [] OTHER -> [config EXCEPT !.attr = Only(AttrOf(setting), value) ++ @]

\* What the API shows.
ToZone(config) ==
    [s \in Settings |->
        CASE s \in {"anet", "capped-memory"} -> config[s]
          [] s \in {"hostname", "resolvers"} ->
                IF AttrOf(s) \in DOMAIN config.attr THEN <<config.attr[AttrOf(s)]>> ELSE << >>]
=============================================================================
