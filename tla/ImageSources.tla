---------------------------- MODULE ImageSources ----------------------------
(***************************************************************************)
(* An image source of mandraked, its catalogue, and who may import from it *)
(* (crates/mandraked/src/images.rs and routes/images.rs).                  *)
(*                                                                         *)
(* A source's row holds its key and whether its index is verified.  A      *)
(* refresh reads the row, fetches index and signature from the URL of the  *)
(* row it has read, checks them with the key of the row it has read, and   *)
(* stores the entries: the row may have changed on the way.  An import     *)
(* reads the row first and the entry second.                               *)
(*                                                                         *)
(* Abstracted: names; the entries, one of which stands for all (an index   *)
(* is its issue number); the URL, of which there is one and whose change   *)
(* does what a change of the key does; the built-in sources, whose URL     *)
(* cannot change; the import itself (Images).                              *)
(***************************************************************************)
EXTENDS Naturals

CONSTANTS
    Handlers,     \* request handlers that may run at once
    Keys,         \* public keys
    NoKey,        \* NULL
    MaxIssues,    \* bound: indexes the publisher issues
    MaxRequests   \* bound: requests

ASSUME ImageSourcesAssumption ==
    /\ NoKey \notin Keys
    /\ MaxIssues \in Nat
    /\ MaxRequests \in Nat

VARIABLES
    source,     \* the row in image_sources
    catalogue,  \* its rows in image_catalogue
    published,  \* what the URL serves
    handler,    \* handler[h]: where it is, and what it remembers
    imports,    \* imports[h]: the entry the last import of h resolved to
    begun,      \* requests so far
    overlapped  \* two requests have overlapped

sourceVars == <<source, catalogue, published, handler, imports, begun, overlapped>>

Issues == 0 .. MaxIssues

\* signer: who has signed the issue; checked: the key the index was really good
\* for when it was fetched, NoKey when it was good for none or nobody looked.
Published == [issue : Issues, signer : Keys]
Catalogue == [issue : Issues, checked : Keys \cup {NoKey}]
Source == [present : BOOLEAN, key : Keys \cup {NoKey}, enabled : BOOLEAN,
           verified : BOOLEAN]
Gone == [present |-> FALSE, key |-> NoKey, enabled |-> TRUE, verified |-> FALSE]
Empty == [issue |-> 0, checked |-> NoKey]

\* write: PATCH, before its UPDATE; load: before find_source; index, signature:
\* before the two fetches; store: before store_catalogue or record_refresh_error;
\* entry: an import that has found the source verified.
SourceSteps == {"idle", "write", "load", "index", "signature", "store", "entry"}
Handler == [at : SourceSteps, key : Keys \cup {NoKey}, enabled : BOOLEAN, refetch : BOOLEAN,
            issue : Issues, signer : Keys \cup {NoKey}, verified : BOOLEAN, ok : BOOLEAN]
Idle == [at |-> "idle", key |-> NoKey, enabled |-> TRUE, refetch |-> TRUE,
         issue |-> 0, signer |-> NoKey, verified |-> FALSE, ok |-> TRUE]

\* A source that has gone has left nothing.
SourceTypeOK ==
    /\ source \in Source
    /\ catalogue \in Catalogue
    /\ ~source.present => source = Gone /\ catalogue = Empty
    /\ published \in Published
    /\ handler \in [Handlers -> Handler]
    /\ imports \in [Handlers -> Catalogue]
    /\ begun \in 0 .. MaxRequests
    /\ overlapped \in BOOLEAN

\* The source has just been created, with or without a key.
SourceInit ==
    /\ source \in {s \in Source : s.present /\ s.enabled /\ ~s.verified}
    /\ catalogue = Empty
    /\ published \in {p \in Published : p.issue = 1}
    /\ handler = [h \in Handlers |-> Idle]
    /\ imports = [h \in Handlers |-> Empty]
    /\ begun = 0 /\ overlapped = FALSE

\* The publisher issues an index, possibly signed with another key.
Publish ==
    /\ published.issue < MaxIssues
    /\ \E k \in Keys : published' = [issue |-> published.issue + 1, signer |-> k]
    /\ UNCHANGED <<source, catalogue, handler, imports, begun, overlapped>>

Request(h) ==
    /\ handler[h].at = "idle"
    /\ begun < MaxRequests
    /\ begun' = begun + 1
    /\ overlapped' = (overlapped \/ \E k \in Handlers : handler[k].at # "idle")

Begin(h, memory) ==
    /\ Request(h)
    /\ handler' = [handler EXCEPT ![h] = memory]
    /\ imports' = [imports EXCEPT ![h] = Empty]
    /\ UNCHANGED <<source, catalogue, published>>

MovesTo(h, step) == handler' = [handler EXCEPT ![h].at = step]
Return(h) == handler' = [handler EXCEPT ![h] = Idle]

\* The request times out, or the daemon dies: nothing else remembers it.
DropHandler(h) ==
    /\ handler[h].at # "idle"
    /\ Return(h)
    /\ UNCHANGED <<source, catalogue, published, imports, begun, overlapped>>

-----------------------------------------------------------------------------
(* PATCH and DELETE of the source.                                         *)

BeginUpdate(h) ==
    \/ \E k \in Keys \cup {NoKey} :
          Begin(h, [Idle EXCEPT !.at = "write", !.key = k])
    \/ \E on \in BOOLEAN :
          Begin(h, [Idle EXCEPT !.at = "write", !.enabled = on, !.refetch = FALSE])

\* Mutant of Patched: a new key leaves the source verified.
PatchedKeeps(s, m) ==
    IF m.refetch THEN [s EXCEPT !.key = m.key] ELSE [s EXCEPT !.enabled = m.enabled]

\* A change of the key makes the source unverified.
Patched(s, m) ==
    IF m.refetch THEN [s EXCEPT !.key = m.key, !.verified = FALSE]
                 ELSE [s EXCEPT !.enabled = m.enabled]

\* One database call; it touches no row when the source has gone, and then the
\* second find_source fails.  Only a change of the key is followed by a refresh.
WriteSource(h) ==
    /\ handler[h].at = "write"
    /\ source' = IF source.present THEN Patched(source, handler[h]) ELSE source
    /\ IF source.present /\ handler[h].refetch THEN MovesTo(h, "load") ELSE Return(h)
    /\ UNCHANGED <<catalogue, published, imports, begun, overlapped>>

\* One database call; the catalogue goes with its source (ON DELETE CASCADE).
DeleteSource(h) ==
    /\ Request(h)
    /\ source.present
    /\ source' = Gone
    /\ catalogue' = Empty
    /\ UNCHANGED <<published, handler, imports>>

-----------------------------------------------------------------------------
(* Refresh.                                                                *)

BeginRefresh(h) == Begin(h, [Idle EXCEPT !.at = "load", !.refetch = FALSE])

\* find_source; the refresh that follows a PATCH is skipped when disabled.
Load(h) ==
    /\ handler[h].at = "load"
    /\ IF source.present /\ (handler[h].refetch => source.enabled)
       THEN handler' = [handler EXCEPT ![h] = [@ EXCEPT !.at = "index", !.key = source.key]]
       ELSE Return(h)
    /\ UNCHANGED <<source, catalogue, published, imports, begun, overlapped>>

\* Without a key nobody asks for the signature.
FetchIndex(h) ==
    /\ handler[h].at = "index"
    /\ \/ handler' = [handler EXCEPT ![h] =
                        [@ EXCEPT !.issue = published.issue, !.signer = published.signer,
                                  !.at = IF handler[h].key = NoKey THEN "store" ELSE "signature"]]
       \/ handler' = [handler EXCEPT ![h] = [@ EXCEPT !.ok = FALSE, !.at = "store"]]
    /\ UNCHANGED <<source, catalogue, published, imports, begun, overlapped>>

\* The signature is that of the index served now, by its signer.
Verifies(h) ==
    published.issue = handler[h].issue /\ published.signer = handler[h].key

FetchSignature(h) ==
    /\ handler[h].at = "signature"
    /\ \E arrives \in BOOLEAN :
          LET good == arrives /\ Verifies(h) IN
          handler' = [handler EXCEPT ![h] =
                        [@ EXCEPT !.at = "store", !.ok = good, !.verified = good]]
    /\ UNCHANGED <<source, catalogue, published, imports, begun, overlapped>>

\* The row is still there to be written.
Stays == source.present

Good(m) == IF m.key # NoKey /\ m.signer = m.key THEN m.key ELSE NoKey

\* store_catalogue replaces entries and verdict in one transaction, and
\* record_refresh_error leaves the old entries and takes the verdict away.  When
\* the source has gone neither leaves a trace.
Store(h) ==
    LET m == handler[h] IN
    /\ m.at = "store"
    /\ \/ /\ Stays /\ m.ok
          /\ source' = [source EXCEPT !.verified = m.verified]
          /\ catalogue' = [issue |-> m.issue, checked |-> Good(m)]
       \/ /\ Stays /\ ~m.ok
          /\ source' = [source EXCEPT !.verified = FALSE]
          /\ UNCHANGED catalogue
       \/ /\ ~Stays
          /\ UNCHANGED <<source, catalogue>>
    /\ Return(h)
    /\ UNCHANGED <<published, imports, begun, overlapped>>

-----------------------------------------------------------------------------
(* An import from the source: resolve_import.                              *)

\* Mutant of MayImport: the verdict is not asked for.
MayImportAny == source.present

MayImport == source.present /\ source.verified

BeginImport(h) ==
    /\ MayImport
    /\ Begin(h, [Idle EXCEPT !.at = "entry"])

ResolveEntry(h) ==
    /\ handler[h].at = "entry"
    /\ imports' = [imports EXCEPT ![h] = catalogue]
    /\ Return(h)
    /\ UNCHANGED <<source, catalogue, published, begun, overlapped>>

SourceNext ==
    \/ Publish
    \/ \E h \in Handlers :
          \/ BeginUpdate(h) \/ WriteSource(h) \/ DeleteSource(h)
          \/ BeginRefresh(h) \/ Load(h) \/ FetchIndex(h) \/ FetchSignature(h) \/ Store(h)
          \/ BeginImport(h) \/ ResolveEntry(h)
          \/ DropHandler(h)

SourceSpec == SourceInit /\ [][SourceNext]_sourceVars

-----------------------------------------------------------------------------
(* Properties.                                                             *)

\* A source shown as verified has a catalogue whose signature somebody checked,
\* however refreshes, failed refreshes and changes of the key interleave.
VerifiedWasChecked ==
    source.verified => catalogue.checked # NoKey

\* What is verified was verified with the key the source has now, as long as
\* requests do not overlap.
VerifiedWithItsKey ==
    source.verified /\ ~overlapped => catalogue.checked = source.key

\* The verdict shown is that of the catalogue shown, by the key shown.
VerdictIsSound == SourceTypeOK /\ VerifiedWasChecked /\ VerifiedWithItsKey

\* What was imported came from an index somebody had verified (ADR-0012:41, "but
\* import from it is refused"), as long as requests do not overlap: the verdict
\* and the entry, read in two calls, may not belong together.
UnverifiedIsRefused ==
    ~overlapped => \A h \in Handlers :
        imports[h].issue # 0 => imports[h].checked # NoKey
=============================================================================
