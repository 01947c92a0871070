---------------------------- MODULE Images_proofs ----------------------------
(***************************************************************************)
(* Proofs about Images, for any images, payloads, types and mishaps.       *)
(*                                                                         *)
(* TypeCorrect   Spec => []TypeOK                                          *)
(* AllAreWhole   Spec => []ImagesAreWhole                                  *)
(* ReadyForGood  Spec => ReadyStays                                        *)
(*                                                                         *)
(* The place of an import says what row, relay (Where), pool (Holds) and   *)
(* staging (Leaves) may have of its image.  ClaimsApart: unless two        *)
(* imports have met, no two images claim a payload.  OneMoves serves every *)
(* step of one image.                                                      *)
(***************************************************************************)
EXTENDS Images, ImageSources, TLAPS

\* The commands that land an image, by its kind.
LEMMA StepsAre ==
    ASSUME NEW t
    PROVE  /\ t.kind = "zone" => Steps(t) = <<"receive", "snapshot">>
           /\ t.kind = "raw" => Steps(t) = <<"create", "fill", "snapshot">>
           /\ t.kind = "iso" => Steps(t) = <<"keep">>
BY DEF Steps

\* The first command of landing.
LEMMA FirstOf ==
    ASSUME NEW t, t.kind \in Kinds
    PROVE  /\ 1 \in DOMAIN Steps(t)
           /\ Head(Steps(t)) = Steps(t)[1]
           /\ Head(Steps(t)) \in {"receive", "create", "keep"}
<1>1. CASE t.kind = "zone"
    BY <1>1, StepsAre
<1>2. CASE t.kind = "raw"
    BY <1>2, StepsAre
<1>3. CASE t.kind = "iso"
    BY <1>3, StepsAre
<1> QED
    BY <1>1, <1>2, <1>3 DEF Kinds

\* How the next command is found.
LEMMA NextIs ==
    ASSUME NEW t, NEW n \in DOMAIN Steps(t),
           \A j \in DOMAIN Steps(t) : Steps(t)[j] = Steps(t)[n] => j = n
    PROVE  NextStep(t, Steps(t)[n]) = IF n = Len(Steps(t)) THEN "landed" ELSE Steps(t)[n + 1]
<1> DEFINE i == CHOOSE j \in DOMAIN Steps(t) : Steps(t)[j] = Steps(t)[n]
<1>1. i \in DOMAIN Steps(t) /\ Steps(t)[i] = Steps(t)[n]
    OBVIOUS
<1>2. i = n
    BY <1>1
<1>3. NextStep(t, Steps(t)[n]) = IF i = Len(Steps(t)) THEN "landed" ELSE Steps(t)[i + 1]
    BY DEF NextStep
<1> QED
    BY <1>2, <1>3

\* The command after each, three sequences of at most three.
LEMMA NextOf ==
    ASSUME NEW t, t.kind \in Kinds, NEW n \in DOMAIN Steps(t)
    PROVE  /\ NextStep(t, Steps(t)[n]) = "landed" => Steps(t)[n] \in {"keep", "snapshot"}
           /\ NextStep(t, Steps(t)[n]) # "landed" =>
                 /\ \E m \in DOMAIN Steps(t) : NextStep(t, Steps(t)[n]) = Steps(t)[m]
                 /\ NextStep(t, Steps(t)[n]) \in {"fill", "snapshot"}
           /\ NextStep(t, Steps(t)[n]) = "snapshot" => Steps(t)[n] \in {"receive", "fill"}
<1>1. CASE t.kind = "zone"
  <2>1. Steps(t) = <<"receive", "snapshot">>
      BY <1>1, StepsAre
  <2>2. n \in 1 .. 2 /\ DOMAIN Steps(t) = 1 .. 2 /\ Len(Steps(t)) = 2
      BY <2>1
  <2>3. Steps(t)[1] = "receive" /\ Steps(t)[2] = "snapshot"
      BY <2>1
  <2>4. \A j \in DOMAIN Steps(t) : Steps(t)[j] = Steps(t)[n] => j = n
      BY <2>2, <2>3
  <2>5. NextStep(t, Steps(t)[n]) = IF n = 2 THEN "landed" ELSE Steps(t)[n + 1]
      BY <2>2, <2>4, NextIs
  <2>6. /\ n = 1 => NextStep(t, Steps(t)[n]) = Steps(t)[2]
        /\ n = 2 => NextStep(t, Steps(t)[n]) = "landed"
      BY <2>2, <2>5
  <2> QED
      BY <2>2, <2>3, <2>6
<1>2. CASE t.kind = "raw"
  <2>1. Steps(t) = <<"create", "fill", "snapshot">>
      BY <1>2, StepsAre
  <2>2. n \in 1 .. 3 /\ DOMAIN Steps(t) = 1 .. 3 /\ Len(Steps(t)) = 3
      BY <2>1
  <2>3. Steps(t)[1] = "create" /\ Steps(t)[2] = "fill" /\ Steps(t)[3] = "snapshot"
      BY <2>1
  <2>4. \A j \in DOMAIN Steps(t) : Steps(t)[j] = Steps(t)[n] => j = n
      BY <2>2, <2>3
  <2>5. NextStep(t, Steps(t)[n]) = IF n = 3 THEN "landed" ELSE Steps(t)[n + 1]
      BY <2>2, <2>4, NextIs
  <2>6. /\ n = 1 => NextStep(t, Steps(t)[n]) = Steps(t)[2]
        /\ n = 2 => NextStep(t, Steps(t)[n]) = Steps(t)[3]
        /\ n = 3 => NextStep(t, Steps(t)[n]) = "landed"
      BY <2>2, <2>5
  <2> QED
      BY <2>2, <2>3, <2>6
<1>3. CASE t.kind = "iso"
  <2>1. Steps(t) = <<"keep">>
      BY <1>3, StepsAre
  <2>2. n \in 1 .. 1 /\ DOMAIN Steps(t) = 1 .. 1 /\ Len(Steps(t)) = 1
      BY <2>1
  <2>3. Steps(t)[1] = "keep"
      BY <2>1
  <2>4. \A j \in DOMAIN Steps(t) : Steps(t)[j] = Steps(t)[n] => j = n
      BY <2>2, <2>3
  <2>5. NextStep(t, Steps(t)[n]) = IF n = 1 THEN "landed" ELSE Steps(t)[n + 1]
      BY <2>2, <2>4, NextIs
  <2>6. n = 1 => NextStep(t, Steps(t)[n]) = "landed"
      BY <2>2, <2>5
  <2> QED
      BY <2>2, <2>3, <2>6
<1> QED
    BY <1>1, <1>2, <1>3 DEF Kinds

\* What the pool holds after each command.
LEMMA OutcomeOf ==
    ASSUME NEW t, NEW step \in LandSteps, NEW there \in Contents,
           NEW o \in Outcomes(t, step, there)
    PROVE  /\ o.content \in Contents
           /\ step \in {"receive", "fill"} /\ o.ok => o.content = "whole"
           /\ step = "keep" => o.content = IF o.ok THEN "payload" ELSE there
           /\ step = "snapshot" /\ o.ok /\ there = "whole" => o.content = "payload"
<1> DEFINE failed == [content |-> there, ok |-> FALSE]
<1>1. CASE step = "receive"
  <2>1. PICK end \in Ends : o = [content |-> IF end.second THEN "whole" ELSE "nothing",
                                 ok |-> Succeeded(end.first, end.second)]
      BY <1>1 DEF Outcomes
  <2> QED
      BY <1>1, <2>1 DEF Succeeded, Ends, Contents
<1>2. CASE step = "fill"
  <2>1. \/ o = failed
        \/ \E end \in Ends : o = [content |-> IF end.first /\ end.second THEN "whole" ELSE "cut",
                                  ok |-> Succeeded(end.first, end.second)]
      BY <1>2 DEF Outcomes
  <2>2. CASE o = failed
      BY <1>2, <2>2
  <2>3. ASSUME NEW end \in Ends, o = [content |-> IF end.first /\ end.second THEN "whole" ELSE "cut",
                                      ok |-> Succeeded(end.first, end.second)]
        PROVE  o.content \in Contents /\ (o.ok => o.content = "whole")
      BY <2>3 DEF Succeeded, Ends, Contents
  <2> QED
      BY <1>2, <2>1, <2>2, <2>3
<1>3. CASE step = "create"
  <2>1. o = failed \/ o = [content |-> "blank", ok |-> TRUE]
      BY <1>3 DEF Outcomes
  <2> QED
      BY <1>3, <2>1 DEF Contents
<1>4. CASE step = "keep"
  <2>1. o = failed \/ o = [content |-> "payload", ok |-> TRUE]
      BY <1>4 DEF Outcomes
  <2> QED
      BY <1>4, <2>1 DEF Contents
<1>5. CASE step = "snapshot"
  <2>1. \/ o = failed
        \/ o = [content |-> IF there = "whole" THEN "payload" ELSE there, ok |-> TRUE]
      BY <1>5 DEF Outcomes
  <2> QED
      BY <1>5, <2>1 DEF Contents
<1> QED
    BY <1>1, <1>2, <1>3, <1>4, <1>5 DEF LandSteps

-----------------------------------------------------------------------------
(* The invariant: what a place of the import says of row, relay, staging   *)
(* and pool.                                                               *)

\* Before its INSERT an image has no row; in Quiet places no word waits for the relay; only
\* a finished import has a ready row, and only a ready row has its payload removed.
Quiet == {"idle", "insert", "spawn", "discard", "done", "undone", "lost"}

Where(i) ==
    /\ importer[i] \in {"idle", "insert"} => row[i] = "absent" /\ deleter[i] = "idle"
    /\ importer[i] \in Quiet => said[i] = <<>>
    /\ row[i] = "ready" \/ deleter[i] = "remove" => importer[i] = "done"
    /\ importer[i] \in LandSteps =>
          \E n \in DOMAIN Steps(type[i]) : importer[i] = Steps(type[i])[n]

\* What is in the pool, from place to place.
Unlanded == {"idle", "insert", "spawn", "prepare", "download", "verify",
             "receive", "create", "keep"}

Holds(i) ==
    /\ importer[i] \in Unlanded => stored[i] = "nothing"
    /\ importer[i] = "snapshot" => stored[i] = "whole"
    /\ importer[i] \in {"landed", "finish"} => stored[i] = "payload"
    /\ importer[i] = "done" => stored[i] \in {"payload", "nothing"}
    /\ row[i] = "ready" => stored[i] = "payload" \/ deleter[i] = "unlist" \/ i \in cut

\* What an import leaves, unless its clean-up failed.
Leaves(i) ==
    /\ importer[i] \in {"idle", "insert", "spawn", "prepare", "download"} => i \notin staged
    /\ i \notin uncleaned =>
          /\ importer[i] \in {"finish", "discard", "done", "fail", "undone"} => i \notin staged
          /\ importer[i] \in {"clean", "fail", "undone"} => stored[i] = "nothing"

\* An image claims its payload from the look at the rows until its row has gone or failed.
Claims(i) == importer[i] = "insert" \/ (Listed(i) /\ row[i] # "failed")

ClaimsApart ==
    ~raced => \A i, k \in Images : i # k /\ sha[i] = sha[k] => ~(Claims(i) /\ Claims(k))

Whole(i) == type[i].kind \in Kinds /\ Where(i) /\ Holds(i) /\ Leaves(i)

Inv == TypeOK /\ ClaimsApart /\ \A i \in Images : Whole(i)

\* Nothing is there at first.
LEMMA InitInv == Init => Inv
<1> SUFFICES ASSUME Init PROVE Inv
    OBVIOUS
<1>1. TypeOK
  <2>1. 0 \in 0 .. MaxMishaps
      BY ImagesAssumption
  <2>2. said \in [Images -> Seq(Phases)]
      BY DEF Init
  <2> QED
      BY <2>1, <2>2 DEF Init, TypeOK, Rows, Places, Contents
<1>2. ASSUME NEW i \in Images PROVE Whole(i) /\ ~Claims(i)
  <2>1. type[i].kind \in Kinds
      BY ImagesAssumption DEF Init
  <2> QED
      BY <2>1 DEF Init, Whole, Where, Holds, Leaves, Claims, Listed, LandSteps
<1> QED
    BY <1>1, <1>2 DEF Inv, ClaimsApart

\* One image says something, or one word of it is written.
LEMMA SaidType ==
    ASSUME TypeOK, NEW i \in Images, NEW phase \in Phases
    PROVE  /\ Say(i, phase) => /\ said' \in [Images -> Seq(Phases)]
                              /\ \A k \in Images \ {i} : said'[k] = said[k]
           /\ said[i] # <<>> => Head(said[i]) \in Phases /\ Tail(said[i]) \in Seq(Phases)
<1>1. said \in [Images -> Seq(Phases)] /\ said[i] \in Seq(Phases)
    BY DEF TypeOK
<1>2. ASSUME Say(i, phase)
      PROVE  /\ said' \in [Images -> Seq(Phases)]
             /\ \A k \in Images \ {i} : said'[k] = said[k]
  <2>1. Append(said[i], phase) \in Seq(Phases)
      BY <1>1
  <2>2. said' = [said EXCEPT ![i] = Append(said[i], phase)]
      BY <1>2 DEF Say
  <2> QED
      BY <1>1, <2>1, <2>2
<1>3. ASSUME said[i] # <<>> PROVE Head(said[i]) \in Phases /\ Tail(said[i]) \in Seq(Phases)
    BY <1>1, <1>3
<1> QED
    BY <1>2, <1>3

\* Nothing happens to the image k.
ImageStays(k) ==
    /\ row'[k] = row[k] /\ importer'[k] = importer[k] /\ said'[k] = said[k]
    /\ stored'[k] = stored[k] /\ deleter'[k] = deleter[k] /\ (k \in staged' <=> k \in staged)

\* A step of one image: the others stay, and history only grows.
LEMMA OneMoves ==
    ASSUME Inv, NEW i \in Images, \A k \in Images \ {i} : ImageStays(k),
           type' = type, sha' = sha, raced' = raced, cut \subseteq cut',
           uncleaned \subseteq uncleaned',
           TypeOK', Where(i)', Holds(i)', Leaves(i)', Claims(i)' => Claims(i)
    PROVE  Inv'
<1>1. ASSUME NEW k \in Images \ {i} PROVE Whole(k)' /\ (Claims(k)' => Claims(k))
    BY <1>1 DEF Inv, ImageStays, Whole, Where, Holds, Leaves, Claims, Listed
<1>2. Whole(i)'
    BY DEF Inv, Whole
<1>3. \A k \in Images : Claims(k)' => Claims(k)
    BY <1>1
<1>4. ClaimsApart'
    BY <1>3 DEF Inv, ClaimsApart
<1> QED
    BY <1>1, <1>2, <1>4 DEF Inv

\* The steps of one image, each by OneMoves.
LEMMA InsertRowInv == ASSUME Inv, NEW i \in Images, InsertRow(i) PROVE Inv'
<1>1. TypeOK'
    BY DEF Inv, TypeOK, Rows, InFlight, Places, InsertRow, Goto, history
<1>2. \A k \in Images \ {i} : ImageStays(k)
    BY DEF ImageStays, InsertRow, Goto
<1>3. Where(i)'
    BY DEF Inv, TypeOK, Whole, Where, Quiet, LandSteps, InsertRow, Goto
<1>4. Holds(i)'
    BY DEF Inv, TypeOK, Whole, Holds, Unlanded, InsertRow, Goto
<1>5. Leaves(i)'
    BY DEF Inv, Whole, Holds, Unlanded, Leaves, InsertRow
<1>6. Claims(i)' => Claims(i)
    BY DEF Claims, InsertRow
<1>7. /\ type' = type /\ sha' = sha /\ raced' = raced
      /\ cut \subseteq cut' /\ uncleaned \subseteq uncleaned'
    BY DEF InsertRow, history
<1> QED
    BY <1>1, <1>2, <1>3, <1>4, <1>5, <1>6, <1>7, OneMoves

LEMMA StartImportInv == ASSUME Inv, NEW i \in Images, StartImport(i) PROVE Inv'
<1>1. TypeOK'
    BY DEF Inv, TypeOK, Places, Tasks, StartImport, Goto, history
<1>2. \A k \in Images \ {i} : ImageStays(k)
    BY DEF ImageStays, StartImport, Goto
<1>3. Where(i)'
    BY DEF Inv, Whole, Where, Quiet, LandSteps, StartImport, Goto
<1>4. Holds(i)'
    BY DEF Inv, Whole, Where, Holds, Unlanded, StartImport, Goto
<1>5. Leaves(i)'
    BY DEF Inv, Whole, Holds, Unlanded, Leaves, StartImport
<1>6. Claims(i)' => Claims(i)
    BY DEF Claims, Listed, StartImport, Goto
<1>7. /\ type' = type /\ sha' = sha /\ raced' = raced
      /\ cut \subseteq cut' /\ uncleaned \subseteq uncleaned'
    BY DEF StartImport, history
<1> QED
    BY <1>1, <1>2, <1>3, <1>4, <1>5, <1>6, <1>7, OneMoves

LEMMA DropImportInv == ASSUME Inv, NEW i \in Images, DropImport(i) PROVE Inv'
<1>1. TypeOK'
    BY ImagesAssumption DEF Inv, TypeOK, Places, DropImport, Goto
<1>2. \A k \in Images \ {i} : ImageStays(k)
    BY DEF ImageStays, DropImport, Goto
<1>3. Where(i)'
    BY DEF Inv, Whole, Where, Quiet, LandSteps, DropImport, Goto
<1>4. Holds(i)'
    BY DEF Inv, Whole, Holds, Unlanded, DropImport, Goto
<1>5. Leaves(i)'
    BY DEF Inv, Whole, Holds, Unlanded, Leaves, DropImport
<1>6. Claims(i)' => Claims(i)
    BY DEF Claims, Listed, DropImport, Goto
<1>7. /\ type' = type /\ sha' = sha /\ raced' = raced
      /\ cut \subseteq cut' /\ uncleaned \subseteq uncleaned'
    BY DEF DropImport
<1> QED
    BY <1>1, <1>2, <1>3, <1>4, <1>5, <1>6, <1>7, OneMoves

LEMMA PrepareInv == ASSUME Inv, NEW i \in Images, Prepare(i) PROVE Inv'
<1>1. TypeOK'
    BY SaidType DEF Inv, TypeOK, Phases, Places, Tasks, Prepare, Goto, history
<1>2. \A k \in Images \ {i} : ImageStays(k)
    BY SaidType DEF Inv, TypeOK, ImageStays, Phases, Prepare, Goto
<1>3. Where(i)'
    BY DEF Inv, TypeOK, Whole, Where, Quiet, LandSteps, Prepare, Goto
<1>4. Holds(i)'
    BY DEF Inv, TypeOK, Whole, Where, Holds, Unlanded, Prepare, Goto
<1>5. Leaves(i)'
    BY DEF Inv, Whole, Holds, Unlanded, Leaves, Prepare
<1>6. Claims(i)' => Claims(i)
    BY DEF Inv, TypeOK, Claims, Listed, Prepare, Goto
<1>7. /\ type' = type /\ sha' = sha /\ raced' = raced
      /\ cut \subseteq cut' /\ uncleaned \subseteq uncleaned'
    BY DEF Prepare, history
<1> QED
    BY <1>1, <1>2, <1>3, <1>4, <1>5, <1>6, <1>7, OneMoves

LEMMA DownloadInv == ASSUME Inv, NEW i \in Images, Download(i) PROVE Inv'
<1>1. TypeOK'
    BY SaidType DEF Inv, TypeOK, Phases, Places, Tasks, Download, Goto, history
<1>2. \A k \in Images \ {i} : ImageStays(k)
    BY SaidType DEF Inv, TypeOK, ImageStays, Phases, Download, Goto
<1>3. Where(i)'
    BY DEF Inv, TypeOK, Whole, Where, Quiet, LandSteps, Download, Goto
<1>4. Holds(i)'
    BY DEF Inv, TypeOK, Whole, Where, Holds, Unlanded, Download, Goto
<1>5. Leaves(i)'
    BY DEF Inv, TypeOK, Whole, Holds, Unlanded, Leaves, Download, Goto
<1>6. Claims(i)' => Claims(i)
    BY DEF Inv, TypeOK, Claims, Listed, Download, Goto
<1>7. /\ type' = type /\ sha' = sha /\ raced' = raced
      /\ cut \subseteq cut' /\ uncleaned \subseteq uncleaned'
    BY DEF Download, history
<1> QED
    BY <1>1, <1>2, <1>3, <1>4, <1>5, <1>6, <1>7, OneMoves

LEMMA DestroyInv == ASSUME Inv, NEW i \in Images, Destroy(i) PROVE Inv'
<1>1. TypeOK'
    BY ImagesAssumption DEF Inv, TypeOK, Places, Tasks, Contents, Destroy, Goto, CleanedUp
<1>2. \A k \in Images \ {i} : ImageStays(k)
    BY DEF Inv, TypeOK, ImageStays, Destroy, Goto, CleanedUp
<1>3. Where(i)'
    BY DEF Inv, Whole, Where, Quiet, LandSteps, Destroy, Goto
<1>4. Holds(i)'
    BY DEF Inv, Whole, Where, Holds, Unlanded, Destroy, Goto
<1>5. Leaves(i)'
    BY DEF Inv, TypeOK, Leaves, Destroy, Goto, CleanedUp
<1>6. Claims(i)' => Claims(i)
    BY DEF Claims, Listed, Destroy, Goto
<1>7. /\ type' = type /\ sha' = sha /\ raced' = raced
      /\ cut \subseteq cut' /\ uncleaned \subseteq uncleaned'
    BY DEF Destroy, CleanedUp
<1> QED
    BY <1>1, <1>2, <1>3, <1>4, <1>5, <1>6, <1>7, OneMoves

LEMMA CleanInv == ASSUME Inv, NEW i \in Images, Clean(i) PROVE Inv'
<1>1. TypeOK'
    BY ImagesAssumption DEF Inv, TypeOK, Places, Tasks, Clean, Goto, CleanedUp
<1>2. \A k \in Images \ {i} : ImageStays(k)
    BY DEF ImageStays, Clean, Goto, CleanedUp
<1>3. Where(i)'
    BY DEF Inv, Whole, Where, Quiet, LandSteps, Clean, Goto
<1>4. Holds(i)'
    BY DEF Inv, Whole, Holds, Unlanded, Clean, Goto
<1>5. Leaves(i)'
    BY DEF Inv, Whole, Leaves, Clean, Goto, CleanedUp
<1>6. Claims(i)' => Claims(i)
    BY DEF Claims, Listed, Clean, Goto
<1>7. /\ type' = type /\ sha' = sha /\ raced' = raced
      /\ cut \subseteq cut' /\ uncleaned \subseteq uncleaned'
    BY DEF Clean, CleanedUp
<1> QED
    BY <1>1, <1>2, <1>3, <1>4, <1>5, <1>6, <1>7, OneMoves

LEMMA RelayInv == ASSUME Inv, NEW i \in Images, Relay(i) PROVE Inv'
<1>1. TypeOK'
    BY DEF Inv, TypeOK, Rows, InFlight, Relay, history
<1>2. \A k \in Images \ {i} : ImageStays(k)
    BY DEF ImageStays, Relay
<1>3. Where(i)'
    BY SaidType DEF Inv, Whole, Where, Quiet, Phases, Relay
<1>4. Holds(i)'
    BY SaidType DEF Inv, TypeOK, Whole, Holds, Listed, Phases, Relay
<1>5. Leaves(i)'
    BY DEF Inv, Whole, Leaves, Relay, history
<1>6. Claims(i)' => Claims(i)
    BY DEF Claims, Listed, Relay
<1>7. /\ type' = type /\ sha' = sha /\ raced' = raced
      /\ cut \subseteq cut' /\ uncleaned \subseteq uncleaned'
    BY DEF Relay, history
<1> QED
    BY <1>1, <1>2, <1>3, <1>4, <1>5, <1>6, <1>7, OneMoves

LEMMA FinishInv == ASSUME Inv, NEW i \in Images, Finish(i) PROVE Inv'
<1>1. TypeOK'
    BY DEF Inv, TypeOK, Rows, Places, Tasks, Finish, Goto, history
<1>2. \A k \in Images \ {i} : ImageStays(k)
    BY DEF Inv, TypeOK, ImageStays, Finish, Goto
<1>3. Where(i)'
    BY DEF Inv, TypeOK, Whole, Where, LandSteps, Finish, Goto, RelayDone
<1>4. Holds(i)'
    BY DEF Inv, TypeOK, Whole, Holds, Unlanded, Finish, Goto
<1>5. Leaves(i)'
    BY DEF Inv, TypeOK, Whole, Leaves, Finish, Goto, history
<1>6. Claims(i)' => Claims(i)
    BY DEF Inv, TypeOK, Claims, Listed, Finish, Goto
<1>7. /\ type' = type /\ sha' = sha /\ raced' = raced
      /\ cut \subseteq cut' /\ uncleaned \subseteq uncleaned'
    BY DEF Finish, history
<1> QED
    BY <1>1, <1>2, <1>3, <1>4, <1>5, <1>6, <1>7, OneMoves

LEMMA DiscardInv == ASSUME Inv, NEW i \in Images, Discard(i) PROVE Inv'
<1>1. TypeOK'
  <2>1. stored' \in [Images -> Contents]
      BY DEF Inv, TypeOK, Contents, Discard, CleanedUp, Discarded
  <2>2. mishaps' \in 0 .. MaxMishaps /\ uncleaned' \subseteq Images
      BY ImagesAssumption DEF Inv, TypeOK, Discard, CleanedUp
  <2>3. importer' \in [Images -> Places]
      BY DEF Inv, TypeOK, Discard, Goto, Places
  <2> QED
      BY <2>1, <2>2, <2>3 DEF Inv, TypeOK, Discard
<1>2. \A k \in Images \ {i} : ImageStays(k)
    BY DEF Inv, TypeOK, ImageStays, Discard, Goto, CleanedUp
<1>3. Where(i)'
    BY DEF Inv, TypeOK, Whole, Where, Quiet, LandSteps, Discard, Goto
<1>4. Holds(i)'
    BY DEF Inv, TypeOK, Whole, Where, Holds, Unlanded, Discard, Goto
<1>5. Leaves(i)'
    BY DEF Inv, TypeOK, Whole, Leaves, Discard, Goto, CleanedUp, Discarded
<1>6. Claims(i)' => Claims(i)
    BY DEF Claims, Listed, Discard, Goto
<1>7. /\ type' = type /\ sha' = sha /\ raced' = raced
      /\ cut \subseteq cut' /\ uncleaned \subseteq uncleaned'
    BY DEF Discard, CleanedUp
<1> QED
    BY <1>1, <1>2, <1>3, <1>4, <1>5, <1>6, <1>7, OneMoves

LEMMA FailInv == ASSUME Inv, NEW i \in Images, Fail(i) PROVE Inv'
<1>1. TypeOK'
    BY DEF Inv, TypeOK, Rows, Places, Fail, Goto, history
<1>2. \A k \in Images \ {i} : ImageStays(k)
    BY DEF ImageStays, Fail, Goto
<1>3. Where(i)'
    BY DEF Inv, TypeOK, Whole, Where, LandSteps, Fail, Goto, RelayDone
<1>4. Holds(i)'
    BY DEF Inv, TypeOK, Whole, Where, Holds, Unlanded, Fail, Goto
<1>5. Leaves(i)'
    BY DEF Inv, Whole, Leaves, Fail, Goto, history
<1>6. Claims(i)' => Claims(i)
    BY DEF Claims, Listed, Fail, Goto
<1>7. /\ type' = type /\ sha' = sha /\ raced' = raced
      /\ cut \subseteq cut' /\ uncleaned \subseteq uncleaned'
    BY DEF Fail, history
<1> QED
    BY <1>1, <1>2, <1>3, <1>4, <1>5, <1>6, <1>7, OneMoves

LEMMA FindForDeleteInv == ASSUME Inv, NEW i \in Images, FindForDelete(i) PROVE Inv'
<1>1. TypeOK'
    BY DEF Inv, TypeOK, FindForDelete, history
<1>2. \A k \in Images \ {i} : ImageStays(k)
    BY DEF ImageStays, FindForDelete
<1>3. Where(i)'
    BY DEF Inv, Whole, Where, Listed, FindForDelete
<1>4. Holds(i)'
    BY DEF Inv, Whole, Holds, FindForDelete, history
<1>5. Leaves(i)'
    BY DEF Inv, Whole, Leaves, FindForDelete, history
<1>6. Claims(i)' => Claims(i)
    BY DEF Claims, FindForDelete
<1>7. /\ type' = type /\ sha' = sha /\ raced' = raced
      /\ cut \subseteq cut' /\ uncleaned \subseteq uncleaned'
    BY DEF FindForDelete, history
<1> QED
    BY <1>1, <1>2, <1>3, <1>4, <1>5, <1>6, <1>7, OneMoves

LEMMA RemoveInv == ASSUME Inv, NEW i \in Images, Remove(i) PROVE Inv'
<1>1. TypeOK'
    BY DEF Inv, TypeOK, Contents, Remove, history
<1>2. \A k \in Images \ {i} : ImageStays(k)
    BY DEF Inv, TypeOK, ImageStays, Remove
<1>3. Where(i)'
    BY DEF Inv, Whole, Where, Remove
<1>4. Holds(i)'
    BY DEF Inv, TypeOK, Whole, Where, Holds, Remove, history
<1>5. Leaves(i)'
    BY DEF Inv, TypeOK, Whole, Leaves, Remove, history
<1>6. Claims(i)' => Claims(i)
    BY DEF Claims, Listed, Remove
<1>7. /\ type' = type /\ sha' = sha /\ raced' = raced
      /\ cut \subseteq cut' /\ uncleaned \subseteq uncleaned'
    BY DEF Remove, history
<1> QED
    BY <1>1, <1>2, <1>3, <1>4, <1>5, <1>6, <1>7, OneMoves

LEMMA UnlistInv == ASSUME Inv, NEW i \in Images, Unlist(i) PROVE Inv'
<1>1. TypeOK'
    BY DEF Inv, TypeOK, Rows, Unlist, history
<1>2. \A k \in Images \ {i} : ImageStays(k)
    BY DEF ImageStays, Unlist
<1>3. Where(i)'
    BY DEF Inv, Whole, Where, Unlist
<1>4. Holds(i)'
    BY DEF Inv, TypeOK, Whole, Holds, Unlist
<1>5. Leaves(i)'
    BY DEF Inv, Whole, Leaves, Unlist, history
<1>6. Claims(i)' => Claims(i)
    BY DEF Claims, Listed, Unlist
<1>7. /\ type' = type /\ sha' = sha /\ raced' = raced
      /\ cut \subseteq cut' /\ uncleaned \subseteq uncleaned'
    BY DEF Unlist, history
<1> QED
    BY <1>1, <1>2, <1>3, <1>4, <1>5, <1>6, <1>7, OneMoves

LEMMA DropDeleteInv == ASSUME Inv, NEW i \in Images, DropDelete(i) PROVE Inv'
<1>1. TypeOK'
    BY ImagesAssumption DEF Inv, TypeOK, DropDelete
<1>2. \A k \in Images \ {i} : ImageStays(k)
    BY DEF ImageStays, DropDelete
<1>3. Where(i)'
    BY DEF Inv, Whole, Where, DropDelete
<1>4. Holds(i)'
    BY DEF Inv, Whole, Where, Holds, DropDelete
<1>5. Leaves(i)'
    BY DEF Inv, Whole, Leaves, DropDelete
<1>6. Claims(i)' => Claims(i)
    BY DEF Claims, Listed, DropDelete
<1>7. /\ type' = type /\ sha' = sha /\ raced' = raced
      /\ cut \subseteq cut' /\ uncleaned \subseteq uncleaned'
    BY DEF DropDelete
<1> QED
    BY <1>1, <1>2, <1>3, <1>4, <1>5, <1>6, <1>7, OneMoves

LEMMA VerifyInv == ASSUME Inv, NEW i \in Images, Verify(i) PROVE Inv'
<1> DEFINE first == Head(Steps(type[i]))
<1>1. /\ first \in {"receive", "create", "keep"}
      /\ \E n \in DOMAIN Steps(type[i]) : first = Steps(type[i])[n]
    BY FirstOf DEF Inv, Whole
<1> HIDE DEF first
<1>2. /\ importer[i] = "verify"
      /\ importer' = [importer EXCEPT ![i] = first] \/ importer' = [importer EXCEPT ![i] = "clean"]
      /\ UNCHANGED <<row, type, sha, staged, stored, deleter, mishaps, up, raced, stuck, cut, uncleaned>>
    BY DEF Verify, Goto, history, first
<1>3. said' \in [Images -> Seq(Phases)] /\ \A k \in Images \ {i} : said'[k] = said[k]
    BY SaidType DEF Verify, Inv, TypeOK, Phases
<1>4. TypeOK'
    BY <1>1, <1>2, <1>3 DEF Inv, TypeOK, Places, Tasks, LandSteps
<1>5. \A k \in Images \ {i} : ImageStays(k)
    BY <1>2, <1>3 DEF Inv, TypeOK, ImageStays
<1>6. importer'[i] \in {first, "clean"}
    BY <1>2 DEF Inv, TypeOK
<1>7. Where(i)'
    BY <1>1, <1>2, <1>6 DEF Inv, Whole, Where, Quiet, LandSteps
<1>8. Holds(i)' /\ Leaves(i)'
    BY <1>1, <1>2, <1>6 DEF Inv, Whole, Holds, Unlanded, Leaves
<1>9. Claims(i)' => Claims(i)
    BY <1>1, <1>2, <1>6 DEF Claims, Listed
<1> QED
    BY <1>2, <1>4, <1>5, <1>7, <1>8, <1>9, OneMoves

\* The last command makes the image whole, or the step fails.
LEMMA LandInv == ASSUME Inv, NEW i \in Images, Land(i) PROVE Inv'
<1> DEFINE step == importer[i]
           t == type[i]
<1>1. step \in LandSteps /\ t.kind \in Kinds /\ stored[i] \in Contents
    BY DEF Land, Inv, Whole, TypeOK
<1>2. PICK n \in DOMAIN Steps(t) : step = Steps(t)[n]
    BY <1>1 DEF Inv, Whole, Where
<1>3. PICK o \in Outcomes(t, step, stored[i]) :
         /\ stored' = [stored EXCEPT ![i] = o.content]
         /\ staged' = IF step = "keep" /\ o.ok THEN staged \ {i} ELSE staged
         /\ importer' = [importer EXCEPT ![i] = AfterStep(i, step, o.ok)]
    BY DEF Land, Goto
<1>4. UNCHANGED <<row, type, sha, said, deleter, mishaps, up, raced, stuck, cut, uncleaned>>
    BY DEF Land, history
<1> DEFINE next == AfterStep(i, step, o.ok)
<1>5. /\ o.content \in Contents
      /\ step \in {"receive", "fill"} /\ o.ok => o.content = "whole"
      /\ step = "keep" => o.content = IF o.ok THEN "payload" ELSE stored[i]
      /\ step = "snapshot" /\ o.ok /\ stored[i] = "whole" => o.content = "payload"
    BY <1>1, OutcomeOf
<1>6. /\ NextStep(t, step) = "landed" => step \in {"keep", "snapshot"}
      /\ NextStep(t, step) # "landed" =>
            /\ \E m \in DOMAIN Steps(t) : NextStep(t, step) = Steps(t)[m]
            /\ NextStep(t, step) \in {"fill", "snapshot"}
      /\ NextStep(t, step) = "snapshot" => step \in {"receive", "fill"}
    BY <1>1, <1>2, NextOf
<1>7. /\ o.ok => next = NextStep(t, step)
      /\ ~o.ok => next = IF IsCloneable(t) THEN "destroy" ELSE "clean"
    BY DEF AfterStep
<1>8. ~IsCloneable(t) => step = "keep"
    BY <1>1, <1>2, StepsAre DEF IsCloneable
<1>9. next \in {"destroy", "clean", "landed", "fill", "snapshot"}
    BY <1>6, <1>7
<1> HIDE DEF next, step, t
<1>10. importer' = [importer EXCEPT ![i] = next]
    BY <1>3 DEF next
<1>11. importer'[i] = next /\ stored'[i] = o.content
    BY <1>3, <1>10 DEF Inv, TypeOK
<1>12. TypeOK'
    BY <1>3, <1>4, <1>5, <1>9, <1>10 DEF Inv, TypeOK, Places, Tasks, LandSteps
<1>13. \A k \in Images \ {i} : ImageStays(k)
    BY <1>3, <1>4, <1>10 DEF Inv, TypeOK, ImageStays
<1>14. Where(i)'
    BY <1>1, <1>4, <1>6, <1>7, <1>9, <1>11 DEF Inv, Whole, Where, Quiet, LandSteps, t, step
<1>15. Holds(i)'
  <2>1. row[i] # "ready" /\ row'[i] # "ready"
      BY <1>1, <1>4 DEF Inv, Whole, Where, LandSteps, step
  <2>2. step = "snapshot" => stored[i] = "whole"
      BY DEF Inv, Whole, Holds, step
  <2> QED
      BY <1>5, <1>6, <1>7, <1>9, <1>11, <2>1, <2>2 DEF Holds, Unlanded
<1>16. Leaves(i)'
  <2>1. step = "keep" => stored[i] = "nothing"
      BY DEF Inv, Whole, Holds, Unlanded, step
  <2> QED
      BY <1>5, <1>6, <1>7, <1>8, <1>9, <1>11, <2>1 DEF Leaves
<1>17. Claims(i)' => Claims(i)
    BY <1>4, <1>9, <1>11 DEF Claims, Listed
<1> QED
    BY <1>4, <1>12, <1>13, <1>14, <1>15, <1>16, <1>17, OneMoves

\* A look at the rows that finds nobody claims the payload; two looks at once are a race.
LEMMA CheckInv == ASSUME Inv, NEW i \in Images, NEW p \in Payloads, Check(i, p) PROVE Inv'
<1>1. /\ importer[i] = "idle" /\ ~Taken(p)
      /\ sha' = [sha EXCEPT ![i] = p] /\ importer' = [importer EXCEPT ![i] = "insert"]
      /\ raced' = (raced \/ \E k \in Images : importer[k] = "insert")
    BY Zenon DEF Check, Goto
<1>2. UNCHANGED <<row, type, said, staged, stored, deleter, mishaps, up, stuck, cut, uncleaned>>
    BY DEF Check
<1>3. TypeOK'
  <2>1. raced' \in BOOLEAN
      BY <1>1, Zenon DEF Inv, TypeOK
  <2> QED
      BY <1>1, <1>2, <2>1 DEF Inv, TypeOK, Places
<1>4. \A k \in Images \ {i} : importer'[k] = importer[k] /\ sha'[k] = sha[k]
    BY <1>1 DEF Inv, TypeOK
<1>5. importer'[i] = "insert" /\ sha'[i] = p
    BY <1>1 DEF Inv, TypeOK
<1>6. ASSUME NEW k \in Images PROVE Whole(k)'
    BY <1>1, <1>2, <1>4, <1>5
       DEF Inv, Whole, Where, Holds, Leaves, Quiet, Unlanded, LandSteps
<1>7. \A k \in Images \ {i} : Claims(k)' => Claims(k)
    BY <1>2, <1>4 DEF Claims, Listed
<1>8. ~raced' => ~raced /\ \A k \in Images : importer[k] # "insert"
    BY <1>1, Zenon
<1>9. ~raced' => \A k \in Images \ {i} : sha[k] = p => ~Claims(k)
    BY <1>1, <1>8 DEF Taken, Claims
<1>10. ClaimsApart'
    BY <1>4, <1>5, <1>7, <1>8, <1>9 DEF Inv, ClaimsApart
<1> QED
    BY <1>3, <1>6, <1>10 DEF Inv

\* A death ends every task; the pool has what the command it interrupts may leave.
LEMMA CrashInv == ASSUME Inv, Crash PROVE Inv'
<1>1. /\ importer' = [i \in Images |->
                        IF importer[i] \in {"idle", "done", "undone"} THEN importer[i]
                                                                       ELSE "lost"]
      /\ said' = [i \in Images |-> <<>>] /\ deleter' = [i \in Images |-> "idle"]
      /\ cut' = cut \cup {i \in Images : deleter[i] = "unlist" /\ stored[i] = "nothing"}
      /\ UNCHANGED <<row, type, sha, staged, raced, stuck, uncleaned>>
    BY DEF Crash
<1>2. /\ stored' \in [Images -> Contents]
      /\ \A i \in Images : stored'[i] \in Interrupted(importer[i], stored[i])
    BY DEF Crash
<1>3. mishaps' \in 0 .. MaxMishaps /\ up' \in BOOLEAN
  <2>1. mishaps < MaxMishaps /\ mishaps' = mishaps + 1 /\ up' = FALSE
      BY DEF Crash
  <2>2. mishaps' \in 0 .. MaxMishaps
      BY <2>1, ImagesAssumption DEF Inv, TypeOK
  <2> QED
      BY <2>1, <2>2
<1>4. TypeOK'
    BY <1>1, <1>2, <1>3 DEF Inv, TypeOK, Places
<1>5. ASSUME NEW i \in Images PROVE Whole(i)' /\ (Claims(i)' => Claims(i))
  <2>1. importer[i] \in {"idle", "done", "undone"} => stored'[i] = stored[i]
      BY <1>2 DEF Interrupted
  <2> QED
      BY <1>1, <2>1
         DEF Inv, Whole, Where, Holds, Leaves, Quiet, Unlanded, LandSteps, Claims, Listed
<1>6. \A i \in Images : Claims(i)' => Claims(i)
    BY <1>5
<1>7. ClaimsApart'
    BY <1>1, <1>6 DEF Inv, ClaimsApart
<1> QED
    BY <1>4, <1>5, <1>7 DEF Inv

\* The recovery changes only rows in flight, none of which is ready.
LEMMA RestartInv == ASSUME Inv, Restart PROVE Inv'
<1>1. /\ row' = [i \in Images |-> Recovered(row[i])] /\ up' = TRUE
      /\ UNCHANGED <<type, sha, importer, said, staged, stored, deleter, mishaps,
                     raced, stuck, cut, uncleaned>>
    BY DEF Restart, history
<1>2. \A r \in Rows : Recovered(r) = r \/ (r \in InFlight /\ Recovered(r) = "failed")
    BY DEF Recovered
<1>3. TypeOK'
    BY <1>1, <1>2 DEF Inv, TypeOK, Rows
<1>4. \A i \in Images : row'[i] = row[i] \/ (row[i] \in InFlight /\ row'[i] = "failed")
    BY <1>1, <1>2 DEF Inv, TypeOK
<1>5. ASSUME NEW i \in Images PROVE Whole(i)' /\ (Claims(i)' => Claims(i))
    BY <1>1, <1>4 DEF Inv, Whole, Where, Holds, Leaves, Claims, Listed, InFlight, Phases
<1>6. \A i \in Images : Claims(i)' => Claims(i)
    BY <1>5
<1>7. ClaimsApart'
    BY <1>1, <1>6 DEF Inv, ClaimsApart
<1> QED
    BY <1>3, <1>5, <1>7 DEF Inv

\* Every step is one of these, or a stutter.
LEMMA NextInv == Inv /\ [Next]_vars => Inv'
<1> SUFFICES ASSUME Inv, [Next]_vars PROVE Inv'
    OBVIOUS
<1>1. CASE Crash \/ Restart
    BY <1>1, CrashInv, RestartInv
<1>2. ASSUME NEW i \in Images,
             \/ \E p \in Payloads : Check(i, p)
             \/ InsertRow(i) \/ StartImport(i) \/ DropImport(i)
             \/ FindForDelete(i) \/ Remove(i) \/ Unlist(i) \/ DropDelete(i)
      PROVE  Inv'
    BY <1>2, CheckInv, InsertRowInv, StartImportInv, DropImportInv, FindForDeleteInv,
       RemoveInv, UnlistInv, DropDeleteInv
<1>3. ASSUME NEW i \in Images, Task(i) \/ Relay(i) PROVE Inv'
    BY <1>3, PrepareInv, DownloadInv, VerifyInv, LandInv, DestroyInv, CleanInv, FinishInv,
       DiscardInv, FailInv, RelayInv DEF Task
<1>4. CASE UNCHANGED vars
    BY <1>4 DEF vars, Inv, TypeOK, ClaimsApart, Claims, Listed, Whole, Where, Holds, Leaves
<1> QED
    BY <1>1, <1>2, <1>3, <1>4 DEF Next

\* So the invariant holds always.
LEMMA Always == Spec => []Inv
<1> QED
    BY InitInv, NextInv, PTL DEF Spec

\* Rows, relay, staging, pool and history have their types, for any images and mishaps.
THEOREM TypeCorrect == Spec => []TypeOK
<1>1. Inv => TypeOK
    BY DEF Inv
<1> QED
    BY <1>1, Always, PTL

\* A failed import leaves nothing behind, no payload is imported twice but by two looks at
\* once, and a ready image has its payload, for any number of imports, deletes and deaths.
THEOREM AllAreWhole == Spec => []ImagesAreWhole
<1>1. Inv => ImagesAreWhole
  <2> SUFFICES ASSUME Inv PROVE ImagesAreWhole
      OBVIOUS
  <2>1. FailureLeavesNothing
      BY DEF Inv, Whole, Leaves, FailureLeavesNothing
  <2>2. OneImagePerPayload
      BY DEF Inv, ClaimsApart, Claims, OneImagePerPayload
  <2>3. ReadyIsStored
      BY DEF Inv, Whole, Holds, ReadyIsStored
  <2> QED
      BY <2>1, <2>2, <2>3 DEF Inv, ImagesAreWhole
<1> QED
    BY <1>1, Always, PTL

\* What is ready leaves that state only by a delete: the relay has said all it has to say, the
\* task has nothing left to do, and the recovery takes back only what is in flight.
THEOREM ReadyForGood == Spec => ReadyStays
<1> DEFINE Stay == \A i \in Images : row[i] = "ready" => row'[i] \in {"ready", "deleted"}
<1>1. Inv /\ [Next]_vars => [Stay]_vars
  <2> SUFFICES ASSUME Inv, Next, NEW k \in Images, row[k] = "ready"
                PROVE  row'[k] \in {"ready", "deleted"}
      BY DEF Stay
  <2>1. importer[k] = "done" /\ said[k] = <<>> /\ row \in [Images -> Rows]
      BY DEF Inv, TypeOK, Whole, Where, Quiet
  <2>2. CASE Crash \/ Restart
      BY <2>1, <2>2 DEF Crash, Restart, Recovered, InFlight, Phases
  <2>3. ASSUME NEW i \in Images, \/ \E p \in Payloads : Check(i, p)
                                 \/ InsertRow(i) \/ StartImport(i) \/ DropImport(i)
                                 \/ FindForDelete(i) \/ Remove(i) \/ Unlist(i) \/ DropDelete(i)
        PROVE  row'[k] \in {"ready", "deleted"}
      BY <2>1, <2>3 DEF Check, InsertRow, StartImport, DropImport, FindForDelete, Remove,
         Unlist, DropDelete
  <2>4. ASSUME NEW i \in Images, Task(i) \/ Relay(i)
        PROVE  row'[k] \in {"ready", "deleted"}
      BY <2>1, <2>4 DEF Task, Relay, Prepare, Download, Verify, Land, Destroy, Clean, Finish,
         Discard, Fail
  <2> QED
      BY <2>2, <2>3, <2>4 DEF Next
<1> QED
    BY <1>1, Always, PTL DEF Spec, ReadyStays

-----------------------------------------------------------------------------
(***************************************************************************)
(* ImageSources, for any handlers, keys and bounds.                        *)
(*                                                                         *)
(* SourceTypeCorrect  SourceSpec => []SourceTypeOK                         *)
(* CheckedIfShown     SourceSpec => []VerifiedWasChecked, whatever overlaps*)
(* VerdictsAreSound   SourceSpec => []VerdictIsSound                       *)
(* RefusedIfNot       SourceSpec => []UnverifiedIsRefused                  *)
(*                                                                         *)
(* A verdict rests on what a refresh remembers of two fetches and a row:   *)
(* that is what the invariant speaks of.                                   *)
(***************************************************************************)

\* Before it has the signature a refresh knows the signer of the issue it has fetched, if
\* that is still the one published; after that a good verdict is one by its own key.
Remembers(h) ==
    /\ handler[h].at = "signature" =>
          /\ handler[h].key # NoKey
          /\ handler[h].issue <= published.issue
          /\ handler[h].issue = published.issue => handler[h].signer = published.signer
    /\ handler[h].verified =>
          /\ handler[h].at = "store" /\ handler[h].key # NoKey
          /\ handler[h].signer = handler[h].key

Refreshing == {"index", "signature", "store"}

\* What a handler knows of the row, as long as nobody else has come.
Current(h) ==
    /\ handler[h].at \in Refreshing => handler[h].key = source.key
    /\ handler[h].at = "entry" => source.verified

OneAtATime ==
    \A h, k \in Handlers : handler[h].at # "idle" /\ handler[k].at # "idle" => h = k

SourceInv ==
    /\ SourceTypeOK /\ VerifiedWasChecked /\ VerifiedWithItsKey /\ UnverifiedIsRefused
    /\ \A h \in Handlers : Remembers(h)
    /\ ~overlapped => OneAtATime /\ \A h \in Handlers : Current(h)

LEMMA IdleType == Idle \in Handler /\ Idle.at = "idle" /\ Idle.verified = FALSE
BY ImageSourcesAssumption DEF Idle, Handler, SourceSteps, Issues

LEMMA EmptyType == Empty \in Catalogue /\ Empty.issue = 0
BY ImageSourcesAssumption DEF Empty, Catalogue, Issues

LEMMA SourceInitInv == SourceInit => SourceInv
<1> SUFFICES ASSUME SourceInit PROVE SourceInv
    OBVIOUS
<1> USE ImageSourcesAssumption
<1>1. /\ source \in Source /\ source.present /\ ~source.verified
      /\ published \in Published /\ catalogue = Empty
    BY DEF SourceInit
<1>2. handler = [h \in Handlers |-> Idle] /\ imports = [h \in Handlers |-> Empty]
    BY Zenon DEF SourceInit
<1>3. begun = 0 /\ overlapped = FALSE
    BY Zenon DEF SourceInit
<1>4. begun \in 0 .. MaxRequests
    BY <1>3, SMT
<1>5. overlapped \in BOOLEAN
    BY <1>3, Zenon
<1>6. handler \in [Handlers -> Handler] /\ imports \in [Handlers -> Catalogue]
    BY <1>2, IdleType, EmptyType
<1>7. SourceTypeOK
    BY <1>1, <1>4, <1>6, <1>5, EmptyType, Zenon DEF SourceTypeOK
<1> QED
    BY <1>1, <1>2, <1>7, IdleType, EmptyType
       DEF SourceInv, VerifiedWasChecked, VerifiedWithItsKey, UnverifiedIsRefused, Remembers,
           OneAtATime, Current, Refreshing

\* One handler moves; row, catalogue and publisher stay.
LEMMA Moves ==
    ASSUME SourceInv, NEW h \in Handlers, NEW m \in Handler,
        handler' = [handler EXCEPT ![h] = m],
           source' = source, catalogue' = catalogue, published' = published,
           begun' \in 0 .. MaxRequests, overlapped' \in BOOLEAN, overlapped => overlapped',
           imports' \in [Handlers -> Catalogue], UnverifiedIsRefused',
           m.at = "signature" =>
              /\ m.key # NoKey /\ m.issue <= published.issue
              /\ m.issue = published.issue => m.signer = published.signer,
           m.verified => m.at = "store" /\ m.key # NoKey /\ m.signer = m.key,
           ~overlapped' /\ m.at # "idle" => \A k \in Handlers \ {h} : handler[k].at = "idle",
           ~overlapped' => /\ m.at \in Refreshing => m.key = source.key
                           /\ m.at = "entry" => source.verified
    PROVE  SourceInv'
<1>1. \A k \in Handlers : handler'[k] = IF k = h THEN m ELSE handler[k]
    BY DEF SourceInv, SourceTypeOK
<1>2. SourceTypeOK'
    BY DEF SourceInv, SourceTypeOK
<1>3. \A k \in Handlers : Remembers(k)'
    BY <1>1 DEF SourceInv, Remembers
<1>4. ~overlapped' => OneAtATime'
    BY <1>1 DEF SourceInv, OneAtATime
<1>5. ~overlapped' => \A k \in Handlers : Current(k)'
    BY <1>1 DEF SourceInv, Current
<1> QED
    BY <1>2, <1>3, <1>4, <1>5 DEF SourceInv, VerifiedWasChecked, VerifiedWithItsKey

\* The same within a request: nothing begins and nothing is imported.
LEMMA GoesOn ==
    ASSUME SourceInv, NEW h \in Handlers, NEW m \in Handler,
        handler' = [handler EXCEPT ![h] = m],
           UNCHANGED <<source, catalogue, published, imports, begun, overlapped>>,
           handler[h].at # "idle",
           m.at = "signature" =>
              /\ m.key # NoKey /\ m.issue <= published.issue
              /\ m.issue = published.issue => m.signer = published.signer,
           m.verified => m.at = "store" /\ m.key # NoKey /\ m.signer = m.key,
           ~overlapped => /\ m.at \in Refreshing => m.key = source.key
                          /\ m.at = "entry" => source.verified
    PROVE  SourceInv'
<1>1. UnverifiedIsRefused' /\ begun' \in 0 .. MaxRequests /\ overlapped' \in BOOLEAN
      /\ imports' \in [Handlers -> Catalogue]
    BY DEF SourceInv, SourceTypeOK, UnverifiedIsRefused
<1>2. ~overlapped' /\ m.at # "idle" => \A k \in Handlers \ {h} : handler[k].at = "idle"
    BY DEF SourceInv, OneAtATime
<1> QED
    BY <1>1, <1>2, Moves

LEMMA BeginInv ==
    ASSUME SourceInv, NEW h \in Handlers, NEW m \in Handler, Begin(h, m),
           m.at \in {"write", "load", "entry"}, ~m.verified,
           m.at = "entry" => source.verified
    PROVE  SourceInv'
<1>1. /\ handler[h].at = "idle" /\ handler' = [handler EXCEPT ![h] = m]
      /\ source' = source /\ catalogue' = catalogue /\ published' = published
      /\ imports' = [imports EXCEPT ![h] = Empty]
      /\ overlapped' = (overlapped \/ \E k \in Handlers : handler[k].at # "idle")
      /\ begun < MaxRequests /\ begun' = begun + 1
    BY DEF Begin, Request
<1>2. begun' \in 0 .. MaxRequests
    BY <1>1, ImageSourcesAssumption DEF SourceInv, SourceTypeOK
<1>3. imports' \in [Handlers -> Catalogue] /\ UnverifiedIsRefused'
    BY <1>1, EmptyType DEF SourceInv, SourceTypeOK, UnverifiedIsRefused
<1>4. /\ overlapped' \in BOOLEAN /\ (overlapped => overlapped')
      /\ ~overlapped' => \A k \in Handlers \ {h} : handler[k].at = "idle"
    BY <1>1, Zenon
<1> QED
    BY <1>1, <1>2, <1>3, <1>4, Moves DEF Refreshing

LEMMA BeginsInv ==
    ASSUME SourceInv, NEW h \in Handlers, BeginUpdate(h) \/ BeginRefresh(h) \/ BeginImport(h)
    PROVE  SourceInv'
<1> USE IdleType
<1>1. ASSUME NEW k \in Keys \cup {NoKey}, Begin(h, [Idle EXCEPT !.at = "write", !.key = k])
      PROVE  SourceInv'
  <2> DEFINE m == [Idle EXCEPT !.at = "write", !.key = k]
  <2>1. m \in Handler /\ m.at = "write" /\ m.verified = Idle.verified
      BY DEF Handler, SourceSteps
  <2>2. Begin(h, m)
      BY <1>1
  <2> HIDE DEF m
  <2> QED
      BY <2>1, <2>2, BeginInv
<1>2. ASSUME NEW on \in BOOLEAN,
             Begin(h, [Idle EXCEPT !.at = "write", !.enabled = on, !.refetch = FALSE])
      PROVE  SourceInv'
  <2> DEFINE m == [Idle EXCEPT !.at = "write", !.enabled = on, !.refetch = FALSE]
  <2>1. m \in Handler /\ m.at = "write" /\ m.verified = Idle.verified
      BY DEF Handler, SourceSteps
  <2>2. Begin(h, m)
      BY <1>2
  <2> HIDE DEF m
  <2> QED
      BY <2>1, <2>2, BeginInv
<1>3. CASE BeginRefresh(h)
  <2> DEFINE m == [Idle EXCEPT !.at = "load", !.refetch = FALSE]
  <2>1. m \in Handler /\ m.at = "load" /\ m.verified = Idle.verified
      BY DEF Handler, SourceSteps
  <2>2. Begin(h, m)
      BY <1>3 DEF BeginRefresh
  <2> HIDE DEF m
  <2> QED
      BY <2>1, <2>2, BeginInv
<1>4. CASE BeginImport(h)
  <2> DEFINE m == [Idle EXCEPT !.at = "entry"]
  <2>1. m \in Handler /\ m.at = "entry" /\ m.verified = Idle.verified
      BY DEF Handler, SourceSteps
  <2>2. Begin(h, m) /\ source.verified
      BY <1>4 DEF BeginImport, MayImport
  <2> HIDE DEF m
  <2> QED
      BY <2>1, <2>2, BeginInv
<1> QED
    BY <1>1, <1>2, <1>3, <1>4 DEF BeginUpdate

LEMMA LoadInv == ASSUME SourceInv, NEW h \in Handlers, Load(h) PROVE SourceInv'
<1> DEFINE m == [handler[h] EXCEPT !.at = "index", !.key = source.key]
<1>1. handler[h] \in Handler /\ source \in Source /\ handler[h].at = "load"
      /\ ~handler[h].verified
    BY DEF SourceInv, SourceTypeOK, Load, Remembers
<1>2. m \in Handler /\ m.at = "index" /\ m.key = source.key
      /\ m.verified = handler[h].verified
    BY <1>1 DEF Handler, SourceSteps, Source
<1>3. UNCHANGED <<source, catalogue, published, imports, begun, overlapped>>
    BY Zenon DEF Load
<1>4. handler' = [handler EXCEPT ![h] = m] \/ handler' = [handler EXCEPT ![h] = Idle]
    BY Zenon DEF Load, Return
<1> HIDE DEF m
<1>5. CASE handler' = [handler EXCEPT ![h] = m]
    BY <1>1, <1>2, <1>3, <1>5, GoesOn DEF Refreshing
<1>6. CASE handler' = [handler EXCEPT ![h] = Idle]
    BY <1>1, <1>3, <1>6, IdleType, GoesOn DEF Refreshing
<1> QED
    BY <1>4, <1>5, <1>6

LEMMA FetchIndexInv == ASSUME SourceInv, NEW h \in Handlers, FetchIndex(h) PROVE SourceInv'
<1> DEFINE next == IF handler[h].key = NoKey THEN "store" ELSE "signature"
           m == [handler[h] EXCEPT !.issue = published.issue, !.signer = published.signer,
                                   !.at = next]
           failed == [handler[h] EXCEPT !.ok = FALSE, !.at = "store"]
<1>1. handler[h] \in Handler /\ published \in Published /\ handler[h].at = "index"
      /\ ~handler[h].verified /\ (~overlapped => handler[h].key = source.key)
    BY DEF SourceInv, SourceTypeOK, FetchIndex, Remembers, Current, Refreshing
<1>2. /\ m \in Handler /\ m.key = handler[h].key
      /\ m.issue = published.issue /\ m.signer = published.signer
      /\ m.verified = handler[h].verified /\ m.at \in {"store", "signature"}
      /\ m.at = "signature" => handler[h].key # NoKey
    BY <1>1 DEF Handler, SourceSteps, Published
<1>3. failed \in Handler /\ failed.key = handler[h].key /\ failed.at = "store"
      /\ failed.verified = handler[h].verified
    BY <1>1 DEF Handler, SourceSteps
<1>4. UNCHANGED <<source, catalogue, published, imports, begun, overlapped>>
    BY Zenon DEF FetchIndex
<1>5. handler' = [handler EXCEPT ![h] = m] \/ handler' = [handler EXCEPT ![h] = failed]
    BY Zenon DEF FetchIndex
<1>6. m.issue <= published.issue
    BY <1>1, <1>2 DEF Published, Issues
<1> HIDE DEF m, failed
<1>7. CASE handler' = [handler EXCEPT ![h] = m]
    BY <1>1, <1>2, <1>4, <1>6, <1>7, GoesOn
<1>8. CASE handler' = [handler EXCEPT ![h] = failed]
    BY <1>1, <1>3, <1>4, <1>8, GoesOn
<1> QED
    BY <1>5, <1>7, <1>8

\* A signature that verifies is that of the issue that was fetched: had another been
\* published since, its number would be higher.
LEMMA FetchSignatureInv == ASSUME SourceInv, NEW h \in Handlers,
    FetchSignature(h) PROVE SourceInv'
<1>1. PICK arrives \in BOOLEAN :
         handler' = [handler EXCEPT ![h] =
                       [@ EXCEPT !.at = "store", !.ok = (arrives /\ Verifies(h)),
                                 !.verified = (arrives /\ Verifies(h))]]
    BY Zenon DEF FetchSignature
<1>2. PICK good \in BOOLEAN : good = (arrives /\ Verifies(h))
    BY Zenon
<1> DEFINE m == [handler[h] EXCEPT !.at = "store", !.ok = good, !.verified = good]
<1>3. handler' = [handler EXCEPT ![h] = m]
    BY <1>1, <1>2, Zenon
<1>4. handler[h] \in Handler /\ handler[h].at = "signature"
      /\ Remembers(h) /\ (~overlapped => handler[h].key = source.key)
    BY DEF SourceInv, SourceTypeOK, FetchSignature, Current, Refreshing
<1>5. /\ m \in Handler /\ m.at = "store" /\ m.key = handler[h].key
      /\ m.signer = handler[h].signer
    BY <1>4 DEF Handler, SourceSteps
<1>6. m.verified = good
    BY <1>4 DEF Handler
<1>7. m.verified => m.key # NoKey /\ m.signer = m.key
    BY <1>2, <1>4, <1>5, <1>6 DEF Verifies, Remembers
<1>8. UNCHANGED <<source, catalogue, published, imports, begun, overlapped>>
    BY Zenon DEF FetchSignature
<1> HIDE DEF m
<1> QED
    BY <1>3, <1>4, <1>5, <1>7, <1>8, GoesOn

LEMMA DropInv == ASSUME SourceInv, NEW h \in Handlers, DropHandler(h) PROVE SourceInv'
BY IdleType, GoesOn DEF DropHandler, Return, Refreshing

LEMMA ResolveInv == ASSUME SourceInv, NEW h \in Handlers, ResolveEntry(h) PROVE SourceInv'
<1>1. /\ handler[h].at = "entry" /\ imports' = [imports EXCEPT ![h] = catalogue]
      /\ handler' = [handler EXCEPT ![h] = Idle]
      /\ source' = source /\ catalogue' = catalogue /\ published' = published
      /\ begun' = begun /\ overlapped' = overlapped
    BY DEF ResolveEntry, Return
<1>2. ~overlapped => catalogue.checked # NoKey
    BY <1>1 DEF SourceInv, Current, VerifiedWasChecked
<1>3. imports' \in [Handlers -> Catalogue] /\ UnverifiedIsRefused'
    BY <1>1, <1>2 DEF SourceInv, SourceTypeOK, UnverifiedIsRefused
<1>4. begun' \in 0 .. MaxRequests /\ overlapped' \in BOOLEAN
    BY <1>1 DEF SourceInv, SourceTypeOK
<1> QED
    BY <1>1, <1>3, <1>4, IdleType, Moves DEF Refreshing

LEMMA PublishInv == ASSUME SourceInv, Publish PROVE SourceInv'
<1>1. PICK k \in Keys : published' = [issue |-> published.issue + 1, signer |-> k]
    BY DEF Publish
<1>2. /\ UNCHANGED <<source, catalogue, handler, imports, begun, overlapped>>
      /\ published.issue < MaxIssues /\ published \in Published
    BY DEF Publish, SourceInv, SourceTypeOK
<1>3. published' \in Published /\ published'.issue = published.issue + 1
    BY <1>1, <1>2, ImageSourcesAssumption DEF Published, Issues
<1>4. \A h \in Handlers : Remembers(h)'
  <2> SUFFICES ASSUME NEW h \in Handlers PROVE Remembers(h)'
      OBVIOUS
  <2>1. Remembers(h) /\ handler[h].issue \in Nat /\ published.issue \in Nat
      BY <1>2 DEF SourceInv, SourceTypeOK, Handler, Issues, Published
  <2> QED
      BY <1>2, <1>3, <2>1 DEF Remembers
<1> QED
    BY <1>2, <1>3, <1>4
       DEF SourceInv, SourceTypeOK, VerifiedWasChecked, VerifiedWithItsKey, UnverifiedIsRefused,
           OneAtATime, Current

\* A PATCH of the key takes the verdict away; its own refresh has yet to read the row.
LEMMA WriteInv == ASSUME SourceInv, NEW h \in Handlers, WriteSource(h) PROVE SourceInv'
<1> DEFINE m == [handler[h] EXCEPT !.at = "load"]
<1>1. /\ handler[h] \in Handler /\ source \in Source /\ handler[h].at = "write"
      /\ ~handler[h].verified
      /\ UNCHANGED <<catalogue, published, imports, begun, overlapped>>
    BY DEF SourceInv, SourceTypeOK, WriteSource, Remembers
<1>2. m \in Handler /\ m.at = "load" /\ m.verified = handler[h].verified
    BY <1>1 DEF Handler, SourceSteps
<1>3. PICK n \in Handler : /\ handler' = [handler EXCEPT ![h] = n]
                           /\ n.at \in {"load", "idle"} /\ ~n.verified
  <2>1. handler' = [handler EXCEPT ![h] = m] \/ handler' = [handler EXCEPT ![h] = Idle]
      BY Zenon DEF WriteSource, MovesTo, Return
  <2> HIDE DEF m
  <2> QED
      BY <1>1, <1>2, <2>1, IdleType
<1>4. /\ source' \in Source /\ source'.present = source.present
      /\ ~source.present => source' = source
      /\ source'.verified => source.verified /\ source'.key = source.key
  <2>1. CASE ~source.present
      BY <1>1, <2>1 DEF WriteSource
  <2>2. CASE source.present /\ handler[h].refetch
    <3> DEFINE s == [source EXCEPT !.key = handler[h].key, !.verified = FALSE]
    <3>1. s \in Source /\ s.present = source.present /\ s.verified = FALSE
        BY <1>1 DEF Source, Handler
    <3>2. source' = s
        BY <2>2 DEF WriteSource, Patched
    <3> HIDE DEF s
    <3> QED
        BY <2>2, <3>1, <3>2
  <2>3. CASE source.present /\ ~handler[h].refetch
    <3> DEFINE s == [source EXCEPT !.enabled = handler[h].enabled]
    <3>1. s \in Source /\ s.present = source.present /\ s.verified = source.verified
          /\ s.key = source.key
        BY <1>1 DEF Source, Handler
    <3>2. source' = s
        BY <2>3 DEF WriteSource, Patched
    <3> HIDE DEF s
    <3> QED
        BY <2>3, <3>1, <3>2
  <2> QED
      BY <2>1, <2>2, <2>3
<1>5. SourceTypeOK'
    BY <1>1, <1>3, <1>4 DEF SourceInv, SourceTypeOK
<1>6. \A k \in Handlers : handler'[k] = IF k = h THEN n ELSE handler[k]
    BY <1>3 DEF SourceInv, SourceTypeOK
<1>7. \A k \in Handlers : Remembers(k)'
    BY <1>1, <1>3, <1>6 DEF SourceInv, Remembers
<1>8. ~overlapped' => OneAtATime' /\ \A k \in Handlers : Current(k)'
    BY <1>1, <1>3, <1>6 DEF SourceInv, OneAtATime, Current, Refreshing
<1>9. VerifiedWasChecked' /\ VerifiedWithItsKey' /\ UnverifiedIsRefused'
    BY <1>1, <1>4 DEF SourceInv, VerifiedWasChecked, VerifiedWithItsKey, UnverifiedIsRefused
<1> QED
    BY <1>5, <1>7, <1>8, <1>9 DEF SourceInv

\* A source goes unverified; who knows of it has overlapped.
LEMMA DeleteInv == ASSUME SourceInv, NEW h \in Handlers, DeleteSource(h) PROVE SourceInv'
<1>1. /\ source' = Gone /\ catalogue' = Empty
      /\ published' = published /\ handler' = handler /\ imports' = imports
      /\ overlapped' = (overlapped \/ \E k \in Handlers : handler[k].at # "idle")
      /\ begun < MaxRequests /\ begun' = begun + 1
    BY DEF DeleteSource, Request
<1>2. Gone \in Source /\ Gone.present = FALSE /\ Gone.verified = FALSE
    BY DEF Gone, Source
<1>3. begun' \in 0 .. MaxRequests
    BY <1>1, ImageSourcesAssumption DEF SourceInv, SourceTypeOK
<1>4. /\ overlapped' \in BOOLEAN /\ (overlapped => overlapped')
      /\ ~overlapped' => \A k \in Handlers : handler[k].at = "idle"
    BY <1>1, Zenon
<1>5. SourceTypeOK'
    BY <1>1, <1>2, <1>3, <1>4, EmptyType DEF SourceInv, SourceTypeOK
<1>6. \A k \in Handlers : Remembers(k)'
    BY <1>1 DEF SourceInv, Remembers
<1>7. ~overlapped' => OneAtATime' /\ \A k \in Handlers : Current(k)'
    BY <1>1, <1>4 DEF OneAtATime, Current, Refreshing
<1>8. VerifiedWasChecked' /\ VerifiedWithItsKey' /\ UnverifiedIsRefused'
    BY <1>1, <1>2, <1>4 DEF SourceInv, VerifiedWasChecked, VerifiedWithItsKey,
        UnverifiedIsRefused
<1> QED
    BY <1>5, <1>6, <1>7, <1>8 DEF SourceInv

\* Entries and verdict come together, from one refresh.
LEMMA StoreInv == ASSUME SourceInv, NEW h \in Handlers, Store(h) PROVE SourceInv'
<1>1. /\ handler[h] \in Handler /\ source \in Source /\ handler[h].at = "store"
      /\ Remembers(h) /\ (~overlapped => handler[h].key = source.key)
      /\ handler' = [handler EXCEPT ![h] = Idle]
      /\ UNCHANGED <<published, imports, begun, overlapped>>
    BY DEF SourceInv, SourceTypeOK, Store, Return, Current, Refreshing
<1>2. /\ source' \in Source /\ source'.present = source.present /\ source'.key = source.key
      /\ catalogue' \in Catalogue
      /\ ~source.present => source' = source /\ catalogue' = catalogue
      /\ source'.verified =>
            \/ source' = source /\ catalogue' = catalogue
            \/ handler[h].verified /\ catalogue'.checked = handler[h].key
  <2>1. CASE /\ Stays /\ source' = [source EXCEPT !.verified = handler[h].verified]
             /\ catalogue' = [issue |-> handler[h].issue, checked |-> Good(handler[h])]
    <3> DEFINE s == [source EXCEPT !.verified = handler[h].verified]
    <3>1. s \in Source /\ s.present = source.present /\ s.key = source.key
        BY <1>1 DEF Source, Handler
    <3>2. s.verified = handler[h].verified
        BY <1>1 DEF Source
    <3>3. Good(handler[h]) \in Keys \cup {NoKey}
        BY <1>1 DEF Good, Handler
    <3>4. catalogue' \in Catalogue
        BY <1>1, <2>1, <3>3 DEF Catalogue, Handler
    <3>5. handler[h].verified => catalogue'.checked = handler[h].key
        BY <1>1, <2>1 DEF Good, Remembers
    <3>6. source' = s
        BY <2>1
    <3> HIDE DEF s
    <3> QED
        BY <2>1, <3>1, <3>2, <3>4, <3>5, <3>6 DEF Stays
  <2>2. CASE Stays /\ source' = [source EXCEPT !.verified = FALSE] /\ catalogue' = catalogue
      BY <1>1, <2>2 DEF Source, Stays, SourceInv, SourceTypeOK
  <2>3. CASE ~Stays /\ source' = source /\ catalogue' = catalogue
      BY <1>1, <2>3 DEF Stays, SourceInv, SourceTypeOK
  <2> QED
      BY <2>1, <2>2, <2>3 DEF Store
<1>3. SourceTypeOK'
    BY <1>1, <1>2, IdleType DEF SourceInv, SourceTypeOK
<1>4. \A k \in Handlers : handler'[k] = IF k = h THEN Idle ELSE handler[k]
    BY <1>1 DEF SourceInv, SourceTypeOK
<1>5. \A k \in Handlers : Remembers(k)'
    BY <1>1, <1>4, IdleType DEF SourceInv, Remembers
<1>6. ~overlapped' => OneAtATime' /\ \A k \in Handlers : Current(k)'
    BY <1>1, <1>4, IdleType DEF SourceInv, OneAtATime, Current, Refreshing
<1>7. VerifiedWasChecked' /\ VerifiedWithItsKey' /\ UnverifiedIsRefused'
    BY <1>1, <1>2
       DEF SourceInv, VerifiedWasChecked, VerifiedWithItsKey, UnverifiedIsRefused, Remembers
<1> QED
    BY <1>3, <1>5, <1>6, <1>7 DEF SourceInv

LEMMA SourceNextInv == SourceInv /\ [SourceNext]_sourceVars => SourceInv'
<1> SUFFICES ASSUME SourceInv, [SourceNext]_sourceVars PROVE SourceInv'
    OBVIOUS
<1>1. CASE UNCHANGED sourceVars
    BY <1>1 DEF sourceVars, SourceInv, SourceTypeOK, VerifiedWasChecked, VerifiedWithItsKey,
                UnverifiedIsRefused, Remembers, OneAtATime, Current
<1> QED
    BY <1>1, PublishInv, BeginsInv, WriteInv, DeleteInv, LoadInv, FetchIndexInv,
       FetchSignatureInv, StoreInv, ResolveInv, DropInv DEF SourceNext

LEMMA SourceAlways == SourceSpec => []SourceInv
BY SourceInitInv, SourceNextInv, PTL DEF SourceSpec

\* Every variable keeps its type, and a source that has gone has left nothing.
THEOREM SourceTypeCorrect == SourceSpec => []SourceTypeOK
<1>1. SourceInv => SourceTypeOK
    BY DEF SourceInv
<1> QED
    BY <1>1, SourceAlways, PTL

\* A source shown as verified has a catalogue somebody checked, whatever overlaps.
THEOREM CheckedIfShown == SourceSpec => []VerifiedWasChecked
<1>1. SourceInv => VerifiedWasChecked
    BY DEF SourceInv
<1> QED
    BY <1>1, SourceAlways, PTL

\* The verdict shown is that of the catalogue, by the key shown.
THEOREM VerdictsAreSound == SourceSpec => []VerdictIsSound
<1>1. SourceInv => VerdictIsSound
    BY DEF SourceInv, VerdictIsSound
<1> QED
    BY <1>1, SourceAlways, PTL

\* What is imported was verified, as long as requests do not overlap.
THEOREM RefusedIfNot == SourceSpec => []UnverifiedIsRefused
<1>1. SourceInv => UnverifiedIsRefused
    BY DEF SourceInv
<1> QED
    BY <1>1, SourceAlways, PTL
=============================================================================
