--------------------------------- MODULE Media ---------------------------------
(***************************************************************************)
(* Which label an IPP job prints on: pkg/ipp/media.go, parseJobAttrs and   *)
(* pwgMediaCompatible of pkg/ipp/job.go, unsupportedJobAttrs of            *)
(* pkg/ipp/server.go, checkMediaMatch of pkg/ql/printer.go.                *)
(*                                                                         *)
(* A client reads what the printer offers, picks a size and sends a job;   *)
(* the roll may be changed at any time in between.  The name of an option  *)
(* is its width and length or, of a standard size, the size's own name.    *)
(* X_Y is a deliberate mistake in X.                                       *)
(***************************************************************************)
EXTENDS Labels

CONSTANTS
  Picks,      \* options clients ask for: a part of Supported
  Rolls,      \* what may be loaded: [type, width, length]; type "none" says nothing
  NoAnswer,   \* the printer's status could not be read
  NoOption,   \* the attribute was not sent
  Unknown     \* a size or name of no option

CopiesAsked == {0, 1, 255, 256}

VARIABLES
  roll,       \* printer: what is loaded
  ready,      \* client: the options it was told are ready
  readyFor,   \* what was loaded then, if the printer said
  asking,     \* the job: what its client sent
  resolvedFor,\* what the server took the printer to hold
  option,     \* the option it resolved the job to
  printedOn,  \* what was loaded when the media was checked
  phase       \* where the job is

mediaVars == <<roll, ready, readyFor, asking, resolvedFor, option, printedOn, phase>>

-----------------------------------------------------------------------------
(* The catalogue. *)

StandardOption(name, x, y) ==
  [name |-> name, x |-> x, y |-> y, media |-> NoOption, length |-> 0, standard |-> TRUE]
standardMediaSizes ==
  {StandardOption(<<"om_card_54x86mm">>, 5400, 8600), StandardOption(<<"na_index-4x6_4x6in">>, 10160, 15240),
   StandardOption(<<"oe_photo-l_3.5x5in">>, 8890, 12700), StandardOption(<<"na_5x7_5x7in">>, 12700, 17780)}
DefaultMediaOption == CHOOSE o \in standardMediaSizes : o.name = <<"om_card_54x86mm">>

MediaName(m, length) == <<m.width, length>>
\* length is 0 for labels, whose length the media fixes.
LengthOf_Always(m, length) == 10 * length
LengthOf(m, length) == IF m.form = "endless" THEN 10 * length ELSE 0
mediaOptionFor(m, length) ==
  [name |-> MediaName(m, length), x |-> m.width * 100, y |-> length * 100, media |-> m,
   length |-> LengthOf(m, length), standard |-> FALSE]

DieCutOptions == {mediaOptionFor(m, m.length) : m \in {k \in MediaTable : k.form # "endless"}}
TapeOptions ==
  {mediaOptionFor(m, l) : m \in {k \in MediaTable : k.form = "endless"}, l \in {25, 40, 62, 90}}

\* The die-cut size wins where a length of tape has the same name.
BuildMediaCatalog_AllTape == DieCutOptions \union TapeOptions
BuildMediaCatalog ==
  DieCutOptions \union {o \in TapeOptions : \A d \in DieCutOptions : d.name # o.name}

Supported == standardMediaSizes \union BuildMediaCatalog

ASSUME MediaAssumption ==
  /\ Picks \subseteq Supported
  /\ Rolls \subseteq [type : {"continuous", "diecut", "none"}, width : Nat, length : Nat]
  /\ \E r \in Rolls : r.type = "none"
  /\ NoAnswer \notin Rolls /\ NoOption \notin Supported

MediaReady(st) ==
  IF st = NoAnswer \/ st.type = "none" \/ st.width = 0 THEN {}
  ELSE {o \in BuildMediaCatalog :
          /\ o.media.width = st.width
          /\ IF st.type = "continuous" THEN o.media.form = "endless"
             ELSE o.media.form # "endless" /\ o.media.length = st.length}

-----------------------------------------------------------------------------
MediaTypeOK ==
  /\ roll \in Rolls /\ ready \subseteq Supported /\ readyFor \in Rolls \union {NoAnswer}
  /\ phase \in {"idle", "submitted", "resolved", "printing", "refused", "aborted"}
  /\ resolvedFor \in Rolls \union {NoAnswer} /\ printedOn \in Rolls \union {NoAnswer}
  /\ phase \in {"resolved", "printing"} => option.media \in MediaTable /\ ~ option.standard

NothingAsked == [col |-> NoOption, media |-> NoOption, page |-> "none", copies |-> 1]

MediaInit ==
  /\ roll \in Rolls /\ ready = {} /\ readyFor = NoAnswer
  /\ asking = NothingAsked /\ resolvedFor = NoAnswer /\ option = NoOption
  /\ printedOn = NoAnswer /\ phase = "idle"

\* Somebody changes the roll.
ChangeRoll(r) ==
  /\ phase \notin {"printing", "refused", "aborted"}
  /\ r # roll /\ roll' = r
  /\ UNCHANGED <<ready, readyFor, asking, resolvedFor, option, printedOn, phase>>

\* Get-Printer-Attributes: the standard sizes, and what fits what is loaded.
\* status is what the printer said, if it did.
Status == {roll, NoAnswer}
ReadAttributes ==
  /\ phase = "idle"
  /\ \E st \in Status :
       readyFor' = st /\ ready' = standardMediaSizes \union MediaReady(st)
  /\ UNCHANGED <<roll, asking, resolvedFor, option, printedOn, phase>>

\* The option a client sent: the size in media-col goes before the name in
\* media.
Asked(a) == IF a.col # NoOption THEN a.col ELSE a.media

Submit(a) ==
  /\ phase = "idle"
  /\ asking' = a
  /\ phase' = IF Asked(a) = Unknown \/ a.copies \notin 1 .. 255 THEN "refused" ELSE "submitted"
  /\ UNCHANGED <<roll, ready, readyFor, resolvedFor, option, printedOn>>

\* A client's job for the option o: by size, by name, or by neither; the
\* document's pages are unnamed, named like the option, or after another.
Jobs(o) ==
  [col : {NoOption, o}, media : {NoOption, o}, page : {"none", "same", "other"}, copies : {1}]
  \union [col : {NoOption, o, Unknown}, media : {Unknown}, page : {"none"}, copies : CopiesAsked]

Wanted == IF Asked(asking) = NoOption THEN DefaultMediaOption ELSE Asked(asking)

\* A standard size becomes the label that is loaded, or tape of the loaded
\* width whose length follows the content; 62 mm if nobody knows.
Loaded(st) == st # NoAnswer /\ st.width > 0
LoadedLabel(st) ==
  {o \in BuildMediaCatalog : /\ Loaded(st) /\ st.type = "diecut" /\ st.length > 0
                             /\ o.media.form # "endless"
                             /\ o.media.width = st.width /\ o.media.length = st.length}
TapeWidth_Assumed(st) == 62
TapeWidth(st) == IF Loaded(st) THEN st.width ELSE 62
FirstLength == 250
LoadedTape(o, st) ==
  {[t EXCEPT !.length = 0, !.name = o.name] : t \in
     {c \in BuildMediaCatalog : /\ c.media.form = "endless" /\ c.media.width = TapeWidth(st)
                                /\ c.length = FirstLength}}
ResolveMedia(o, st) ==
  IF ~ o.standard THEN {o}
  ELSE IF LoadedLabel(st) # {} THEN LoadedLabel(st) ELSE LoadedTape(o, st)

\* A page's own name must be the option's, if it is a name at all.
PageName == CASE asking.page = "none" -> NoOption
              [] asking.page = "same" -> Wanted.name
              [] OTHER -> (CHOOSE o \in Supported : o.name # Wanted.name).name
PageMatches(o) == PageName = NoOption \/ PageName = o.name

\* IPPJobToQL, with the status the worker has just read.
Resolve ==
  /\ phase = "submitted"
  /\ \E st \in Status :
       /\ resolvedFor' = st
       /\ \/ \E o \in ResolveMedia(Wanted, st) :
               PageMatches(o) /\ phase' = "resolved" /\ option' = o
          \/ /\ \A o \in ResolveMedia(Wanted, st) : ~ PageMatches(o)
             /\ phase' = "aborted" /\ UNCHANGED option
  /\ UNCHANGED <<roll, ready, readyFor, asking, printedOn>>

\* checkMediaMatch, against the status of the print call itself.
FormMatches(st, m) == st.type = IF m.form = "endless" THEN "continuous" ELSE "diecut"
MatchesMedia_FormOnly(st, m) == st.type = "none" \/ FormMatches(st, m)
MatchesMedia(st, m) ==
  \/ st.type = "none"
  \/ /\ FormMatches(st, m)
     /\ st.width = 0 \/ st.width = m.width
     /\ m.form # "endless" => st.length = 0 \/ st.length = m.length

CheckMedia ==
  /\ phase = "resolved"
  /\ printedOn' = roll
  /\ phase' = IF MatchesMedia(roll, option.media) THEN "printing" ELSE "aborted"
  /\ UNCHANGED <<roll, ready, readyFor, asking, resolvedFor, option>>

MediaNext ==
  \/ \E r \in Rolls : ChangeRoll(r)
  \/ ReadAttributes
  \/ \E o \in Picks : \E a \in Jobs(o) : Submit(a)
  \/ Resolve

-----------------------------------------------------------------------------
\* Every media name and every size a client can be told means one option,
\* and a job is resolved to a label of the printer.
OneOptionPerName ==
  /\ MediaTypeOK
  /\ \A a, b \in ready \union Supported :
       (a.name = b.name \/ (a.x = b.x /\ a.y = b.y)) => a = b

\* What the printer says is ready can be printed: a job for a ready option is
\* never turned down for its media while the roll that was ready stays, the
\* printer answers and the pages carry no name of their own.
Known(st) ==
  st # NoAnswer /\ \E m \in MediaTable : FormMatches(st, m) /\ st.width = m.width /\ st.length = m.length
Undisturbed ==
  /\ asking.col \in ready /\ asking.copies = 1
  /\ Known(readyFor) /\ resolvedFor = readyFor
  /\ printedOn = IF option = NoOption THEN NoAnswer ELSE readyFor
ReadyIsPrinted ==
  (Undisturbed /\ asking.page = "none") => phase # "aborted"

\* A job for a label size of its own is printed on that label or not at all,
\* however often the roll is changed between its steps, unless the printer
\* says nothing of its roll.
AskedIsPrinted ==
  (phase = "printing" /\ ~ Wanted.standard /\ Known(printedOn)) =>
    /\ printedOn.width = Wanted.media.width
    /\ Wanted.media.form # "endless" => printedOn.length = Wanted.media.length
=============================================================================
