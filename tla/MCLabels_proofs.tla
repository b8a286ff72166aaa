---------------------------- MODULE MCLabels_proofs ----------------------------
(***************************************************************************)
(* For every set of rolls and of sizes asked for, a job for a label size   *)
(* of its own comes out on that label; for every width of label and every  *)
(* barcode, scanners find the bars.  And for every job of lines, a symbol, *)
(* a barcode and a picture on such a label: no element is drawn over       *)
(* another, nothing drawn of one without negative margins is cut off, none *)
(* falls outside the pins, and the label has a length the printer can      *)
(* print.                                                                  *)
(***************************************************************************)
EXTENDS MCLabels, TLAPS, WellFoundedInduction

\* Whole numbers of dots and of modules.
LEMMA DivBounds ==
  ASSUME NEW a \in Nat, NEW b \in Nat \ {0}
  PROVE  a \div b \in Nat /\ b * (a \div b) <= a
  OBVIOUS

LEMMA Cancelled ==
  ASSUME NEW a \in Int, NEW b \in Int, NEW m \in Nat \ {0}, a * m <= b * m
  PROVE  a <= b
  <1>1. ASSUME a > b PROVE FALSE
    <2>1. a - b >= 1 /\ m >= 1
      BY <1>1
    <2>2. (a - b) * m >= 1
      BY <2>1
    <2>3. (a - b) * m = a * m - b * m
      OBVIOUS
    <2> QED BY <2>2, <2>3
  <1> QED BY <1>1

-----------------------------------------------------------------------------
\* Every label has a width, and one that is not tape a length.
LEMMA TableFacts ==
  \A m \in MediaTable : m.width # 0 /\ (m.form # "endless" => m.length # 0)
  BY DEF MediaTable, Media, Tape, DieCut, Round

\* A size that is a label's own is never resolved to another label, and a job
\* that prints passed the check against the roll that was loaded then.
ResolvedInv ==
  phase \in {"resolved", "printing"} /\ ~ Wanted.standard => option = Wanted
CheckedInv == phase = "printing" => MatchesMedia(printedOn, option.media)
AskedInv == ResolvedInv /\ CheckedInv

\* A roll of a known label that passed the check is the option's label.
LEMMA CheckedRollFits ==
  ASSUME NEW st, NEW m, Known(st), MatchesMedia(st, m)
  PROVE  st.width = m.width /\ (m.form # "endless" => st.length = m.length)
  <1>1. PICK k \in MediaTable : FormMatches(st, k) /\ st.width = k.width /\ st.length = k.length
    BY DEF Known
  <1>2. st.type # "none"
    BY <1>1 DEF FormMatches
  <1>3. st.width # 0 /\ (k.form # "endless" => st.length # 0)
    BY <1>1, TableFacts
  <1>4. FormMatches(st, m) /\ (m.form # "endless" => k.form # "endless")
    BY <1>1, <1>2 DEF MatchesMedia, FormMatches
  <1> QED BY <1>2, <1>3, <1>4 DEF MatchesMedia

\* The steps of the job and of whoever changes the roll.
LEMMA MediaStep ==
  ASSUME AskedInv, MediaNext
  PROVE  AskedInv'
  <1> USE DEF AskedInv, ResolvedInv, CheckedInv
  <1>1. ASSUME NEW r \in Rolls, ChangeRoll(r) PROVE AskedInv'
    BY <1>1 DEF ChangeRoll, Wanted, MatchesMedia, FormMatches
  <1>2. CASE ReadAttributes
    BY <1>2 DEF ReadAttributes
  <1>3. ASSUME NEW o \in Picks, NEW a \in Jobs(o), Submit(a) PROVE AskedInv'
    BY <1>3 DEF Submit
  <1>4. CASE Resolve
    <2>1. PICK st \in Status :
            \/ \E o \in ResolveMedia(Wanted, st) :
                 PageMatches(o) /\ phase' = "resolved" /\ option' = o
            \/ phase' = "aborted"
      BY <1>4 DEF Resolve
    <2>2. asking' = asking
      BY <1>4 DEF Resolve
    <2>3. CASE phase' = "aborted"
      BY <2>3
    <2>4. ASSUME NEW o \in ResolveMedia(Wanted, st), phase' = "resolved", option' = o
          PROVE  AskedInv'
      <3>1. ~ Wanted.standard => o = Wanted
        BY DEF ResolveMedia
      <3>2. Wanted' = Wanted
        BY <2>2 DEF Wanted
      <3> QED BY <2>4, <3>1, <3>2
    <2> QED BY <2>1, <2>3, <2>4
  <1> QED BY <1>1, <1>2, <1>3, <1>4 DEF MediaNext

LEMMA CheckStep ==
  ASSUME AskedInv, CheckPage
  PROVE  AskedInv'
  <1>1. /\ phase = "resolved" /\ printedOn' = roll /\ option' = option /\ asking' = asking
        /\ phase' = IF MatchesMedia(roll, option.media) THEN "printing" ELSE "aborted"
    BY DEF CheckPage, CheckMedia
  <1>2. ResolvedInv'
    BY <1>1 DEF AskedInv, ResolvedInv, Wanted
  <1>3. CheckedInv'
    BY <1>1 DEF CheckedInv, MatchesMedia, FormMatches
  <1> QED BY <1>2, <1>3 DEF AskedInv

\* Nothing of the media changes while a page is rendered.
LEMMA MediaUnchanged ==
  ASSUME AskedInv, UNCHANGED mediaVars
  PROVE  AskedInv'
  <1>1. printedOn' = printedOn /\ option' = option /\ asking' = asking /\ phase' = phase
    BY DEF mediaVars
  <1> QED BY <1>1 DEF AskedInv, ResolvedInv, CheckedInv, Wanted, MatchesMedia, FormMatches

\* Whatever rolls there are and whenever they are changed, a job for a label
\* size is printed on that label or not at all (ResolveMedia of media.go,
\* checkMediaMatch of printer.go).
THEOREM AskedPrinted == Spec => []AskedIsPrinted
  <1>1. Init => AskedInv
    BY DEF Init, MediaInit, AskedInv, ResolvedInv, CheckedInv
  <1>2. AskedInv /\ [Next]_vars => AskedInv'
    <2> SUFFICES ASSUME AskedInv, [Next]_vars PROVE AskedInv'
      OBVIOUS
    <2>1. CASE RenderPage
      BY <2>1 DEF RenderPage, AskedInv, ResolvedInv, CheckedInv
    <2>2. CASE SubmitJob
      BY <2>2, MediaUnchanged DEF SubmitJob
    <2>3. CASE UNCHANGED vars
      BY <2>3, MediaUnchanged DEF vars
    <2> QED BY <2>1, <2>2, <2>3, MediaStep, CheckStep, MediaUnchanged DEF Next
  <1>3. AskedInv => AskedIsPrinted
    <2> SUFFICES ASSUME AskedInv, phase = "printing", ~ Wanted.standard, Known(printedOn)
                 PROVE  /\ printedOn.width = Wanted.media.width
                        /\ Wanted.media.form # "endless" => printedOn.length = Wanted.media.length
      BY DEF AskedIsPrinted
    <2>1. option = Wanted /\ MatchesMedia(printedOn, option.media)
      BY DEF AskedInv, ResolvedInv, CheckedInv
    <2> QED BY <2>1, CheckedRollFits
  <1> QED BY <1>1, <1>2, <1>3, PTL DEF Spec

-----------------------------------------------------------------------------
\* Scanners find the bars, in an area of any width and for a symbol of any
\* number of modules that gets at least a dot for each: both roundings, of the
\* width and of the modules, leave 10 modules white on each side (drawBarcode
\* of render.go).
THEOREM QuietEnough ==
  ASSUME NEW total \in Nat, NEW modules \in Nat \ {0}, BarWidth(total, modules) >= modules
  PROVE  /\ ModuleDots(total, modules) >= 1
         /\ BarsInset(total, modules) >= 0
         /\ Quiet(total, modules) >= QuietModules * ModuleDots(total, modules)
  <1> DEFINE width == BarWidth(total, modules)
             dots == ModuleDots(total, modules)
  <1>1. width \in Nat /\ (modules + 20) * width <= total * modules
    <2>1. total * modules \in Nat /\ modules + 2 * QuietModules \in Nat \ {0}
      BY DEF QuietModules
    <2> QED BY <2>1, DivBounds DEF BarWidth, QuietModules
  <1>2. dots \in Nat /\ modules * dots <= width
    BY <1>1, DivBounds DEF ModuleDots
  <1>3. dots >= 1
    BY <1>1 DEF ModuleDots
  <1>4. BarsInset(total, modules) >= 0
    <2>1. width - modules * dots \in Nat
      BY <1>1, <1>2
    <2> QED BY <2>1 DEF BarsInset
  <1>5. 20 * dots <= total - width
    <2> HIDE DEF width, dots
    <2>1. (20 * dots) * modules = 20 * (modules * dots)
      BY <1>2
    <2>2. (total - width) * modules = total * modules - modules * width
      BY <1>1
    <2>3. (modules + 20) * width = modules * width + 20 * width
      BY <1>1
    <2>4. (20 * dots) * modules <= (total - width) * modules
      BY <1>1, <1>2, <2>1, <2>2, <2>3
    <2> QED BY <1>1, <1>2, <2>4, Cancelled
  <1>6. Quiet(total, modules) >= QuietModules * dots
    BY <1>1, <1>2, <1>5 DEF Quiet, QuietModules
  <1> QED BY <1>3, <1>4, <1>6

-----------------------------------------------------------------------------
\* The table as numbers: what a width, a length and both of them determine.
LEMMA TableSizes ==
  \A m \in MediaTable :
    /\ m.width \in {12, 17, 23, 24, 29, 38, 39, 50, 52, 54, 58, 62}
    /\ m.form = "endless" \/ m.length \in {12, 23, 24, 29, 48, 54, 58, 87, 90, 100}
  BY DEF MediaTable, Media, Tape, DieCut, Round

LEMMA TapesApart ==
  \A m, k \in MediaTable :
    m.form = "endless" /\ k.form = "endless" /\ m.width = k.width => m = k
  BY DEF MediaTable, Media, Tape, DieCut, Round

LEMMA LabelsApart ==
  \A m, k \in MediaTable :
    m.form # "endless" /\ k.form # "endless" /\ m.width = k.width /\ m.length = k.length => m = k
  BY DEF MediaTable, Media, Tape, DieCut, Round

\* What an option of the catalogue is made of.
LEMMA CatalogFacts ==
  ASSUME NEW o \in BuildMediaCatalog
  PROVE  \E m \in MediaTable :
           \/ m.form # "endless" /\ o = mediaOptionFor(m, m.length)
           \/ /\ m.form = "endless"
              /\ \E l \in {25, 40, 62, 90} : o = mediaOptionFor(m, l)
              /\ \A d \in DieCutOptions : d.name # o.name
  BY DEF BuildMediaCatalog, DieCutOptions, TapeOptions

LEMMA OptionFields ==
  ASSUME NEW m, NEW l
  PROVE  /\ mediaOptionFor(m, l).name = <<m.width, l>> /\ mediaOptionFor(m, l).media = m
         /\ mediaOptionFor(m, l).x = m.width * 100 /\ mediaOptionFor(m, l).y = l * 100
         /\ ~ mediaOptionFor(m, l).standard
  BY DEF mediaOptionFor, MediaName

\* Names and sizes agree in the catalogue, and each stands for one label.
LEMMA CatalogApart ==
  ASSUME NEW a \in BuildMediaCatalog, NEW b \in BuildMediaCatalog,
         a.name = b.name \/ (a.x = b.x /\ a.y = b.y)
  PROVE  a = b
  <1>1. PICK m \in MediaTable :
           \/ m.form # "endless" /\ a = mediaOptionFor(m, m.length)
           \/ /\ m.form = "endless"
              /\ \E l \in {25, 40, 62, 90} : a = mediaOptionFor(m, l)
              /\ \A d \in DieCutOptions : d.name # a.name
    BY CatalogFacts
  <1>2. PICK k \in MediaTable :
           \/ k.form # "endless" /\ b = mediaOptionFor(k, k.length)
           \/ /\ k.form = "endless"
              /\ \E l \in {25, 40, 62, 90} : b = mediaOptionFor(k, l)
              /\ \A d \in DieCutOptions : d.name # b.name
    BY CatalogFacts
  <1>3. PICK l : a = mediaOptionFor(m, l) /\ l \in Nat /\ (m.form # "endless" => l = m.length)
    BY <1>1, TableSizes
  <1>4. PICK n : b = mediaOptionFor(k, n) /\ n \in Nat /\ (k.form # "endless" => n = k.length)
    BY <1>2, TableSizes
  <1>5. m.width \in Nat /\ k.width \in Nat
    BY TableSizes
  <1>6. m.width = k.width /\ l = n
    <2>1. /\ a.name = <<m.width, l>> /\ a.x = m.width * 100 /\ a.y = l * 100
          /\ b.name = <<k.width, n>> /\ b.x = k.width * 100 /\ b.y = n * 100
      BY <1>3, <1>4, OptionFields
    <2>2. CASE a.name = b.name
      BY <2>1, <2>2
    <2>3. CASE a.x = b.x /\ a.y = b.y
      BY <1>3, <1>4, <1>5, <2>1, <2>3
    <2> QED BY <2>2, <2>3
  <1>7. a.name = b.name
    BY <1>3, <1>4, <1>6, OptionFields
  <1>8. m.form = "endless" <=> k.form = "endless"
    <2>1. m.form # "endless" => a \in DieCutOptions
      BY <1>1 DEF DieCutOptions
    <2>2. k.form # "endless" => b \in DieCutOptions
      BY <1>2 DEF DieCutOptions
    <2> QED BY <1>1, <1>2, <1>7, <2>1, <2>2
  <1>9. m = k
    BY <1>3, <1>4, <1>6, <1>8, TapesApart, LabelsApart
  <1> QED BY <1>3, <1>4, <1>6, <1>9

\* A standard size is no label's, and no two of them agree.
LEMMA StandardApart ==
  ASSUME NEW a \in standardMediaSizes, NEW b \in Supported,
         a.name = b.name \/ (a.x = b.x /\ a.y = b.y)
  PROVE  a = b
  <1>1. CASE b \in standardMediaSizes
    <2> DEFINE IsStandard(n, w, l) ==
                 \/ n = "om_card_54x86mm" /\ w = 5400 /\ l = 8600
                 \/ n = "na_index-4x6_4x6in" /\ w = 10160 /\ l = 15240
                 \/ n = "oe_photo-l_3.5x5in" /\ w = 8890 /\ l = 12700
                 \/ n = "na_5x7_5x7in" /\ w = 12700 /\ l = 17780
    <2>1. ASSUME NEW o \in standardMediaSizes
          PROVE  \E n, w, l : /\ o = StandardOption(<<n>>, w, l) /\ o.name[1] = n /\ o.x = w
                               /\ IsStandard(n, w, l)
      BY DEF standardMediaSizes, StandardOption
    <2> HIDE DEF IsStandard
    <2>2. PICK n, w, l : /\ a = StandardOption(<<n>>, w, l) /\ a.name[1] = n /\ a.x = w
                         /\ IsStandard(n, w, l)
      BY <2>1
    <2>3. PICK m, v, k : /\ b = StandardOption(<<m>>, v, k) /\ b.name[1] = m /\ b.x = v
                         /\ IsStandard(m, v, k)
      BY <1>1, <2>1
    <2>4. n = m \/ w = v
      BY <2>2, <2>3
    <2>5. n = m /\ w = v /\ l = k
      BY <2>2, <2>3, <2>4 DEF IsStandard
    <2> QED BY <2>2, <2>3, <2>5
  <1>2. CASE b \in BuildMediaCatalog
    <2>1. PICK m \in MediaTable, l \in Nat : b = mediaOptionFor(m, l) /\ l # 86
      BY <1>2, CatalogFacts, TableSizes
    <2>2. /\ b.name = <<m.width, l>> /\ b.x = m.width * 100 /\ b.y = l * 100
          /\ m.width \in Nat /\ m.width <= 62
      BY <2>1, OptionFields, TableSizes
    <2>3. a.name # b.name
      <3>1. Len(a.name) = 1
        BY DEF standardMediaSizes, StandardOption
      <3>2. Len(<<m.width, l>>) = 2
        OBVIOUS
      <3> QED BY <2>2, <3>1, <3>2
    <2>4. ~ (a.x = b.x /\ a.y = b.y)
      <3>1. \/ a.x = 5400 /\ a.y = 8600
            \/ a.x \in {10160, 8890, 12700}
        BY DEF standardMediaSizes, StandardOption
      <3> QED BY <2>1, <2>2, <3>1
    <2> QED BY <2>3, <2>4
  <1> QED BY <1>1, <1>2 DEF Supported

LEMMA SupportedApart ==
  ASSUME NEW a \in Supported, NEW b \in Supported,
         a.name = b.name \/ (a.x = b.x /\ a.y = b.y)
  PROVE  a = b
  <1>1. CASE a \in BuildMediaCatalog /\ b \in BuildMediaCatalog
    BY <1>1, CatalogApart
  <1>2. CASE a \in standardMediaSizes
    BY <1>2, StandardApart
  <1>3. CASE b \in standardMediaSizes
    BY <1>3, StandardApart
  <1> QED BY <1>1, <1>2, <1>3 DEF Supported

-----------------------------------------------------------------------------
\* A known roll: what the printer answers when it says what is loaded.
LEMMA KnownRoll ==
  ASSUME NEW st, Known(st)
  PROVE  /\ st # NoAnswer /\ st.type # "none" /\ st.width # 0 /\ Loaded(st)
         /\ \E m \in MediaTable :
              /\ FormMatches(st, m) /\ st.width = m.width /\ st.length = m.length
              /\ m.form # "endless" => st.length > 0
  <1>1. PICK m \in MediaTable : FormMatches(st, m) /\ st.width = m.width /\ st.length = m.length
    BY DEF Known
  <1>2. st # NoAnswer /\ st.type # "none"
    BY <1>1 DEF Known, FormMatches
  <1>3. st.width > 0 /\ st.width # 0 /\ (m.form # "endless" => st.length > 0)
    BY <1>1, TableSizes
  <1> QED BY <1>1, <1>2, <1>3 DEF Loaded

\* For a known roll a size always resolves to a label, and a standard size
\* only to one that passes the check against that roll.
LEMMA StandardResolves ==
  ASSUME NEW st, Known(st), NEW o, o.standard
  PROVE  /\ ResolveMedia(o, st) # {}
         /\ \A r \in ResolveMedia(o, st) : MatchesMedia(st, r.media)
  <1>1. PICK m \in MediaTable : /\ FormMatches(st, m) /\ st.width = m.width /\ st.length = m.length
                                /\ m.form # "endless" => st.length > 0
    BY KnownRoll
  <1>2. CASE m.form # "endless"
    <2>1. st.type = "diecut"
      BY <1>1, <1>2 DEF FormMatches
    <2>2. mediaOptionFor(m, m.length) \in BuildMediaCatalog
      BY <1>2 DEF BuildMediaCatalog, DieCutOptions
    <2>3. mediaOptionFor(m, m.length) \in LoadedLabel(st)
      BY <1>1, <1>2, <2>1, <2>2, KnownRoll, OptionFields DEF LoadedLabel
    <2>4. ResolveMedia(o, st) = LoadedLabel(st) /\ ResolveMedia(o, st) # {}
      BY <2>3 DEF ResolveMedia
    <2>5. \A r \in LoadedLabel(st) : MatchesMedia(st, r.media)
      BY <2>1 DEF LoadedLabel, MatchesMedia, FormMatches
    <2> QED BY <2>4, <2>5
  <1>3. CASE m.form = "endless"
    <2>1. st.type = "continuous"
      BY <1>1, <1>3 DEF FormMatches
    <2>2. LoadedLabel(st) = {}
      BY <2>1 DEF LoadedLabel
    <2>3. ResolveMedia(o, st) = LoadedTape(o, st)
      BY <2>2 DEF ResolveMedia
    <2> DEFINE t == mediaOptionFor(m, 25)
    <2>4. t \in BuildMediaCatalog
      <3>1. t \in TapeOptions
        BY <1>3 DEF TapeOptions
      <3>2. ASSUME NEW d \in DieCutOptions PROVE d.name # t.name
        <4>1. PICK k \in MediaTable : k.form # "endless" /\ d = mediaOptionFor(k, k.length)
          BY DEF DieCutOptions
        <4>2. k.length # 25
          BY <4>1, TableSizes
        <4>3. d.name = <<k.width, k.length>> /\ t.name = <<m.width, 25>>
          BY <4>1, OptionFields
        <4> HIDE DEF t
        <4> QED BY <4>2, <4>3
      <3> QED BY <3>1, <3>2 DEF BuildMediaCatalog
    <2>5. t.media = m /\ t.length = FirstLength
      BY <1>3 DEF mediaOptionFor, LengthOf, FirstLength
    <2>6. TapeWidth(st) = st.width
      BY KnownRoll DEF TapeWidth
    <2> HIDE DEF t
    <2>7. LoadedTape(o, st) # {}
      BY <1>1, <1>3, <2>4, <2>5, <2>6 DEF LoadedTape
    <2>8. ASSUME NEW r \in LoadedTape(o, st) PROVE MatchesMedia(st, r.media)
      <3>1. PICK c \in BuildMediaCatalog :
              /\ c.media.form = "endless" /\ c.media.width = st.width
              /\ r = [c EXCEPT !.length = 0, !.name = o.name]
        BY <2>6 DEF LoadedTape
      <3>2. c \in [name : {c.name}, x : {c.x}, y : {c.y}, media : {c.media}, length : {c.length},
                   standard : {c.standard}]
        BY CatalogFacts DEF mediaOptionFor
      <3>3. r.media = c.media
        BY <3>1, <3>2
      <3> QED BY <2>1, <3>1, <3>3 DEF MatchesMedia, FormMatches
    <2> QED BY <2>3, <2>7, <2>8
  <1> QED BY <1>2, <1>3

\* What was ready for a roll passes the check against that roll.
LEMMA ReadyMatches ==
  ASSUME NEW st, NEW o \in MediaReady(st)
  PROVE  /\ ~ o.standard /\ o \in BuildMediaCatalog
         /\ st.type \in {"continuous", "diecut", "none"} => MatchesMedia(st, o.media)
  <1>1. /\ st # NoAnswer /\ st.type # "none" /\ o \in BuildMediaCatalog
        /\ o.media.width = st.width
        /\ IF st.type = "continuous" THEN o.media.form = "endless"
           ELSE o.media.form # "endless" /\ o.media.length = st.length
    BY DEF MediaReady
  <1>2. ~ o.standard
    BY <1>1, CatalogFacts, OptionFields
  <1> QED BY <1>1, <1>2 DEF MatchesMedia, FormMatches

\* Whose job it is and what became of it, from step to step.
OfferedInv ==
  /\ ready \subseteq standardMediaSizes \union MediaReady(readyFor)
  /\ readyFor \in Rolls \union {NoAnswer} /\ roll \in Rolls
  /\ resolvedFor \in Rolls \union {NoAnswer} /\ printedOn \in Rolls \union {NoAnswer}
  /\ phase \in {"idle", "submitted", "resolved", "printing", "refused", "aborted"}
ChosenInv ==
  /\ phase \in {"idle", "submitted", "refused"} => option = NoOption /\ printedOn = NoAnswer
  /\ phase \in {"resolved", "printing"} => option \in ResolveMedia(Wanted, resolvedFor)
  /\ phase = "aborted" =>
       \/ /\ printedOn = NoAnswer /\ option = NoOption
          /\ \A o \in ResolveMedia(Wanted, resolvedFor) : ~ PageMatches(o)
       \/ /\ printedOn \in Rolls /\ option \in ResolveMedia(Wanted, resolvedFor)
          /\ ~ MatchesMedia(printedOn, option.media)
JobInv ==
  /\ phase \in {"submitted", "resolved", "printing"} => Wanted \in Supported /\ asking.copies \in 1 .. 255
MediaInv == OfferedInv /\ ChosenInv /\ JobInv

LEMMA PicksAreSupported ==
  /\ Picks \subseteq Supported /\ DefaultMediaOption \in Supported
  /\ \A o \in Supported : o # NoOption
  <1>1. DefaultMediaOption \in standardMediaSizes
    <2>1. \E o \in standardMediaSizes : o.name = <<"om_card_54x86mm">>
      BY DEF standardMediaSizes, StandardOption
    <2> QED BY <2>1 DEF DefaultMediaOption
  <1> QED BY <1>1, MediaAssumption DEF Supported

LEMMA MediaInitEstablishes == MediaInit => MediaInv
  BY DEF MediaInit, MediaInv, OfferedInv, ChosenInv, JobInv

LEMMA ChangeRollStep ==
  ASSUME MediaInv, NEW r \in Rolls, ChangeRoll(r)
  PROVE  MediaInv'
  <1>1. /\ roll' = r /\ phase # "aborted"
        /\ UNCHANGED <<ready, readyFor, asking, resolvedFor, option, printedOn, phase>>
    BY DEF ChangeRoll
  <1>2. Wanted' = Wanted
    BY <1>1 DEF Wanted
  <1>3. OfferedInv'
    BY <1>1 DEF MediaInv, OfferedInv
  <1>4. ChosenInv'
    BY <1>1, <1>2 DEF MediaInv, ChosenInv
  <1>5. JobInv'
    BY <1>1, <1>2 DEF MediaInv, JobInv
  <1> QED BY <1>3, <1>4, <1>5 DEF MediaInv

LEMMA ReadAttributesStep ==
  ASSUME MediaInv, ReadAttributes
  PROVE  MediaInv'
  <1>1. PICK st \in Status :
          readyFor' = st /\ ready' = standardMediaSizes \union MediaReady(st)
    BY DEF ReadAttributes
  <1>2. /\ phase = "idle"
        /\ UNCHANGED <<roll, asking, resolvedFor, option, printedOn, phase>>
    BY DEF ReadAttributes
  <1>3. st \in Rolls \union {NoAnswer}
    BY DEF Status, MediaInv, OfferedInv
  <1>4. OfferedInv'
    BY <1>1, <1>2, <1>3 DEF MediaInv, OfferedInv
  <1>5. ChosenInv' /\ JobInv'
    BY <1>2 DEF MediaInv, ChosenInv, JobInv
  <1> QED BY <1>4, <1>5 DEF MediaInv

LEMMA SubmitStep ==
  ASSUME MediaInv, NEW o \in Picks, NEW a \in Jobs(o), Submit(a)
  PROVE  MediaInv'
  <1>1. /\ phase = "idle" /\ asking' = a
        /\ phase' = IF Asked(a) = Unknown \/ a.copies \notin 1 .. 255 THEN "refused"
                    ELSE "submitted"
        /\ UNCHANGED <<roll, ready, readyFor, resolvedFor, option, printedOn>>
    BY DEF Submit
  <1>2. Asked(a) \in {NoOption, o, Unknown}
    BY DEF Jobs, Asked
  <1>3. phase' = "submitted" => Wanted' \in Supported /\ a.copies \in 1 .. 255
    <2>1. Wanted' = IF Asked(a) = NoOption THEN DefaultMediaOption ELSE Asked(a)
      BY <1>1 DEF Wanted
    <2> QED BY <1>1, <1>2, <2>1, PicksAreSupported
  <1>4. OfferedInv'
    BY <1>1 DEF MediaInv, OfferedInv
  <1>5. ChosenInv'
    BY <1>1 DEF MediaInv, ChosenInv
  <1>6. JobInv'
    BY <1>1, <1>3 DEF JobInv
  <1> QED BY <1>4, <1>5, <1>6 DEF MediaInv

LEMMA ResolveStep ==
  ASSUME MediaInv, Resolve
  PROVE  MediaInv'
  <1>1. PICK st \in Status :
          /\ resolvedFor' = st
          /\ \/ \E o \in ResolveMedia(Wanted, st) :
                  PageMatches(o) /\ phase' = "resolved" /\ option' = o
             \/ /\ \A o \in ResolveMedia(Wanted, st) : ~ PageMatches(o)
                /\ phase' = "aborted" /\ UNCHANGED option
    BY DEF Resolve
  <1>2. phase = "submitted" /\ UNCHANGED <<roll, ready, readyFor, asking, printedOn>>
    BY DEF Resolve
  <1>3. st \in Rolls \union {NoAnswer}
    BY DEF Status, MediaInv, OfferedInv
  <1>4. Wanted' = Wanted /\ \A o : PageMatches(o)' <=> PageMatches(o)
    BY <1>2 DEF Wanted, PageMatches, PageName
  <1>5. option = NoOption /\ printedOn = NoAnswer
    BY <1>2 DEF MediaInv, ChosenInv
  <1>6. OfferedInv'
    BY <1>1, <1>2, <1>3 DEF MediaInv, OfferedInv
  <1>7. ResolveMedia(Wanted, resolvedFor)' = ResolveMedia(Wanted, st)
    BY <1>1, <1>4 DEF ResolveMedia, LoadedLabel, LoadedTape, TapeWidth, Loaded
  <1>8. ChosenInv'
    BY <1>1, <1>2, <1>4, <1>5, <1>7 DEF ChosenInv
  <1>9. JobInv'
    BY <1>1, <1>2, <1>4 DEF MediaInv, JobInv
  <1> QED BY <1>6, <1>8, <1>9 DEF MediaInv

LEMMA CheckMediaStep ==
  ASSUME MediaInv, CheckMedia
  PROVE  MediaInv'
  <1>1. /\ phase = "resolved" /\ printedOn' = roll
        /\ phase' = IF MatchesMedia(roll, option.media) THEN "printing" ELSE "aborted"
        /\ UNCHANGED <<roll, ready, readyFor, asking, resolvedFor, option>>
    BY DEF CheckMedia
  <1>2. Wanted' = Wanted /\ ResolveMedia(Wanted, resolvedFor)' = ResolveMedia(Wanted, resolvedFor)
    BY <1>1 DEF Wanted, ResolveMedia, LoadedLabel, LoadedTape, TapeWidth, Loaded
  <1>3. MatchesMedia(printedOn, option.media)' <=> MatchesMedia(roll, option.media)
    BY <1>1 DEF MatchesMedia, FormMatches
  <1>4. roll \in Rolls /\ option \in ResolveMedia(Wanted, resolvedFor)
    BY <1>1 DEF MediaInv, OfferedInv, ChosenInv
  <1>5. OfferedInv'
    BY <1>1 DEF MediaInv, OfferedInv
  <1>6. ChosenInv'
    BY <1>1, <1>2, <1>3, <1>4 DEF ChosenInv
  <1>7. JobInv'
    BY <1>1, <1>2 DEF MediaInv, JobInv
  <1> QED BY <1>5, <1>6, <1>7 DEF MediaInv

LEMMA MediaStays == MediaInv /\ UNCHANGED mediaVars => MediaInv'
  <1> SUFFICES ASSUME MediaInv, UNCHANGED mediaVars PROVE MediaInv'
    OBVIOUS
  <1>1. UNCHANGED <<roll, ready, readyFor, asking, resolvedFor, option, printedOn, phase>>
    BY DEF mediaVars
  <1>2. /\ Wanted' = Wanted /\ \A o : PageMatches(o)' <=> PageMatches(o)
        /\ ResolveMedia(Wanted, resolvedFor)' = ResolveMedia(Wanted, resolvedFor)
        /\ MatchesMedia(printedOn, option.media)' <=> MatchesMedia(printedOn, option.media)
    BY <1>1 DEF Wanted, PageMatches, PageName, ResolveMedia, LoadedLabel, LoadedTape, TapeWidth,
                Loaded, MatchesMedia, FormMatches
  <1>3. OfferedInv' /\ JobInv'
    BY <1>1, <1>2 DEF MediaInv, OfferedInv, JobInv
  <1>4. ChosenInv'
    BY <1>1, <1>2 DEF MediaInv, ChosenInv
  <1> QED BY <1>3, <1>4 DEF MediaInv

\* Rendering a page begins the next job.
LEMMA RenderedMedia ==
  ASSUME MediaInv, RenderPage
  PROVE  MediaInv'
  <1>1. /\ roll' = CHOOSE r \in Rolls : r.type = "none"
        /\ ready' = {} /\ readyFor' = NoAnswer /\ resolvedFor' = NoAnswer
        /\ option' = NoOption /\ printedOn' = NoAnswer /\ phase' = "idle"
    BY DEF RenderPage
  <1>2. roll' \in Rolls
    BY <1>1, MediaAssumption
  <1> QED BY <1>1, <1>2 DEF MediaInv, OfferedInv, ChosenInv, JobInv

LEMMA MediaKeepsInv == MediaInv /\ [Next]_vars => MediaInv'
  <1> SUFFICES ASSUME MediaInv, [Next]_vars PROVE MediaInv'
    OBVIOUS
  <1>1. CASE MediaNext
    BY <1>1, ChangeRollStep, ReadAttributesStep, SubmitStep, ResolveStep DEF MediaNext
  <1>2. CASE CheckPage
    BY <1>2, CheckMediaStep DEF CheckPage
  <1>3. CASE UNCHANGED mediaVars
    BY <1>3, MediaStays
  <1> QED BY <1>1, <1>2, <1>3, RenderedMedia DEF Next, vars, SubmitJob

\* An option a job resolves to is a label of the printer, with a length that
\* can be printed, or none.
LEMMA ResolvedOption ==
  ASSUME NEW o \in Supported, NEW st, NEW r \in ResolveMedia(o, st)
  PROVE  /\ r.media \in MediaTable /\ ~ r.standard
         /\ r.length \in {0, 250, 400, 620, 900}
         /\ r.media.form # "endless" => r.length = 0
  <1>1. ASSUME NEW c \in BuildMediaCatalog
        PROVE  /\ c.media \in MediaTable /\ ~ c.standard
               /\ c.length \in {0, 250, 400, 620, 900}
               /\ c.media.form # "endless" => c.length = 0
    <2>1. PICK m \in MediaTable :
            \E l : c = mediaOptionFor(m, l) /\ (m.form = "endless" => l \in {25, 40, 62, 90})
      BY CatalogFacts
    <2>2. PICK l : c = mediaOptionFor(m, l) /\ (m.form = "endless" => l \in {25, 40, 62, 90})
      BY <2>1
    <2>3. c.media = m /\ ~ c.standard /\ c.length = LengthOf(m, l)
      BY <2>2 DEF mediaOptionFor
    <2> QED BY <2>2, <2>3 DEF LengthOf
  <1>2. CASE r \in BuildMediaCatalog
    BY <1>1, <1>2
  <1>3. CASE r \in LoadedTape(o, st)
    <2>1. PICK c \in BuildMediaCatalog :
            c.media.form = "endless" /\ r = [c EXCEPT !.length = 0, !.name = o.name]
      BY <1>3 DEF LoadedTape
    <2>2. c \in [name : {c.name}, x : {c.x}, y : {c.y}, media : {c.media}, length : {c.length},
                 standard : {c.standard}]
      BY CatalogFacts DEF mediaOptionFor
    <2>3. r.media = c.media /\ r.standard = c.standard /\ r.length = 0
      BY <2>1, <2>2
    <2> QED BY <1>1, <2>1, <2>3
  <1>4. r \in BuildMediaCatalog \/ r \in LoadedTape(o, st)
    <2>1. o.standard \/ o \in BuildMediaCatalog
      BY DEF Supported, standardMediaSizes, StandardOption
    <2> QED BY <2>1 DEF ResolveMedia, LoadedLabel
  <1> QED BY <1>2, <1>3, <1>4

LEMMA ReadyIsSupported == MediaInv => ready \subseteq Supported
  BY ReadyMatches DEF MediaInv, OfferedInv, Supported

\* For every set of rolls and of options asked for, a name and a size mean one
\* option, and a job resolves to a label of the printer (BuildMediaCatalog,
\* ResolveMedia of media.go).
THEOREM OneOption == Spec => []OneOptionPerName
  <1>1. Init => MediaInv
    BY MediaInitEstablishes DEF Init
  <1>2. MediaInv => OneOptionPerName
    <2> SUFFICES ASSUME MediaInv PROVE OneOptionPerName
      OBVIOUS
    <2>1. ready \subseteq Supported
      BY ReadyIsSupported
    <2>2. phase \in {"resolved", "printing"} => option.media \in MediaTable /\ ~ option.standard
      BY ResolvedOption DEF MediaInv, ChosenInv, JobInv
    <2>3. MediaTypeOK
      BY <2>1, <2>2 DEF MediaInv, OfferedInv, MediaTypeOK
    <2> QED BY <2>1, <2>3, SupportedApart DEF OneOptionPerName
  <1> QED BY <1>1, <1>2, MediaKeepsInv, PTL DEF Spec

\* What the printer said is ready is never turned down for its media, while
\* the roll stays and the printer answers (MediaReady and ResolveMedia of
\* media.go, checkMediaMatch of printer.go).
THEOREM ReadyPrinted == Spec => []ReadyIsPrinted
  <1>1. Init => MediaInv
    BY MediaInitEstablishes DEF Init
  <1>2. MediaInv => ReadyIsPrinted
    <2> SUFFICES ASSUME MediaInv, Undisturbed, asking.page = "none", phase = "aborted"
                 PROVE  FALSE
      BY DEF ReadyIsPrinted
    <2>1. /\ asking.col \in ready /\ Known(readyFor) /\ resolvedFor = readyFor
          /\ printedOn = IF option = NoOption THEN NoAnswer ELSE readyFor
      BY DEF Undisturbed
    <2>2. Wanted = asking.col /\ Wanted \in ready
      BY <2>1, ReadyIsSupported, PicksAreSupported DEF Wanted, Asked
    <2>3. readyFor \in Rolls /\ readyFor.type \in {"continuous", "diecut", "none"}
      BY <2>1, KnownRoll, MediaAssumption DEF MediaInv, OfferedInv
    <2>4. /\ ResolveMedia(Wanted, readyFor) # {}
          /\ \A r \in ResolveMedia(Wanted, readyFor) : MatchesMedia(readyFor, r.media)
      <3>1. CASE Wanted \in standardMediaSizes
        <4>1. Wanted.standard
          BY <3>1 DEF standardMediaSizes, StandardOption
        <4> QED BY <2>1, <4>1, StandardResolves
      <3>2. CASE Wanted \in MediaReady(readyFor)
        <4>1. ~ Wanted.standard /\ MatchesMedia(readyFor, Wanted.media)
          BY <2>3, <3>2, ReadyMatches
        <4> QED BY <4>1 DEF ResolveMedia
      <3> QED BY <2>2, <3>1, <3>2 DEF MediaInv, OfferedInv
    <2>5. \A o : PageMatches(o)
      BY DEF PageMatches, PageName
    <2>6. /\ printedOn \in Rolls /\ option \in ResolveMedia(Wanted, readyFor)
          /\ ~ MatchesMedia(printedOn, option.media)
      BY <2>1, <2>4, <2>5 DEF MediaInv, ChosenInv
    <2>7. printedOn = readyFor
      BY <2>1, <2>6, MediaAssumption
    <2> QED BY <2>4, <2>6, <2>7
  <1> QED BY <1>1, <1>2, MediaKeepsInv, PTL DEF Spec

-----------------------------------------------------------------------------
\* A set of numbers that is not empty has a least one.
LEMMA LeastNatural ==
  ASSUME NEW S \in SUBSET Nat, S # {}
  PROVE  \E n \in S : \A m \in S : n <= m
  <1>1. \E n \in S : \A m \in S : ~ (<<m, n>> \in OpToRel(<, Nat))
    BY WFMin, NatLessThanWellFounded
  <1>2. PICK n \in S : \A m \in S : ~ (<<m, n>> \in OpToRel(<, Nat))
    BY <1>1
  <1>3. \A m \in S : n <= m
    <2>1. ASSUME NEW m \in S, m < n PROVE FALSE
      BY <2>1, <1>2 DEF OpToRel
    <2> QED BY <2>1
  <1> QED BY <1>3

\* The labels in dots.
LEMMA TableMeasures ==
  \A m \in MediaTable :
    /\ m.dots \in Nat /\ m.dots >= 94 /\ m.right \in Nat /\ m.right + m.dots <= 720
    /\ m.rows \in Nat /\ m.rows <= 1109 /\ (m.form # "endless" => m.rows >= 94)
  BY DEF MediaTable, Media, Tape, DieCut, Round

\* Millimetres become dots.
LEMMA DotsFacts ==
  /\ \A t \in Nat : MMToDots(t) \in Nat
  /\ \A t \in Int : MMToDots(t) \in Int
  /\ \A t \in MinLengthMM .. MaxLengthMM : MMToDots(t) >= 150 /\ MMToDots(t) <= MaxLengthDots
  /\ MMToDots(MinLengthMM) = 150 /\ MMToDots(100) = 118 /\ MMToDots(300) = 354
  /\ MMToDots(30) = 35 /\ MMToDots(0) = 0
  <1>1. ASSUME NEW t \in Nat PROVE MMToDots(t) \in Nat
    BY DEF MMToDots, Rounded
  <1>2. ASSUME NEW t \in Int, t >= 127, t <= 10000 PROVE MMToDots(t) >= 150 /\ MMToDots(t) <= 11811
    BY <1>2 DEF MMToDots, Rounded
  <1>3. /\ MMToDots(127) = 150 /\ MMToDots(100) = 118 /\ MMToDots(300) = 354
        /\ MMToDots(30) = 35 /\ MMToDots(0) = 0
    BY DEF MMToDots, Rounded
  <1>4. \A t \in MinLengthMM .. MaxLengthMM : t \in Int /\ t >= 127 /\ t <= 10000
    BY DEF MinLengthMM, MaxLengthMM
  <1>5. MinLengthMM = 127 /\ MaxLengthDots = 11811
    BY DEF MinLengthMM, MaxLengthDots
  <1>6. ASSUME NEW t \in Int PROVE MMToDots(t) \in Int
    BY DEF MMToDots, Rounded
  <1> QED BY <1>1, <1>2, <1>3, <1>4, <1>5, <1>6

\* What a job is made of.
LEMMA JobFacts ==
  ASSUME NEW j \in PrintJobs
  PROVE  /\ j.length \in Int /\ j.hires \in BOOLEAN /\ j.mirror \in BOOLEAN /\ j.cable \in BOOLEAN
         /\ j.factor \in Int /\ j.top \in Int /\ j.bottom \in Int /\ j.left \in Int /\ j.right \in Int
         /\ j.text \in Seq(Size) /\ j.qr \in Nat /\ j.barcode \in Nat /\ j.hri \in Nat
         /\ j.image.w \in Nat /\ j.image.h \in Nat /\ (j.image.w > 0 => j.image.h > 0)
         /\ j.align \in {"left", "center", "right"} /\ j.fit \in {"width", "label"}
         /\ j.rotate \in Int
  BY DEF PrintJobs, Size

\* The measures of a job's label, margins and content.
LEMMA Measures ==
  ASSUME job \in PrintJobs, Validate(job)
  PROVE  /\ scale \in {1, 2} /\ gap = 4 * scale /\ sideMargin = 4 * scale
         /\ leftMargin \in Nat /\ rightMargin \in Nat /\ topMargin \in Int /\ bottomMargin \in Int
         /\ (job.top >= 0 => topMargin >= 0) /\ (job.bottom >= 0 => bottomMargin >= 0)
         /\ contentW \in Nat /\ contentW > 0 /\ cw \in Nat
         /\ cw = leftMargin + contentW + rightMargin
         /\ job.media \in MediaTable /\ cw = job.media.dots * scale
         /\ height \in Nat /\ height <= MaxLengthDots /\ ch = height * scale /\ ch \in Nat
         /\ \E k \in Int : contentW - 2 * sideMargin = scale * k
  <1>1. scale \in {1, 2} /\ gap = 4 * scale /\ sideMargin = 4 * scale
    BY DEF scale, gap, sideMargin
  <1>2. /\ job.media \in MediaTable /\ job.left \in Nat /\ job.right \in Nat
        /\ MMToDots(job.left) + MMToDots(job.right) < job.media.dots
    BY JobFacts DEF Validate
  <1>3. /\ MMToDots(job.left) \in Nat /\ MMToDots(job.right) \in Nat
        /\ MMToDots(job.top) \in Int /\ MMToDots(job.bottom) \in Int /\ job.media.dots \in Nat
        /\ (job.top >= 0 => MMToDots(job.top) \in Nat)
        /\ (job.bottom >= 0 => MMToDots(job.bottom) \in Nat)
    <2>1. job.left \in Nat /\ job.right \in Nat /\ job.top \in Int /\ job.bottom \in Int
      BY <1>2, JobFacts
    <2> QED BY <1>2, <2>1, DotsFacts, TableMeasures
  <1> DEFINE k == job.media.dots - MMToDots(job.left) - MMToDots(job.right)
  <1>4. k \in Nat /\ k > 0
    BY <1>2, <1>3
  <1>5. /\ leftMargin = MMToDots(job.left) * scale /\ rightMargin = MMToDots(job.right) * scale
        /\ topMargin = MMToDots(job.top) * scale /\ bottomMargin = MMToDots(job.bottom) * scale
        /\ cw = job.media.dots * scale /\ contentW = cw - leftMargin - rightMargin
    BY DEF leftMargin, rightMargin, topMargin, bottomMargin, cw, contentW
  <1>6. /\ leftMargin \in Nat /\ rightMargin \in Nat /\ topMargin \in Int /\ bottomMargin \in Int
        /\ (job.top >= 0 => topMargin >= 0) /\ (job.bottom >= 0 => bottomMargin >= 0)
        /\ contentW \in Nat /\ contentW > 0 /\ cw \in Nat
        /\ contentW = scale * k /\ cw = leftMargin + contentW + rightMargin
    <2>1. CASE scale = 1
      BY <1>2, <1>3, <1>5, <2>1
    <2>2. CASE scale = 2
      BY <1>2, <1>3, <1>5, <2>2
    <2> QED BY <1>1, <2>1, <2>2
  <1>7. \E n \in Int : contentW - 2 * sideMargin = scale * n
    <2>1. contentW - 2 * sideMargin = scale * (k - 8) /\ k - 8 \in Int
      <3>1. CASE scale = 1
        BY <1>1, <1>4, <1>6, <3>1
      <3>2. CASE scale = 2
        BY <1>1, <1>4, <1>6, <3>2
      <3> HIDE DEF k
      <3> QED BY <1>1, <1>4, <3>1, <3>2
    <2> HIDE DEF k
    <2> QED BY <2>1
  <1>8. height \in Nat /\ height <= MaxLengthDots
    <2>1. CASE auto
      BY <2>1 DEF height, MaxLengthDots
    <2>2. CASE ~ auto /\ job.media.form = "endless"
      <3>1. job.length \in MinLengthMM .. MaxLengthMM
        BY <2>2, JobFacts DEF Validate, auto
      <3>2. MMToDots(job.length) >= 150 /\ MMToDots(job.length) <= MaxLengthDots
        BY <3>1, DotsFacts
      <3>4. job.length \in Nat
        BY <2>2, JobFacts DEF auto
      <3>5. MMToDots(job.length) \in Nat
        BY <3>4, DotsFacts
      <3>3. height = MMToDots(job.length)
        BY <2>2 DEF height, LengthDots
      <3> QED BY <3>2, <3>3, <3>5
    <2>3. CASE ~ auto /\ job.media.form # "endless"
      <3>1. height = job.media.rows
        BY <2>3 DEF height, LengthDots
      <3> QED BY <1>2, <3>1, TableMeasures DEF MaxLengthDots
    <2> QED BY <2>1, <2>2, <2>3
  <1>9. ch = height * scale /\ ch \in Nat
    <2>1. CASE scale = 1
      BY <1>8, <2>1 DEF ch
    <2>2. CASE scale = 2
      BY <1>8, <2>2 DEF ch
    <2> QED BY <1>1, <2>1, <2>2 DEF ch
  <1> HIDE DEF k
  <1> QED BY <1>1, <1>2, <1>5, <1>6, <1>7, <1>8, <1>9

\* A job whose ink is counted: NothingIsCutOff.
Counted == job.top >= 0 /\ job.bottom >= 0 /\ contentW > 2 * sideMargin

\* A job with a line of text that has no height.
NoHeight == \E k \in DOMAIN job.text : job.text[k].h = 0

\* They do not change while the job is rendered.
LEMMA MeasuresStay ==
  ASSUME UNCHANGED job
  PROVE  /\ scale' = scale /\ gap' = gap /\ sideMargin' = sideMargin /\ auto' = auto
         /\ leftMargin' = leftMargin /\ rightMargin' = rightMargin
         /\ topMargin' = topMargin /\ bottomMargin' = bottomMargin
         /\ contentW' = contentW /\ cw' = cw /\ ch' = ch /\ height' = height
         /\ Sideways' = Sideways /\ Validate(job)' = Validate(job)
         /\ Counted' = Counted /\ NoHeight' = NoHeight
  BY DEF scale, gap, sideMargin, auto, leftMargin, rightMargin, topMargin, bottomMargin, contentW,
         cw, ch, height, LengthDots, Sideways, Validate, HasContent, Counted, NoHeight

-----------------------------------------------------------------------------
\* The inductive invariant of a job that is rendered, in parts.  Kinds of
\* elements, rectangles, and the stages that place elements.
Kinds == {"text", "qr", "bars", "hri", "image"}
Rects == [kind : Kinds, x0 : Int, x1 : Int, y0 : Int, y1 : Int]
Placing == {"text", "qr", "barcode", "image"}
Stages == {"idle", "text", "qr", "barcode", "image", "rotate", "squeeze", "paste", "mirror",
           "fit", "rasterize", "done", "refused", "unfit", "internal", "panic"}
Canvases == [w : Nat, h : Int]
Working == stage \notin {"idle", "refused"}

\* The job and what is drawn of it.
DrawingInv ==
  /\ stage \in Stages /\ lines \in Seq(Size) /\ y \in Int /\ canvas \in Canvases
  /\ boxes \subseteq Rects /\ ink \subseteq Rects /\ lost \subseteq Kinds
  /\ IF Working THEN job \in PrintJobs /\ Validate(job)
     ELSE boxes = {} /\ ink = {} /\ lost = {}
  /\ FailsOnlyUnchecked

\* The places of the elements, all of them above the next one's.
BoxesInv ==
  Working =>
    /\ \A a, b \in boxes : a = b \/ Apart(a, b)
    /\ \A b \in boxes :
         /\ b.y0 >= topMargin /\ b.y1 <= ch - bottomMargin /\ b.x0 >= leftMargin
         /\ b.x1 <= leftMargin + contentW \/ (Sideways /\ b.kind = "image")
    /\ stage \in Placing => y >= topMargin /\ \A b \in boxes : b.y1 <= y

\* What is drawn is on the canvas, and nothing was cut off before.
InkInv ==
  Working => /\ \A r \in ink : Inside(r, canvas.w, canvas.h) /\ Visible(r)
             /\ Counted => lost \subseteq {"hri"}

\* How far down the content goes.
HeightInv ==
  /\ stage = "text" =>
       /\ y = topMargin => ink = {} /\ (lines = job.text \/ NoHeight)
       /\ y > topMargin => y <= ch - bottomMargin
       /\ \A r \in ink : r.y1 <= y
  /\ stage \in {"qr", "barcode", "image"} =>
       /\ y = topMargin => /\ ink = {} /\ (job.text = <<>> \/ NoHeight)
                           /\ stage # "qr" => job.qr = 0
                           /\ stage = "image" => job.barcode = 0
       /\ y > topMargin => topMargin < contentH /\ contentH <= ch - bottomMargin
       /\ \A r \in ink : r.y1 <= contentH
  /\ stage \in {"rotate", "squeeze", "paste"} =>
       topMargin < contentH /\ contentH <= ch - bottomMargin
  /\ stage = "rotate" => \A r \in ink : r.y1 <= contentH

\* The size of the canvas, from stage to stage.
CanvasInv ==
  /\ stage \in Placing \union {"rotate"} /\ ~ Sideways => canvas.w = cw
  /\ stage \in Placing => canvas.h >= 0 \/ job.top < 0
  /\ stage = "squeeze" => /\ ~ Sideways => canvas.w = cw /\ canvas.h = contentH
                          /\ contentW > 2 * sideMargin => canvas.w % scale = 0
  /\ stage = "paste" /\ ~ Sideways => canvas.w = finalW /\ canvas.h = contentH
  /\ stage \in {"mirror", "fit", "rasterize", "done"} =>
       canvas.w = finalW /\ (~ auto => canvas.h = ch)
  /\ stage \in {"mirror", "fit"} /\ auto /\ ~ Sideways => canvas.h <= ch - bottomMargin
  /\ stage \in {"rasterize", "done"} /\ auto =>
       canvas.h >= 150 * scale /\ canvas.h <= MaxLengthDots * scale

\* Bars are drawn once.
BarsInv ==
  /\ stage \in {"text", "qr", "barcode"} => \A r \in ink \union boxes : r.kind # "bars"
  /\ QuietZone

\* Pins over the label.
PinsInv ==
  stage = "done" =>
    \A p \in pins : /\ job.media.right <= p.from /\ p.to < job.media.right + job.media.dots
                    /\ p.from <= p.to /\ p.to < Pins

LayoutInv ==
  /\ DrawingInv /\ BoxesInv /\ InkInv /\ HeightInv /\ CanvasInv /\ BarsInv /\ PinsInv

\* A page of an IPP job, all of it the picture.
PageInv ==
  origin = "ipp" =>
    /\ stage \in Stages \ {"idle", "refused", "unfit", "internal", "panic"}
    /\ job.text = <<>> /\ job.qr = 0 /\ job.barcode = 0 /\ job.image.w > 0 /\ job.fit = "label"
    /\ job.top = 0 /\ job.bottom = 0 /\ job.rotate = 0 /\ ~ job.cable
    /\ stage = "text" => lines = <<>>
    /\ stage \in Placing => y = topMargin

\* Rectangles, and rectangles that are moved.
LEMMA SameRect ==
  ASSUME NEW r \in Rects, NEW s \in Rects, r.kind = s.kind, r.x0 = s.x0, r.x1 = s.x1,
         r.y0 = s.y0, r.y1 = s.y1
  PROVE  r = s
  BY DEF Rects

LEMMA RectFacts ==
  ASSUME NEW r \in Rects
  PROVE  r.x0 \in Int /\ r.x1 \in Int /\ r.y0 \in Int /\ r.y1 \in Int /\ r.kind \in Kinds
  BY DEF Rects

LEMMA MovedFacts ==
  ASSUME NEW r \in Rects, NEW a \in Int, NEW b \in Int, NEW c \in Int, NEW d \in Int
  PROVE  /\ Moved(r, a, b, c, d) \in Rects /\ Moved(r, a, b, c, d).kind = r.kind
         /\ Moved(r, a, b, c, d).x0 = a /\ Moved(r, a, b, c, d).x1 = b
         /\ Moved(r, a, b, c, d).y0 = c /\ Moved(r, a, b, c, d).y1 = d
  BY DEF Moved, Rects

\* What is cut off stays on the canvas, and what is inside is not cut off.
LEMMA CutFacts ==
  ASSUME NEW r \in Rects, NEW w \in Nat, NEW h \in Int
  PROVE  /\ Cut(r, w, h) \in Rects /\ Inside(Cut(r, w, h), w, h)
         /\ Cut(r, w, h).kind = r.kind /\ r.y0 <= Cut(r, w, h).y0 /\ Cut(r, w, h).y1 <= r.y1
         /\ 0 <= r.x0 /\ r.x1 <= w => Cut(r, w, h).x0 = r.x0 /\ Cut(r, w, h).x1 = r.x1
         /\ Inside(r, w, h) => Cut(r, w, h) = r
  <1>1. /\ Most(0, r.x0) \in Int /\ Least(w, r.x1) \in Int
        /\ Most(0, r.y0) \in Int /\ Least(h, r.y1) \in Int
    BY RectFacts DEF Most, Least
  <1>2. /\ Cut(r, w, h) \in Rects
        /\ Cut(r, w, h).kind = r.kind /\ Cut(r, w, h).x0 = Most(0, r.x0)
        /\ Cut(r, w, h).x1 = Least(w, r.x1) /\ Cut(r, w, h).y0 = Most(0, r.y0)
        /\ Cut(r, w, h).y1 = Least(h, r.y1)
    BY <1>1, MovedFacts DEF Cut
  <1>3. /\ Inside(Cut(r, w, h), w, h) /\ r.y0 <= Cut(r, w, h).y0 /\ Cut(r, w, h).y1 <= r.y1
        /\ 0 <= r.x0 /\ r.x1 <= w => Cut(r, w, h).x0 = r.x0 /\ Cut(r, w, h).x1 = r.x1
    BY <1>2, RectFacts DEF Inside, Most, Least
  <1>4. ASSUME Inside(r, w, h) PROVE Cut(r, w, h) = r
    <2>1. /\ Most(0, r.x0) = r.x0 /\ Least(w, r.x1) = r.x1
          /\ Most(0, r.y0) = r.y0 /\ Least(h, r.y1) = r.y1
      BY <1>4, RectFacts DEF Inside, Most, Least
    <2> QED BY <1>2, <2>1, SameRect
  <1> QED BY <1>2, <1>3, <1>4

\* What Drawn leaves of rectangles, and what is lost of them.
LEMMA DrawnFacts ==
  ASSUME NEW drawn \in SUBSET Rects, NEW w \in Nat, NEW h \in Int, Drawn(drawn, w, h),
         lost \subseteq Kinds
  PROVE  /\ ink' \subseteq Rects /\ lost' \subseteq Kinds
         /\ \A r \in ink' : Inside(r, w, h) /\ Visible(r)
         /\ \A r \in ink' : \E d \in drawn :
              /\ r = Cut(d, w, h) /\ r.kind = d.kind /\ d.y0 <= r.y0 /\ r.y1 <= d.y1
              /\ 0 <= d.x0 /\ d.x1 <= w => r.x0 = d.x0 /\ r.x1 = d.x1
              /\ Inside(d, w, h) => r = d
         /\ (\A d \in drawn : d.kind = "hri" \/ Inside(d, w, h)) => lost' \subseteq lost \union {"hri"}
  <1>1. /\ ink' = {c \in {Cut(r, w, h) : r \in drawn} : Visible(c)}
        /\ lost' = lost \union {r.kind : r \in {d \in drawn : Visible(d) /\ ~ Inside(d, w, h)}}
    BY DEF Drawn
  <1>2. \A d \in drawn : d.kind \in Kinds
    BY DEF Rects
  <1>3. \A r \in ink' : Visible(r) /\ \E d \in drawn : r = Cut(d, w, h)
    BY <1>1
  <1>4. lost' \subseteq Kinds
    BY <1>1, <1>2
  <1>5. (\A d \in drawn : d.kind = "hri" \/ Inside(d, w, h)) => lost' \subseteq lost \union {"hri"}
    BY <1>1
  <1> QED BY <1>3, <1>4, <1>5, CutFacts

-----------------------------------------------------------------------------
\* Where an element that is no wider than the content stands in it.
LEMMA AlignedFacts ==
  ASSUME NEW align, NEW w \in Int, NEW c \in Int, w <= c
  PROVE  AlignedX(align, w, c) \in Int /\ 0 <= AlignedX(align, w, c) /\ AlignedX(align, w, c) <= c - w
  BY DEF AlignedX

\* A quotient is no more than what it was made of, and a rounded one is not
\* either.
LEMMA QuotientBound ==
  ASSUME NEW a \in Int, NEW b \in Int, NEW c \in Nat \ {0}, a <= b * c
  PROVE  /\ a \div c \in Int /\ Rounded(a, c) \in Int /\ Ceiling(a, c) \in Int
         /\ a \div c <= b /\ Rounded(a, c) <= b /\ Ceiling(a, c) <= b
  <1>1. b * c \in Int /\ (2 * b + 1) * (2 * c) = 4 * (b * c) + 2 * c /\ (b + 1) * c = b * c + c
    OBVIOUS
  <1>2. ASSUME NEW n \in Int, NEW d \in Nat \ {0}, NEW k \in Int, n < (k + 1) * d
        PROVE  n \div d \in Int /\ n \div d <= k
    <2>1. n \div d \in Int /\ d * (n \div d) <= n
      OBVIOUS
    <2>2. ASSUME n \div d >= k + 1 PROVE FALSE
      <3>1. d * (n \div d) >= d * (k + 1)
        BY <2>1, <2>2
      <3>2. d * (k + 1) = (k + 1) * d /\ d * (k + 1) \in Int /\ d * (n \div d) \in Int
        BY <2>1
      <3> QED BY <1>2, <2>1, <3>1, <3>2
    <2> QED BY <2>1, <2>2
  <1>3. a \div c \in Int /\ a \div c <= b
    BY <1>1, <1>2
  <1>4. Rounded(a, c) \in Int /\ Rounded(a, c) <= b
    <2>1. (b + 1) * (2 * c) = 2 * (b * c) + 2 * c
      BY <1>1
    <2>2. 2 * a + c < (b + 1) * (2 * c)
      BY <1>1, <2>1
    <2>3. 2 * a + c \in Int /\ 2 * c \in Nat \ {0}
      OBVIOUS
    <2> QED BY <1>2, <2>2, <2>3 DEF Rounded
  <1>5. Ceiling(a, c) \in Int /\ Ceiling(a, c) <= b
    <2>1. a + c - 1 < (b + 1) * c
      BY <1>1
    <2> QED BY <1>2, <2>1 DEF Ceiling
  <1> QED BY <1>3, <1>4, <1>5

\* Growing the canvas.
LEMMA GrownFacts ==
  ASSUME canvas \in Canvases, NEW w \in Nat, NEW h \in Int
  PROVE  /\ Grown(w, h) \in Canvases /\ Grown(w, h).w = Most(canvas.w, w)
         /\ Grown(w, h).w >= canvas.w /\ Grown(w, h).w >= w
         /\ Grown(w, h).h >= canvas.h /\ Grown(w, h).h >= h
  BY DEF Canvases, Grown, Most

\* A rectangle has the measures it is made of.
LEMMA RectIs ==
  ASSUME NEW k \in Kinds, NEW x \in Int, NEW top \in Int, NEW w \in Int, NEW h \in Int
  PROVE  /\ Rect(k, x, top, w, h) \in Rects /\ Rect(k, x, top, w, h).kind = k
         /\ Rect(k, x, top, w, h).x0 = x /\ Rect(k, x, top, w, h).x1 = x + w
         /\ Rect(k, x, top, w, h).y0 = top /\ Rect(k, x, top, w, h).y1 = top + h
  BY DEF Rect, Rects

\* What is on the canvas was there before or has been drawn now.
OldOrOf(r, drawn) ==
  \/ r \in ink
  \/ \E d \in drawn : /\ r.kind = d.kind /\ d.y0 <= r.y0
                      /\ d.kind # "hri" => r.x0 = d.x0 /\ r.x1 = d.x1

\* What becomes of the boxes and of the ink when an element is placed.
Placed(box, drawn, w, n) ==
  /\ canvas' \in Canvases /\ canvas'.w = Most(canvas.w, w) /\ canvas'.h >= canvas.h
  /\ boxes' = boxes \union {box} /\ boxes' \subseteq Rects
  /\ \A a, b \in boxes' : a = b \/ Apart(a, b)
  /\ \A b \in boxes' :
       /\ b.y0 >= topMargin /\ b.y1 <= ch - bottomMargin /\ b.x0 >= leftMargin
       /\ b.x1 <= leftMargin + contentW \/ (Sideways /\ b.kind = "image")
       /\ b.y1 <= y + n
  /\ ink' \subseteq Rects /\ lost' \subseteq Kinds
  /\ \A r \in ink' : Inside(r, canvas'.w, canvas'.h) /\ Visible(r) /\ r.y1 <= y + n
  /\ Counted => lost' \subseteq {"hri"}
  /\ \A r \in ink' : OldOrOf(r, drawn)

LEMMA PlacedInk ==
  ASSUME NEW box, NEW drawn, NEW w, NEW n, Placed(box, drawn, w, n), NEW r \in ink'
  PROVE  \/ r \in ink
         \/ \E d \in drawn : /\ r.kind = d.kind /\ d.y0 <= r.y0
                             /\ d.kind # "hri" => r.x0 = d.x0 /\ r.x1 = d.x1
  <1>1. OldOrOf(r, drawn)
    BY DEF Placed
  <1> QED BY <1>1 DEF OldOrOf

\* An element is placed below the others, in a place that fits.
LEMMA Placement ==
  ASSUME DrawingInv, BoxesInv, InkInv, Working, stage \in Placing,
         NEW box \in Rects, NEW drawn \in SUBSET Rects, NEW w \in Nat, NEW n \in Nat,
         Place({box}, drawn, w, n), Fits(n),
         box.y0 = y, box.y1 = y + n, box.x0 >= leftMargin,
         box.x1 <= leftMargin + contentW \/ (Sideways /\ box.kind = "image"),
         \A d \in drawn : /\ y <= d.y0 /\ d.y1 <= y + n
                          /\ d.kind = "hri" \/ (0 <= d.x0 /\ d.x1 <= w),
         \A r \in ink : r.y1 <= y + n
  PROVE  Placed(box, drawn, w, n)
  <1>1. job \in PrintJobs /\ Validate(job) /\ y \in Int /\ canvas \in Canvases /\ boxes \subseteq Rects
        /\ ink \subseteq Rects /\ lost \subseteq Kinds
    BY DEF DrawingInv
  <1>2. /\ topMargin \in Int /\ bottomMargin \in Int /\ (job.top >= 0 => topMargin >= 0) /\ leftMargin \in Nat /\ contentW \in Nat
        /\ ch \in Nat
    BY <1>1, Measures
  <1>3. /\ \A a, b \in boxes : a = b \/ Apart(a, b)
        /\ \A b \in boxes :
             /\ b.y0 >= topMargin /\ b.y1 <= ch - bottomMargin /\ b.x0 >= leftMargin
             /\ b.x1 <= leftMargin + contentW \/ (Sideways /\ b.kind = "image")
             /\ b.y1 <= y
        /\ y >= topMargin /\ y + n <= ch - bottomMargin
    BY DEF BoxesInv, Fits
  <1>4. y + n \in Int
    BY <1>1, <1>2, <1>3
  <1>5. /\ canvas' = Grown(w, y + n) /\ boxes' = boxes \union {box}
        /\ Drawn(ink \union drawn, canvas'.w, canvas'.h)
    BY DEF Place
  <1>6. /\ canvas' \in Canvases /\ canvas'.w = Most(canvas.w, w)
        /\ canvas'.w >= canvas.w /\ canvas'.w >= w /\ canvas'.h >= canvas.h /\ canvas'.h >= y + n
        /\ canvas'.w \in Nat /\ canvas'.h \in Int /\ canvas.w \in Nat /\ canvas.h \in Int
    <2>1. canvas' \in Canvases => canvas'.w \in Nat /\ canvas'.h \in Int
      BY DEF Canvases
    <2>2. canvas.w \in Nat /\ canvas.h \in Int
      BY <1>1 DEF Canvases
    <2> QED BY <1>1, <1>4, <1>5, <2>1, <2>2, GrownFacts
  <1>7. \A b \in boxes : Apart(b, box) /\ Apart(box, b)
    <2> SUFFICES ASSUME NEW b \in boxes PROVE Apart(b, box) /\ Apart(box, b)
      OBVIOUS
    <2> QED BY <1>3 DEF Apart
  <1>8. \A b \in boxes : b.y1 <= y + n
    BY <1>1, <1>3, RectFacts
  <1>9. ASSUME Counted, NEW d \in ink \union drawn
        PROVE  d.kind = "hri" \/ Inside(d, canvas'.w, canvas'.h)
    <2>1. CASE d \in ink
      <3>1. Inside(d, canvas.w, canvas.h)
        BY <2>1 DEF InkInv
      <3> QED BY <1>1, <1>6, <2>1, <3>1, RectFacts DEF Inside
    <2>2. CASE d \in drawn
      <3>1. d \in Rects
        BY <2>2
      <3>2. y >= 0
        BY <1>1, <1>2, <1>3, <1>9 DEF Counted
      <3> QED BY <1>1, <1>4, <1>6, <2>2, <3>1, <3>2, RectFacts DEF Inside
    <2> QED BY <2>1, <2>2
  <1>10. \A d \in ink : Inside(d, canvas'.w, canvas'.h)
    <2> SUFFICES ASSUME NEW d \in ink PROVE Inside(d, canvas'.w, canvas'.h)
      OBVIOUS
    <2>1. Inside(d, canvas.w, canvas.h)
      BY DEF InkInv
    <2> QED BY <1>1, <1>6, <2>1, RectFacts DEF Inside
  <1>11. \A d \in ink \union drawn : d \in Rects /\ d.y1 \in Int /\ d.y1 <= y + n
    BY <1>1, RectFacts
  <1>12. /\ ink' \subseteq Rects /\ lost' \subseteq Kinds
         /\ \A r \in ink' : Inside(r, canvas'.w, canvas'.h) /\ Visible(r)
         /\ \A r \in ink' : \E d \in ink \union drawn :
              /\ r.kind = d.kind /\ d.y0 <= r.y0 /\ r.y1 <= d.y1
              /\ 0 <= d.x0 /\ d.x1 <= canvas'.w => r.x0 = d.x0 /\ r.x1 = d.x1
              /\ Inside(d, canvas'.w, canvas'.h) => r = d
         /\ (\A d \in ink \union drawn : d.kind = "hri" \/ Inside(d, canvas'.w, canvas'.h))
              => lost' \subseteq lost \union {"hri"}
    <2> DEFINE all == ink \union drawn
               cols == canvas'.w
               rows == canvas'.h
    <2>1. /\ all \in SUBSET Rects /\ cols \in Nat /\ rows \in Int /\ lost \subseteq Kinds
          /\ Drawn(all, cols, rows)
      BY <1>1, <1>5, <1>6
    <2> HIDE DEF all, cols, rows
    <2>2. /\ ink' \subseteq Rects /\ lost' \subseteq Kinds
          /\ \A r \in ink' : Inside(r, cols, rows) /\ Visible(r)
          /\ \A r \in ink' : \E d \in all :
               /\ r = Cut(d, cols, rows) /\ r.kind = d.kind /\ d.y0 <= r.y0 /\ r.y1 <= d.y1
               /\ 0 <= d.x0 /\ d.x1 <= cols => r.x0 = d.x0 /\ r.x1 = d.x1
               /\ Inside(d, cols, rows) => r = d
          /\ (\A d \in all : d.kind = "hri" \/ Inside(d, cols, rows))
               => lost' \subseteq lost \union {"hri"}
      BY <2>1, DrawnFacts
    <2> USE DEF all, cols, rows
    <2> QED BY <2>2
  <1>13. \A r \in ink' : r.y1 <= y + n
    BY <1>4, <1>11, <1>12, RectFacts
  <1>14. ASSUME Counted PROVE lost' \subseteq {"hri"}
    BY <1>9, <1>12, <1>14 DEF InkInv
  <1>15. ASSUME NEW r \in ink'
         PROVE  OldOrOf(r, drawn)
    <2>1. PICK d \in ink \union drawn :
            /\ r.kind = d.kind /\ d.y0 <= r.y0
            /\ 0 <= d.x0 /\ d.x1 <= canvas'.w => r.x0 = d.x0 /\ r.x1 = d.x1
            /\ Inside(d, canvas'.w, canvas'.h) => r = d
      BY <1>12
    <2>2. CASE d \in ink
      BY <1>10, <2>1, <2>2 DEF OldOrOf
    <2>3. CASE d \in drawn
      <3>1. d.x1 \in Int
        BY <2>3, RectFacts
      <3> QED BY <1>6, <2>1, <2>3, <3>1 DEF OldOrOf
    <2> QED BY <2>2, <2>3
  <1> QED BY <1>3, <1>5, <1>6, <1>7, <1>8, <1>1, <1>2, <1>12, <1>13, <1>14, <1>15 DEF Placed

-----------------------------------------------------------------------------
\* What the measures of a job that is being rendered are.
LEMMA Sizes ==
  ASSUME DrawingInv, Working
  PROVE  /\ job \in PrintJobs /\ Validate(job) /\ y \in Int /\ canvas.w \in Nat /\ canvas.h \in Int
         /\ scale \in {1, 2} /\ gap = 4 * scale /\ sideMargin = 4 * scale
         /\ leftMargin \in Nat /\ rightMargin \in Nat /\ topMargin \in Int /\ bottomMargin \in Int
         /\ (job.top >= 0 => topMargin >= 0) /\ (job.bottom >= 0 => bottomMargin >= 0)
         /\ contentW \in Nat /\ contentW > 0 /\ cw \in Nat /\ ch \in Nat
         /\ cw = leftMargin + contentW + rightMargin
  <1>1. job \in PrintJobs /\ Validate(job) /\ y \in Int /\ canvas \in Canvases
    BY DEF DrawingInv
  <1>2. canvas.w \in Nat /\ canvas.h \in Int
    BY <1>1 DEF Canvases
  <1> QED BY <1>1, <1>2, Measures

\* A job that cannot be rendered is given up as it is.
LEMMA FailStep ==
  ASSUME LayoutInv, Working, NEW how \in {"unfit", "internal", "panic"}, Fails(how),
         how = "internal" => job.bottom < 0 \/ NoHeight, how = "panic" => job.top < 0
  PROVE  LayoutInv'
  <1>1. stage' = how /\ UNCHANGED <<job, lines, y, canvas, boxes, ink, lost, pins>>
    BY DEF Fails
  <1>2. Working'
    BY <1>1 DEF Working
  <1>3. DrawingInv'
    BY <1>1, <1>2, MeasuresStay DEF LayoutInv, DrawingInv, Stages, FailsOnlyUnchecked, NoHeight
  <1>4. BoxesInv'
    BY <1>1, MeasuresStay DEF LayoutInv, BoxesInv, Placing
  <1>5. InkInv'
    BY <1>1, MeasuresStay DEF LayoutInv, InkInv
  <1>6. HeightInv' /\ CanvasInv' /\ BarsInv' /\ PinsInv'
    BY <1>1 DEF HeightInv, CanvasInv, BarsInv, PinsInv, QuietZone, Placing
  <1> QED BY <1>3, <1>4, <1>5, <1>6 DEF LayoutInv

\* Only a negative margin at the top makes the program panic over an element.
LEMMA PanicStep ==
  ASSUME LayoutInv, stage \in Placing, NEW n, Panics(n), Fails("panic")
  PROVE  LayoutInv'
  <1>1. Working /\ DrawingInv /\ CanvasInv
    BY DEF LayoutInv, Working, Placing
  <1>2. canvas.h \in Int /\ canvas.h < 0
    BY <1>1, Sizes DEF Panics
  <1>3. job.top < 0
    BY <1>1, <1>2 DEF CanvasInv
  <1> QED BY <1>1, <1>3, FailStep

\* The next element begins no higher than the last one ended.
LEMMA BoxesStay ==
  ASSUME BoxesInv, DrawingInv, Working, UNCHANGED <<job, boxes>>,
         stage' \notin Placing \/ (stage \in Placing /\ y' \in Int /\ y' >= y)
  PROVE  BoxesInv'
  <1>1. boxes \subseteq Rects /\ y \in Int /\ topMargin \in Int
    BY Sizes DEF DrawingInv
  <1>2. \A b \in boxes : b.y1 \in Int
    BY <1>1, RectFacts
  <1> QED BY <1>1, <1>2, MeasuresStay DEF BoxesInv

\* The job goes on.
LEMMA JobStays ==
  ASSUME DrawingInv, Working, UNCHANGED job, stage' \in Stages \ {"idle", "refused", "internal", "panic"},
         lines' \in Seq(Size), y' \in Int, canvas' \in Canvases, boxes' \subseteq Rects,
         ink' \subseteq Rects, lost' \subseteq Kinds
  PROVE  DrawingInv' /\ Working'
  <1>1. Working'
    BY DEF Working
  <1> QED BY <1>1, MeasuresStay DEF DrawingInv, FailsOnlyUnchecked

\* Placing an element keeps the order and the ink of those above it.
LEMMA PlacedKeeps ==
  ASSUME BoxesInv, DrawingInv, Working, NEW box, NEW drawn, NEW w, NEW n \in Nat,
         Placed(box, drawn, w, n), UNCHANGED job, stage \in Placing,
         stage' \in Stages \ {"idle", "refused", "internal", "panic"}, lines' \in Seq(Size),
         y' \in Int, y' >= y + n
  PROVE  DrawingInv' /\ Working' /\ BoxesInv' /\ InkInv'
  <1>1. DrawingInv' /\ Working'
    BY JobStays DEF Placed
  <1>2. BoxesInv'
    <2>1. y \in Int /\ topMargin \in Int /\ y >= topMargin
      BY Sizes DEF BoxesInv
    <2>2. \A b \in boxes' : b.y1 \in Int
      BY RectFacts DEF Placed
    <2>3. \A b \in boxes' : b.y1 <= y'
      BY <2>1, <2>2 DEF Placed
    <2> QED BY <2>1, <2>3, MeasuresStay DEF Placed, BoxesInv
  <1>3. InkInv'
    BY MeasuresStay DEF Placed, InkInv
  <1> QED BY <1>1, <1>2, <1>3

\* A line of text is placed.
LEMMA LineStep ==
  ASSUME LayoutInv, PlaceLine
  PROVE  LayoutInv'
  <1> DEFINE w == Head(lines).w * scale
             h == Head(lines).h * scale
             box == Rect("text", leftMargin + AlignedX(job.align, w, contentW), y, w, h)
  <1>1. stage = "text" /\ lines # <<>> /\ Working /\ stage \in Placing
    BY DEF PlaceLine, Working, Placing
  <1>2. /\ DrawingInv /\ BoxesInv /\ InkInv /\ HeightInv /\ CanvasInv /\ BarsInv
    BY DEF LayoutInv
  <1>3. CASE w > contentW \/ ~ Fits(h)
    <2>1. Fails("unfit")
      BY <1>3 DEF PlaceLine
    <2> QED BY <1>1, <2>1, FailStep
  <1>4. CASE ~ (w > contentW \/ ~ Fits(h)) /\ Panics(h)
    <2>1. Fails("panic")
      BY <1>4 DEF PlaceLine
    <2> QED BY <1>1, <2>1, <1>4, PanicStep
  <1>5. CASE ~ (w > contentW \/ ~ Fits(h)) /\ ~ Panics(h)
    <2>1. /\ \E drawn \in {{}, {box}} : Place({box}, drawn, cw, h)
          /\ y' = y + h /\ lines' = Tail(lines) /\ stage' = stage
      BY <1>5 DEF PlaceLine
    <2>2. PICK drawn \in {{}, {box}} : Place({box}, drawn, cw, h)
      BY <2>1
    <2>3. lines \in Seq(Size) /\ Head(lines) \in Size /\ Tail(lines) \in Seq(Size)
      BY <1>1, <1>2 DEF DrawingInv
    <2>4. Head(lines).w \in Nat /\ Head(lines).h \in Nat
      BY <2>3 DEF Size
    <2>5. w \in Nat /\ h \in Nat /\ (h = 0 => Head(lines).h = 0)
      <3>1. CASE scale = 1
        BY <2>4, <3>1
      <3>2. CASE scale = 2
        BY <2>4, <3>2
      <3> QED BY <1>1, <1>2, <3>1, <3>2, Sizes
    <2>6. UNCHANGED <<job, pins>>
      BY <2>2 DEF Place
    <2>7. w <= contentW /\ Fits(h)
      BY <1>1, <1>2, <1>5, <2>5, Sizes
    <2> HIDE DEF w, h
    <2>8. /\ box \in Rects /\ box.kind = "text" /\ box.y0 = y /\ box.y1 = y + h
          /\ box.x0 >= leftMargin /\ box.x1 <= leftMargin + contentW
          /\ 0 <= box.x0 /\ box.x1 <= cw
      <3> DEFINE x == AlignedX(job.align, w, contentW)
      <3>1. job.align \in {"left", "center", "right"} /\ contentW \in Nat
        BY <1>1, <1>2, Sizes, JobFacts
      <3>2. x \in Int /\ 0 <= x /\ x <= contentW - w
        BY <2>5, <2>7, <3>1, AlignedFacts
      <3> HIDE DEF x
      <3>3. leftMargin \in Nat /\ y \in Int /\ "text" \in Kinds
        BY <1>1, <1>2, Sizes DEF Kinds
      <3>4. /\ box \in Rects /\ box.kind = "text" /\ box.y0 = y /\ box.y1 = y + h
            /\ box.x0 = leftMargin + x /\ box.x1 = leftMargin + x + w
        BY <2>5, <3>2, <3>3, RectIs DEF x
      <3> HIDE DEF box
      <3> QED BY <1>1, <1>2, <2>5, <3>1, <3>2, <3>3, <3>4, Sizes
    <2> HIDE DEF box
    <2>9. /\ y >= topMargin /\ topMargin \in Int /\ y \in Int
          /\ \A r \in ink : r.y1 \in Int /\ r.y1 <= y
      BY <1>1, <1>2, Sizes, RectFacts DEF BoxesInv, HeightInv, DrawingInv
    <2>10. drawn \in SUBSET Rects /\ \A d \in drawn : d = box
      BY <2>2, <2>8
    <2>11. Placed(box, drawn, cw, h)
      <3>1. \A d \in drawn : y <= d.y0 /\ d.y1 <= y + h /\ (d.kind = "hri" \/ (0 <= d.x0 /\ d.x1 <= cw))
        BY <2>5, <2>8, <2>9, <2>10
      <3>2. \A r \in ink : r.y1 <= y + h
        BY <2>5, <2>9
      <3>3. cw \in Nat
        BY <1>1, <1>2, Sizes
      <3> QED BY <1>1, <1>2, <2>2, <2>5, <2>7, <2>8, <2>10, <3>1, <3>2, <3>3, Placement
    <2>12. DrawingInv' /\ Working' /\ BoxesInv' /\ InkInv'
      BY <1>1, <1>2, <2>1, <2>3, <2>5, <2>6, <2>9, <2>11, PlacedKeeps DEF Stages
    <2>15. HeightInv'
      <3>1. y' >= topMargin /\ y' <= ch - bottomMargin /\ y' \in Int
        BY <2>1, <2>5, <2>7, <2>9 DEF Fits
      <3>2. ASSUME y' = topMargin PROVE ink' = {} /\ NoHeight
        <4>1. h = 0 /\ y = topMargin
          BY <2>1, <2>5, <2>9, <3>2
        <4>2. ink = {} /\ (lines = job.text \/ NoHeight)
          BY <1>1, <1>2, <4>1 DEF HeightInv
        <4>3. ASSUME lines = job.text PROVE NoHeight
          <5>1. 1 \in DOMAIN job.text /\ Head(lines) = job.text[1]
            BY <1>1, <2>3, <4>3
          <5> QED BY <2>5, <4>1, <5>1 DEF NoHeight
        <4>4. ASSUME NEW r \in ink' PROVE FALSE
          <5>1. r \in Rects /\ r.y1 <= y + h /\ r.y0 < r.y1
            BY <2>11 DEF Placed, Visible
          <5>2. r \in ink \/ \E d \in drawn : r.kind = d.kind /\ d.y0 <= r.y0
            BY <2>11, PlacedInk
          <5>3. PICK d \in drawn : d.y0 <= r.y0
            BY <4>2, <5>2
          <5>4. y <= r.y0
            BY <2>8, <2>10, <5>3
          <5> QED BY <2>9, <4>1, <5>1, <5>4, RectFacts
        <4> QED BY <4>2, <4>3, <4>4
      <3>3. topMargin' = topMargin /\ ch' = ch /\ bottomMargin' = bottomMargin /\ NoHeight' = NoHeight
        BY <2>6, MeasuresStay
      <3>4. \A r \in ink' : r.y1 <= y'
        BY <2>1, <2>11 DEF Placed
      <3> QED BY <1>1, <2>1, <3>1, <3>2, <3>3, <3>4 DEF HeightInv
    <2>16. CanvasInv'
      <3>1. ~ Sideways => canvas'.w = cw
        BY <1>1, <1>2, <2>11, Sizes DEF CanvasInv, Most, Placed
      <3>2. canvas'.h >= 0 \/ job.top < 0
        <4>1. canvas'.h >= canvas.h /\ canvas'.h \in Int /\ canvas.h \in Int
          BY <1>1, <1>2, <2>11, Sizes DEF Placed, Canvases
        <4> QED BY <1>1, <1>2, <4>1 DEF CanvasInv
      <3> QED BY <1>1, <2>1, <2>6, <3>1, <3>2, MeasuresStay DEF CanvasInv
    <2>17. BarsInv'
      <3>1. \A r \in ink' \union boxes' : r.kind # "bars"
        <4>1. \A r \in ink' : r \in ink \/ \E d \in drawn : r.kind = d.kind
          BY <2>11, PlacedInk
        <4>2. boxes' = boxes \union {box}
          BY <2>11 DEF Placed
        <4> QED BY <1>1, <1>2, <2>8, <2>10, <4>1, <4>2 DEF BarsInv
      <3> QED BY <1>1, <2>1, <3>1 DEF BarsInv, QuietZone
    <2>18. PinsInv'
      BY <1>1, <2>1 DEF PinsInv
    <2> QED BY <2>12, <2>15, <2>16, <2>17, <2>18 DEF LayoutInv
  <1> QED BY <1>3, <1>5, <1>4

-----------------------------------------------------------------------------
\* Nothing is drawn in a step.
LEMMA NothingDrawn ==
  ASSUME DrawingInv, BoxesInv, InkInv, Working,
         UNCHANGED <<job, lines, canvas, boxes, ink, lost>>, y' \in Int, y' >= y,
         stage' \in Stages \ {"idle", "refused", "internal", "panic"}, stage' \in Placing => stage \in Placing
  PROVE  DrawingInv' /\ Working' /\ BoxesInv' /\ InkInv'
  <1>1. DrawingInv' /\ Working'
    BY JobStays DEF DrawingInv
  <1>2. BoxesInv'
    BY BoxesStay
  <1>3. InkInv'
    BY MeasuresStay DEF InkInv
  <1> QED BY <1>1, <1>2, <1>3

\* The text ends, with a gap below it if there was any.
LEMMA TextEndStep ==
  ASSUME LayoutInv, EndText
  PROVE  LayoutInv'
  <1>1. /\ stage = "text" /\ lines = <<>> /\ y' = AfterText /\ stage' = "qr"
        /\ UNCHANGED <<job, lines, canvas, boxes, ink, lost, pins>>
    BY DEF EndText
  <1>2. /\ DrawingInv /\ BoxesInv /\ InkInv /\ HeightInv /\ CanvasInv /\ BarsInv /\ Working
    BY <1>1 DEF LayoutInv, Working
  <1>3. /\ y \in Int /\ topMargin \in Int /\ gap \in Nat /\ y >= topMargin
    BY <1>1, <1>2, Sizes DEF BoxesInv, Placing
  <1>4. y' \in Int /\ y' >= y /\ (y > topMargin => y' = y + gap) /\ (y = topMargin => y' = topMargin)
    BY <1>1, <1>3 DEF AfterText
  <1>5. DrawingInv' /\ Working' /\ BoxesInv' /\ InkInv'
    BY <1>1, <1>2, <1>4, NothingDrawn DEF Stages, Placing
  <1>6. HeightInv'
    <2>1. topMargin' = topMargin /\ gap' = gap /\ ch' = ch /\ bottomMargin' = bottomMargin
      BY <1>1, MeasuresStay
    <2>2. CASE y = topMargin
      <3>1. ink' = {} /\ (job'.text = <<>> \/ NoHeight') /\ y' = topMargin'
        BY <1>1, <1>2, <1>4, <2>1, <2>2, MeasuresStay DEF HeightInv
      <3> QED BY <1>1, <2>1, <3>1, <1>3 DEF HeightInv
    <2>3. CASE y > topMargin
      <3>1. contentH' = y
        BY <1>3, <1>4, <2>1, <2>3 DEF contentH
      <3>2. y <= ch - bottomMargin /\ \A r \in ink : r.y1 <= y
        BY <1>1, <1>2, <2>3 DEF HeightInv
      <3>3. y' > topMargin'
        BY <1>3, <1>4, <2>1, <2>3
      <3> QED BY <1>1, <1>3, <2>1, <2>3, <3>1, <3>2, <3>3 DEF HeightInv
    <2> QED BY <1>3, <2>2, <2>3
  <1>7. CanvasInv'
    BY <1>1, <1>2, MeasuresStay DEF CanvasInv, Placing
  <1>8. BarsInv' /\ PinsInv'
    BY <1>1, <1>2 DEF BarsInv, QuietZone, PinsInv
  <1> QED BY <1>5, <1>6, <1>7, <1>8 DEF LayoutInv

\* An element that the job does not have.
LEMMA SkipStep ==
  ASSUME LayoutInv, Skip,
         \/ stage = "qr" /\ stage' = "barcode" /\ job.qr = 0
         \/ stage = "barcode" /\ stage' = "image" /\ job.barcode = 0
         \/ stage = "image" /\ stage' = "rotate" /\ y > topMargin
  PROVE  LayoutInv'
  <1>1. UNCHANGED <<job, lines, y, canvas, boxes, ink, lost, pins>>
    BY DEF Skip
  <1>2. /\ DrawingInv /\ BoxesInv /\ InkInv /\ HeightInv /\ CanvasInv /\ BarsInv /\ Working
    BY <1>1 DEF LayoutInv, Working
  <1>3. y \in Int
    BY <1>2, Sizes
  <1>4. DrawingInv' /\ Working' /\ BoxesInv' /\ InkInv'
    BY <1>1, <1>2, <1>3, NothingDrawn DEF Stages, Placing
  <1>5. contentH' = contentH
    BY <1>1, MeasuresStay DEF contentH
  <1>6. HeightInv'
    BY <1>1, <1>2, <1>5, MeasuresStay DEF HeightInv
  <1>7. CanvasInv'
    BY <1>1, <1>2, MeasuresStay DEF CanvasInv, Placing
  <1>8. BarsInv'
    <2>1. CASE stage \in {"qr", "barcode"}
      <3>1. \A r \in ink' \union boxes' : r.kind # "bars"
        BY <1>1, <1>2, <2>1 DEF BarsInv
      <3> QED BY <3>1 DEF BarsInv, QuietZone
    <2>2. CASE stage = "image"
      BY <1>1, <1>2, <2>2 DEF BarsInv, QuietZone
    <2> QED BY <2>1, <2>2
  <1>9. PinsInv'
    BY <1>1 DEF PinsInv
  <1> QED BY <1>4, <1>6, <1>7, <1>8, <1>9 DEF LayoutInv

\* What all elements have in common: the place fits below the others.
LEMMA BelowTheOthers ==
  ASSUME LayoutInv, stage \in {"qr", "barcode", "image"}
  PROVE  /\ Working /\ stage \in Placing /\ y \in Int /\ topMargin \in Int /\ y >= topMargin
         /\ gap \in Nat /\ \A r \in ink : r.y1 \in Int /\ r.y1 <= y
  <1>1. Working /\ stage \in Placing /\ DrawingInv /\ BoxesInv /\ HeightInv
    BY DEF LayoutInv, Working, Placing
  <1>2. y \in Int /\ topMargin \in Int /\ gap \in Nat /\ y >= topMargin
    BY <1>1, Sizes DEF BoxesInv
  <1>3. \A r \in ink : r.y1 \in Int /\ r.y1 <= contentH
    BY <1>1, RectFacts DEF HeightInv, DrawingInv
  <1> QED BY <1>1, <1>2, <1>3 DEF contentH

\* The content then ends with the element.
LEMMA PlacedHeight ==
  ASSUME LayoutInv, stage \in {"qr", "barcode", "image"}, NEW box, NEW drawn, NEW w, NEW n \in Nat,
         Placed(box, drawn, w, n), Fits(n), n > 0, UNCHANGED job, y' = y + n + gap,
         stage' \in {"barcode", "image", "rotate"}
  PROVE  HeightInv'
  <1>1. y \in Int /\ topMargin \in Int /\ y >= topMargin /\ gap \in Nat
    BY BelowTheOthers
  <1>2. topMargin' = topMargin /\ gap' = gap /\ ch' = ch /\ bottomMargin' = bottomMargin
    BY MeasuresStay
  <1>3. contentH' = y + n
    BY <1>1, <1>2 DEF contentH
  <1>4. y' > topMargin /\ y + n > topMargin /\ y + n <= ch - bottomMargin
    BY <1>1 DEF Fits
  <1>5. \A r \in ink' : r.y1 <= y + n
    BY DEF Placed
  <1> QED BY <1>1, <1>2, <1>3, <1>4, <1>5 DEF HeightInv

\* The canvas is as long as what stands on it.
LEMMA PlacedCanvas ==
  ASSUME LayoutInv, stage \in Placing, NEW box, NEW drawn, NEW w \in Nat, NEW n,
         Placed(box, drawn, w, n), UNCHANGED job, stage' \in Placing \union {"rotate"},
         ~ Sideways => w = cw
  PROVE  CanvasInv'
  <1>1. Working /\ DrawingInv /\ CanvasInv
    BY DEF LayoutInv, Working, Placing
  <1>2. ~ Sideways => canvas'.w = cw
    BY <1>1, Sizes DEF CanvasInv, Most, Placed
  <1>3. canvas'.h >= 0 \/ job.top < 0
    <2>1. canvas'.h >= canvas.h /\ canvas'.h \in Int /\ canvas.h \in Int
      BY <1>1, Sizes DEF Placed, Canvases
    <2> QED BY <1>1, <2>1 DEF CanvasInv
  <1> QED BY <1>2, <1>3, MeasuresStay DEF CanvasInv, Placing

\* The symbol stands inside its place.
LEMMA QRInside ==
  ASSUME NEW box \in Rects, NEW size \in Nat, box.x1 = box.x0 + size, NEW n \in Nat \ {0}
  PROVE  LET q == QRInk(box, n)
         IN  /\ q \in Rects /\ q.kind = "qr" /\ box.x0 <= q.x0 /\ q.x1 <= box.x0 + size
             /\ box.y0 <= q.y0 /\ q.y1 <= box.y0 + size
  <1> DEFINE a == (size * 4) \div (n + 8)
             b == (size * (n + 4)) \div (n + 8)
  <1>1. a \in Nat /\ b \in Int /\ b <= size
    <2>1. size * 4 \in Nat /\ n + 8 \in Nat \ {0}
      OBVIOUS
    <2>2. a \in Nat
      BY <2>1, DivBounds
    <2> DEFINE p == size * (n + 4)
               d == n + 8
    <2>3. p \in Int /\ size \in Int /\ d \in Nat \ {0} /\ p <= size * d
      OBVIOUS
    <2> HIDE DEF p, d
    <2>4. p \div d \in Int /\ p \div d <= size
      BY <2>3, QuotientBound, Zenon
    <2> USE DEF p, d
    <2> QED BY <2>2, <2>4
  <1>2. box.x0 \in Int /\ box.y0 \in Int /\ box.x1 \in Int
    BY RectFacts
  <1>3. box.x1 - box.x0 = size
    BY <1>2
  <1>4. QRInk(box, n) = [kind |-> "qr", x0 |-> box.x0 + a, x1 |-> box.x0 + b,
                         y0 |-> box.y0 + a, y1 |-> box.y0 + b]
    BY <1>3 DEF QRInk
  <1> HIDE DEF a, b
  <1> QED BY <1>1, <1>2, <1>4 DEF Rects, Kinds

\* A QR code is placed.
LEMMA QRStep ==
  ASSUME LayoutInv, PlaceQR
  PROVE  LayoutInv'
  <1> DEFINE size == Least(contentW - 2 * sideMargin, MMToDots(300) * scale)
             box == Rect("qr", leftMargin + AlignedX(job.align, size, contentW), y, size, size)
             drawn == {QRInk(box, job.qr)}
  <1>1. stage = "qr"
    BY DEF PlaceQR
  <1>2. /\ DrawingInv /\ BoxesInv /\ InkInv /\ HeightInv /\ CanvasInv /\ BarsInv
    BY DEF LayoutInv
  <1>3. /\ Working /\ stage \in Placing /\ y \in Int /\ topMargin \in Int /\ y >= topMargin
        /\ gap \in Nat /\ \A r \in ink : r.y1 \in Int /\ r.y1 <= y
    BY <1>1, BelowTheOthers
  <1>4. CASE job.qr = 0
    <2>1. stage' = "barcode" /\ Skip
      BY <1>4 DEF PlaceQR
    <2> QED BY <1>1, <1>4, <2>1, SkipStep
  <1>5. CASE job.qr # 0 /\ (size < 21 \/ ~ Fits(size))
    <2>1. Fails("unfit")
      BY <1>5 DEF PlaceQR
    <2> QED BY <1>3, <2>1, FailStep
  <1>6. CASE job.qr # 0 /\ ~ (size < 21 \/ ~ Fits(size)) /\ Panics(size)
    <2>1. Fails("panic")
      BY <1>6 DEF PlaceQR
    <2> QED BY <1>3, <1>6, <2>1, PanicStep
  <1>7. CASE job.qr # 0 /\ ~ (size < 21 \/ ~ Fits(size)) /\ ~ Panics(size)
    <2>1. /\ Place({box}, drawn, cw, size)
          /\ y' = y + size + gap /\ stage' = "barcode" /\ lines' = lines
      BY <1>7 DEF PlaceQR
    <2>2. UNCHANGED <<job, pins>>
      BY <2>1 DEF Place
    <2>3. contentW \in Nat /\ cw \in Nat /\ leftMargin \in Nat /\ rightMargin \in Nat
          /\ sideMargin \in Nat /\ cw = leftMargin + contentW + rightMargin
      BY <1>2, <1>3, Sizes
    <2>4. size \in Nat /\ size > 0 /\ size <= contentW /\ Fits(size)
      <3>1. MMToDots(300) * scale \in Nat
        BY <1>2, <1>3, Sizes, DotsFacts
      <3> HIDE DEF box, drawn
      <3>2. size \in Int /\ size >= 21
        BY <1>7, <2>3, <3>1 DEF Least
      <3>3. size <= contentW
        BY <2>3, <3>1 DEF Least
      <3> QED BY <1>7, <3>2, <3>3
    <2> HIDE DEF size
    <2>5. /\ box \in Rects /\ box.kind = "qr" /\ box.y0 = y /\ box.y1 = y + size
          /\ box.x0 >= leftMargin /\ box.x1 <= leftMargin + contentW
          /\ 0 <= box.x0 /\ box.x1 <= cw /\ box.x1 = box.x0 + size /\ box.x0 \in Int
      <3> DEFINE x == AlignedX(job.align, size, contentW)
      <3>1. x \in Int /\ 0 <= x /\ x <= contentW - size
        BY <2>3, <2>4, AlignedFacts
      <3> HIDE DEF x
      <3>2. "qr" \in Kinds
        BY DEF Kinds
      <3>3. /\ box \in Rects /\ box.kind = "qr" /\ box.y0 = y /\ box.y1 = y + size
            /\ box.x0 = leftMargin + x /\ box.x1 = leftMargin + x + size
        BY <1>3, <2>3, <2>4, <3>1, <3>2, RectIs DEF x
      <3> HIDE DEF box
      <3> QED BY <2>3, <2>4, <3>1, <3>3
    <2> HIDE DEF box
    <2>6. job.qr \in Nat \ {0}
      BY <1>2, <1>3, <1>7, Sizes, JobFacts
    <2>7. \A d \in drawn : /\ d \in Rects /\ d.kind = "qr" /\ box.x0 <= d.x0
                           /\ d.x1 <= box.x0 + size /\ box.y0 <= d.y0 /\ d.y1 <= box.y0 + size
      BY <2>4, <2>5, <2>6, QRInside
    <2> HIDE DEF drawn
    <2>8. \A d \in drawn : y <= d.y0 /\ d.y1 <= y + size /\ (d.kind = "hri" \/ (0 <= d.x0 /\ d.x1 <= cw))
      BY <1>3, <2>3, <2>4, <2>5, <2>7, RectFacts
    <2>9. Placed(box, drawn, cw, size)
      <3>1. \A r \in ink : r.y1 <= y + size
        BY <1>3, <2>4
      <3>2. drawn \in SUBSET Rects
        BY <2>7
      <3> QED BY <1>2, <1>3, <2>1, <2>3, <2>4, <2>5, <2>8, <3>1, <3>2, Placement
    <2>10. y' \in Int /\ y' >= y + size
      BY <1>3, <2>1, <2>4
    <2>11. lines' \in Seq(Size)
      BY <1>2, <2>1 DEF DrawingInv
    <2>12. DrawingInv' /\ Working' /\ BoxesInv' /\ InkInv'
      BY <1>2, <1>3, <2>1, <2>2, <2>4, <2>9, <2>10, <2>11, PlacedKeeps DEF Stages
    <2>13. HeightInv'
      BY <1>1, <2>1, <2>2, <2>4, <2>9, PlacedHeight
    <2>14. CanvasInv'
      BY <1>3, <2>1, <2>2, <2>3, <2>9, PlacedCanvas DEF Placing
    <2>15. BarsInv'
      <3>1. \A r \in ink' \union boxes' : r.kind # "bars"
        <4>1. \A r \in ink' : r \in ink \/ \E d \in drawn : r.kind = d.kind
          BY <2>9, PlacedInk
        <4>2. boxes' = boxes \union {box}
          BY <2>9 DEF Placed
        <4> QED BY <1>1, <1>2, <2>5, <2>7, <4>1, <4>2 DEF BarsInv
      <3> QED BY <2>1, <3>1 DEF BarsInv, QuietZone
    <2>16. PinsInv'
      BY <2>1 DEF PinsInv
    <2> QED BY <2>12, <2>13, <2>14, <2>15, <2>16 DEF LayoutInv
  <1> QED BY <1>4, <1>5, <1>7, <1>6

-----------------------------------------------------------------------------
\* A quotient is a whole number.
LEMMA WholeQuotient ==
  ASSUME NEW m \in Nat \ {0}, NEW k \in Nat
  PROVE  (m * k) \div m = k
  OBVIOUS

\* Where the bars stand in their place, and what is left on both sides.
LEMMA BarsInside ==
  ASSUME NEW total \in Int, NEW m \in Nat \ {0}, BarWidth(total, m) >= m
  PROVE  LET dots == ModuleDots(total, m)
             from == Quiet(total, m) + BarsInset(total, m)
         IN  /\ total \in Nat /\ total > 0 /\ BarWidth(total, m) \in Int
             /\ dots \in Nat /\ dots >= 1 /\ from \in Nat
             /\ Quiet(total, m) \in Int /\ BarsInset(total, m) \in Int
             /\ from >= QuietModules * dots
             /\ total - (from + m * dots) >= QuietModules * dots /\ m * dots \in Nat
  <1> DEFINE width == BarWidth(total, m)
             dots == ModuleDots(total, m)
             quiet == Quiet(total, m)
             inset == BarsInset(total, m)
  <1>1. total > 0
    <2>1. ASSUME total <= 0 PROVE FALSE
      <3> DEFINE p == total * m
                 d == m + 2 * QuietModules
      <3>1. p \in Int /\ d \in Nat \ {0} /\ p <= 0 * d /\ 0 \in Int
        <4>1. total * m <= 0
          BY <2>1
        <4> QED BY <4>1 DEF QuietModules
      <3> HIDE DEF p, d
      <3>2. p \div d <= 0
        BY <3>1, QuotientBound, Zenon
      <3>3. BarWidth(total, m) = p \div d
        BY DEF BarWidth, p, d
      <3> QED BY <3>1, <3>2, <3>3
    <2> QED BY <2>1
  <1>2. total \in Nat
    BY <1>1
  <1>3. dots >= 1 /\ inset >= 0 /\ quiet >= QuietModules * dots
    BY <1>2, QuietEnough
  <1>4. width \in Nat
    <2>1. total * m \in Nat /\ m + 2 * QuietModules \in Nat \ {0}
      BY <1>2 DEF QuietModules
    <2> QED BY <2>1, DivBounds DEF BarWidth
  <1>5. dots \in Nat /\ m * dots <= width
    BY <1>4, DivBounds DEF ModuleDots
  <1> DEFINE k == m * dots
  <1>6. k \in Nat
    BY <1>5
  <1>7. quiet = (total - width) \div 2 /\ inset = (width - k) \div 2
    BY DEF Quiet, BarsInset
  <1> HIDE DEF width, dots, quiet, inset, k
  <1>8. k <= width
    BY <1>5 DEF k
  <1>9. quiet \in Int /\ inset \in Int /\ 2 * quiet <= total - width /\ 2 * inset <= width - k
    BY <1>2, <1>4, <1>6, <1>7
  <1>10. /\ quiet + inset \in Nat /\ quiet + inset >= 10 * dots
         /\ total - (quiet + inset + k) >= 10 * dots
    BY <1>2, <1>3, <1>4, <1>5, <1>6, <1>8, <1>9 DEF QuietModules
  <1> QED BY <1>1, <1>2, <1>3, <1>4, <1>5, <1>6, <1>9, <1>10 DEF k, width, dots, quiet, inset, QuietModules

\* A barcode is placed, with its quiet zones and the text below it.
LEMMA BarcodeStep ==
  ASSUME LayoutInv, PlaceBarcode
  PROVE  LayoutInv'
  <1> DEFINE barH == MMToDots(100) * scale
             need == barH + IF job.hri > 0 THEN hriH + 2 * scale ELSE 0
             total == contentW - 2 * sideMargin
             barW == BarWidth(total, job.barcode)
             left == leftMargin + AlignedX(job.align, total, contentW)
             x == left + Quiet(total, job.barcode)
             box == Rect("bars", left, y, total, need)
             bars == Rect("bars", x + BarsInset(total, job.barcode), y,
                          job.barcode * ModuleDots(total, job.barcode), barH)
             hri == Rect("hri", x + Half(barW - job.hri * scale), y + barH + 2 * scale,
                         job.hri * scale, hriH)
             drawn == {bars} \union IF job.hri > 0 THEN {hri} ELSE {}
  <1>1. stage = "barcode"
    BY DEF PlaceBarcode
  <1>2. /\ DrawingInv /\ BoxesInv /\ InkInv /\ HeightInv /\ CanvasInv /\ BarsInv
    BY DEF LayoutInv
  <1>3. /\ Working /\ stage \in Placing /\ y \in Int /\ topMargin \in Int /\ y >= topMargin
        /\ gap \in Nat /\ \A r \in ink : r.y1 \in Int /\ r.y1 <= y
    BY <1>1, BelowTheOthers
  <1>4. CASE job.barcode = 0
    <2>1. stage' = "image" /\ Skip
      BY <1>4 DEF PlaceBarcode
    <2> QED BY <1>1, <1>4, <2>1, SkipStep
  <1>5. CASE job.barcode # 0 /\ (~ Fits(need) \/ (~ Panics(need) /\ barW < job.barcode))
    <2>1. Fails("unfit")
      BY <1>5 DEF PlaceBarcode
    <2> QED BY <1>3, <2>1, FailStep
  <1>6. CASE job.barcode # 0 /\ Fits(need) /\ Panics(need)
    <2>1. Fails("panic")
      BY <1>6 DEF PlaceBarcode
    <2> QED BY <1>3, <1>6, <2>1, PanicStep
  <1>7. CASE job.barcode # 0 /\ Fits(need) /\ ~ Panics(need) /\ ~ (barW < job.barcode)
    <2>1. /\ Place({box}, drawn, cw, need)
          /\ y' = y + need + gap /\ stage' = "image" /\ lines' = lines
      BY <1>7 DEF PlaceBarcode
    <2>2. UNCHANGED <<job, pins>>
      BY <2>1 DEF Place
    <2>3. contentW \in Nat /\ cw \in Nat /\ leftMargin \in Nat /\ rightMargin \in Nat
          /\ sideMargin \in Nat /\ cw = leftMargin + contentW + rightMargin
          /\ scale \in {1, 2} /\ job.barcode \in Nat \ {0} /\ job.hri \in Nat
      BY <1>2, <1>3, <1>7, Sizes, JobFacts
    <2>4. barH \in Nat /\ barH > 0 /\ hriH \in Nat /\ job.hri * scale \in Nat /\ 2 * scale \in Nat
      <3>1. barH = 118 * scale /\ hriH = (35 * scale * 6) \div 5
        BY DotsFacts DEF hriH
      <3>2. CASE scale = 1
        BY <2>3, <3>1, <3>2
      <3>3. CASE scale = 2
        BY <2>3, <3>1, <3>3
      <3> QED BY <2>3, <3>2, <3>3
    <2> HIDE DEF barH
    <2>5. need \in Nat /\ need >= barH /\ need > 0 /\ (job.hri > 0 => need = barH + 2 * scale + hriH)
          /\ Fits(need)
      BY <1>7, <2>3, <2>4
    <2> HIDE DEF need
    <2>6. total \in Int /\ total <= contentW
      BY <2>3
    <2> HIDE DEF total
    <2> DEFINE dots == ModuleDots(total, job.barcode)
               from == Quiet(total, job.barcode) + BarsInset(total, job.barcode)
               wide == job.barcode * dots
    <2>7. /\ total \in Nat /\ total > 0 /\ barW \in Int /\ dots \in Nat /\ dots >= 1 /\ from \in Nat
          /\ Quiet(total, job.barcode) \in Int /\ BarsInset(total, job.barcode) \in Int
          /\ from >= QuietModules * dots
          /\ total - (from + wide) >= QuietModules * dots /\ wide \in Nat
      <3>1. barW >= job.barcode
        <4>1. total * job.barcode \in Int /\ job.barcode + 2 * QuietModules \in Nat \ {0}
          BY <2>3, <2>6 DEF QuietModules
        <4>2. \A p \in Int, d \in Nat \ {0} : p \div d \in Int
          OBVIOUS
        <4>3. barW \in Int
          BY <4>1, <4>2 DEF BarWidth
        <4> HIDE DEF barW, box, drawn, need
        <4> QED BY <1>7, <2>3, <4>3
      <3> HIDE DEF box, drawn
      <3> QED BY <2>3, <2>6, <3>1, BarsInside
    <2> DEFINE a == AlignedX(job.align, total, contentW)
    <2>8. a \in Int /\ 0 <= a /\ a <= contentW - total
      BY <2>3, <2>6, <2>7, AlignedFacts
    <2>9. left \in Nat /\ left >= leftMargin /\ left + total <= leftMargin + contentW /\ left + total <= cw
      BY <2>3, <2>6, <2>7, <2>8
    <2>10. "bars" \in Kinds /\ "hri" \in Kinds
      BY DEF Kinds
    <2> HIDE DEF left
    <2>11. /\ box \in Rects /\ box.kind = "bars" /\ box.x0 = left /\ box.x1 = left + total
           /\ box.y0 = y /\ box.y1 = y + need
      BY <1>3, <2>5, <2>7, <2>9, <2>10, RectIs
    <2>12. /\ bars \in Rects /\ bars.kind = "bars" /\ bars.x0 = left + from
           /\ bars.x1 = left + from + wide /\ bars.y0 = y /\ bars.y1 = y + barH
      <3>1. x + BarsInset(total, job.barcode) = left + from /\ left + from \in Int
        BY <2>7, <2>9
      <3>2. bars = Rect("bars", left + from, y, wide, barH)
        BY <3>1
      <3> HIDE DEF bars, from, wide
      <3> QED BY <1>3, <2>4, <2>7, <2>10, <3>1, <3>2, RectIs
    <2>13. /\ hri \in Rects /\ hri.kind = "hri" /\ hri.y0 = y + barH + 2 * scale
           /\ hri.y1 = y + barH + 2 * scale + hriH
      <3> DEFINE n == barW - job.hri * scale
      <3>1. n \in Int /\ x \in Int
        BY <2>4, <2>7, <2>9
      <3>2. Half(n) \in Int
        <4> HIDE DEF n
        <4> QED BY <3>1 DEF Half
      <3> HIDE DEF n
      <3>3. x + Half(n) \in Int /\ y + barH + 2 * scale \in Int
        BY <1>3, <2>4, <3>1, <3>2
      <3>4. hri = Rect("hri", x + Half(n), y + barH + 2 * scale, job.hri * scale, hriH)
        BY DEF n
      <3> HIDE DEF hri, x
      <3>5. job.hri * scale \in Int /\ hriH \in Int
        BY <2>4
      <3> QED BY <2>10, <3>3, <3>4, <3>5, RectIs
    <2> HIDE DEF box, bars, hri, from, wide, x, barW, dots
    <2>14. \A d \in drawn : d = bars \/ (d = hri /\ job.hri > 0)
      OBVIOUS
    <2> HIDE DEF drawn
    <2>15. ASSUME NEW d \in drawn
           PROVE  /\ y <= d.y0 /\ d.y1 <= y + need /\ d \in Rects
                  /\ d.kind = "hri" \/ (0 <= d.x0 /\ d.x1 <= cw)
      <3>1. CASE d = bars
        <4>1. left + from + wide <= left + total
          BY <2>7, <2>9 DEF QuietModules
        <4> QED BY <1>3, <2>3, <2>4, <2>5, <2>7, <2>9, <2>12, <3>1, <4>1
      <3>2. CASE d = hri /\ job.hri > 0
        BY <1>3, <2>4, <2>5, <2>13, <3>2
      <3> QED BY <2>14, <3>1, <3>2
    <2>16. Placed(box, drawn, cw, need)
      <3>1. \A r \in ink : r.y1 <= y + need
        BY <1>3, <2>5
      <3>2. drawn \in SUBSET Rects
        BY <2>15
      <3>3. box.x0 >= leftMargin /\ box.x1 <= leftMargin + contentW
        BY <2>9, <2>11
      <3> QED BY <1>2, <1>3, <2>1, <2>3, <2>5, <2>11, <2>15, <3>1, <3>2, <3>3, Placement
    <2>17. y' \in Int /\ y' >= y + need
      BY <1>3, <2>1, <2>5
    <2>18. lines' \in Seq(Size)
      BY <1>2, <2>1 DEF DrawingInv
    <2>19. DrawingInv' /\ Working' /\ BoxesInv' /\ InkInv'
      BY <1>2, <1>3, <2>1, <2>2, <2>5, <2>16, <2>17, <2>18, PlacedKeeps DEF Stages
    <2>20. HeightInv'
      BY <1>1, <2>1, <2>2, <2>5, <2>16, PlacedHeight
    <2>21. CanvasInv'
      BY <1>3, <2>1, <2>2, <2>3, <2>16, PlacedCanvas DEF Placing
    <2>22. BarsInv'
      <3>1. ASSUME NEW r \in ink', r.kind = "bars" PROVE r.x0 = bars.x0 /\ r.x1 = bars.x1
        <4>1. r \notin ink
          BY <1>1, <1>2, <3>1 DEF BarsInv
        <4>2. PICK d \in drawn : /\ r.kind = d.kind
                                 /\ d.kind # "hri" => r.x0 = d.x0 /\ r.x1 = d.x1
          BY <2>16, <4>1, PlacedInk
        <4> QED BY <2>13, <2>14, <3>1, <4>2
      <3>2. ASSUME NEW b \in boxes', b.kind = "bars" PROVE b = box
        BY <1>1, <1>2, <2>16, <3>2 DEF BarsInv, Placed
      <3>3. (bars.x1 - bars.x0) \div job.barcode = dots
        <4>1. bars.x1 - bars.x0 = wide
          BY <2>7, <2>9, <2>12
        <4> QED BY <2>3, <2>7, <4>1, WholeQuotient DEF wide
      <3>4. bars.x0 - box.x0 >= QuietModules * dots /\ box.x1 - bars.x1 >= QuietModules * dots
        BY <2>7, <2>9, <2>11, <2>12 DEF QuietModules
      <3>5. job' = job
        BY <2>2
      <3>6. QuietZone'
        BY <2>7, <3>1, <3>2, <3>3, <3>4, <3>5 DEF QuietZone
      <3> QED BY <2>1, <3>6 DEF BarsInv
    <2>23. PinsInv'
      BY <2>1 DEF PinsInv
    <2> QED BY <2>19, <2>20, <2>21, <2>22, <2>23 DEF LayoutInv
  <1> QED BY <1>4, <1>5, <1>7, <1>6

-----------------------------------------------------------------------------
\* A size times n / d.
LEMMA ScaledFacts ==
  ASSUME NEW n \in Int, NEW d \in Nat \ {0}, NEW i, i.w \in Nat, i.h \in Nat
  PROVE  LET s == Scaled(<<n, d>>, i)
         IN  /\ s.w = Rounded(i.w * n, d) /\ s.h = Rounded(i.h * n, d) /\ s.w \in Int /\ s.h \in Int
  <1> DEFINE a == i.w * n
             b == i.h * n
  <1>1. a \in Int /\ b \in Int
    OBVIOUS
  <1>2. \A p \in Int : Rounded(p, d) \in Int
    <2>1. \A p \in Int, q \in Nat \ {0} : p \div q \in Int
      OBVIOUS
    <2>2. 2 * d \in Nat \ {0} /\ \A p \in Int : 2 * p + d \in Int
      OBVIOUS
    <2> QED BY <2>1, <2>2 DEF Rounded
  <1>3. Scaled(<<n, d>>, i) = [w |-> Rounded(a, d), h |-> Rounded(b, d)]
    BY DEF Scaled
  <1> HIDE DEF a, b
  <1>4. Scaled(<<n, d>>, i).w = Rounded(a, d) /\ Scaled(<<n, d>>, i).h = Rounded(b, d)
    BY <1>3
  <1>5. Rounded(a, d) \in Int /\ Rounded(b, d) \in Int
    BY <1>1, <1>2
  <1> QED BY <1>4, <1>5 DEF a, b

\* A picture is as wide as the content at most, and in a label no longer than
\* the label; it is never empty.
LEMMA ImageFacts ==
  ASSUME DrawingInv, Working, job.image.w # 0
  PROVE  /\ ImageSize.w \in Nat /\ ImageSize.w > 0 /\ ImageSize.h \in Nat /\ ImageSize.h > 0
         /\ ~ Sideways => ImageSize.w <= contentW
         /\ ~ Sideways /\ job.fit = "label" /\ BoxH >= 1 => ImageSize.h <= BoxH
  <1> DEFINE i == job.image
  <1>1. i.w \in Nat \ {0} /\ i.h \in Nat \ {0}
    <2>1. job \in PrintJobs
      BY DEF DrawingInv
    <2>2. job.image.w \in Nat /\ job.image.h \in Nat /\ (job.image.w > 0 => job.image.h > 0)
      BY <2>1, JobFacts
    <2> QED BY <2>2
  <1>2. BoxW \in Int /\ BoxH \in Int /\ contentW \in Nat /\ contentW > 0 /\ BoxW <= contentW
    BY Sizes DEF BoxW, BoxH
  <1>3. ASSUME NEW s, s.w \in Int, s.h \in Int, ImageSize = [w |-> Most(s.w, 1), h |-> Most(s.h, 1)]
        PROVE  /\ ImageSize.w \in Nat /\ ImageSize.w > 0 /\ ImageSize.h \in Nat /\ ImageSize.h > 0
               /\ s.w <= contentW => ImageSize.w <= contentW
               /\ s.h <= BoxH /\ BoxH >= 1 => ImageSize.h <= BoxH
    <2>1. ImageSize.w = Most(s.w, 1) /\ ImageSize.h = Most(s.h, 1)
      BY <1>3
    <2> QED BY <1>2, <1>3, <2>1 DEF Most
  <1>4. ASSUME NEW n, NEW d, NEW n2, NEW d2, Factor(n, d, n2, d2) # <<n2, d2>>
        PROVE  Factor(n, d, n2, d2) = <<n, d>> /\ ~ (job.fit = "label" /\ n2 * d < n * d2)
    BY <1>4 DEF Factor
  <1>5. ASSUME NEW n, NEW d, NEW n2, NEW d2, Factor(n, d, n2, d2) # <<n, d>>
        PROVE  Factor(n, d, n2, d2) = <<n2, d2>> /\ n2 * d < n * d2
    BY <1>5 DEF Factor
  <1>6. CASE Sideways
    <2> DEFINE f == Factor(BoxW, i.h, BoxH, i.w)
               s == Scaled(f, i)
    <2>1. ImageSize = [w |-> Most(s.w, 1), h |-> Most(s.h, 1)]
      BY <1>6 DEF ImageSize
    <2>2. f = <<BoxW, i.h>> \/ f = <<BoxH, i.w>>
      BY <1>4
    <2> HIDE DEF f, i
    <2>3. s.w \in Int /\ s.h \in Int
      BY <1>1, <1>2, <2>2, ScaledFacts
    <2> HIDE DEF s
    <2> QED BY <1>3, <1>6, <2>1, <2>3
  <1>7. CASE ~ Sideways /\ job.fit = "label"
    <2> DEFINE f == Factor(BoxW, i.w, BoxH, i.h)
               s == Scaled(f, i)
    <2>1. ImageSize = [w |-> Most(s.w, 1), h |-> Most(s.h, 1)]
      BY <1>7 DEF ImageSize
    <2>2. \/ f = <<BoxW, i.w>> /\ ~ (BoxH * i.w < BoxW * i.h)
          \/ f = <<BoxH, i.h>> /\ BoxH * i.w < BoxW * i.h
      BY <1>4, <1>5, <1>7
    <2> HIDE DEF f, i
    <2>3. CASE f = <<BoxW, i.w>> /\ ~ (BoxH * i.w < BoxW * i.h)
      <3> DEFINE a == i.w * BoxW
                 b == i.h * BoxW
                 c == i.w
      <3>1. s.w = Rounded(a, c) /\ s.h = Rounded(b, c) /\ s.w \in Int /\ s.h \in Int
        BY <1>1, <1>2, <2>3, ScaledFacts
      <3>2. a \in Int /\ b \in Int /\ c \in Nat \ {0} /\ a <= BoxW * c
        BY <1>1, <1>2
      <3>3. b <= BoxH * c
        <4>1. i.h * BoxW = BoxW * i.h /\ BoxW * i.h \in Int /\ BoxH * i.w \in Int
          BY <1>1, <1>2
        <4> QED BY <2>3, <4>1
      <3> HIDE DEF a, b, c, s
      <3>4. Rounded(a, c) <= BoxW
        BY <1>2, <3>2, QuotientBound, Zenon
      <3>5. Rounded(b, c) <= BoxH
        BY <1>2, <3>2, <3>3, QuotientBound, Zenon
      <3>6. s.w <= contentW /\ s.h <= BoxH
        BY <1>2, <3>1, <3>4, <3>5
      <3> QED BY <1>3, <2>1, <3>1, <3>6
    <2>4. CASE f = <<BoxH, i.h>> /\ BoxH * i.w < BoxW * i.h
      <3> DEFINE a == i.w * BoxH
                 b == i.h * BoxH
                 c == i.h
      <3>1. s.w = Rounded(a, c) /\ s.h = Rounded(b, c) /\ s.w \in Int /\ s.h \in Int
        BY <1>1, <1>2, <2>4, ScaledFacts
      <3>2. a \in Int /\ b \in Int /\ c \in Nat \ {0} /\ b <= BoxH * c
        BY <1>1, <1>2
      <3>3. a <= BoxW * c
        <4>1. i.w * BoxH = BoxH * i.w /\ BoxW * i.h \in Int /\ BoxH * i.w \in Int
          BY <1>1, <1>2
        <4> QED BY <2>4, <4>1
      <3> HIDE DEF a, b, c, s
      <3>4. Rounded(a, c) <= BoxW
        BY <1>2, <3>2, <3>3, QuotientBound, Zenon
      <3>5. Rounded(b, c) <= BoxH
        BY <1>2, <3>2, QuotientBound, Zenon
      <3>6. s.w <= contentW /\ s.h <= BoxH
        BY <1>2, <3>1, <3>4, <3>5
      <3> QED BY <1>3, <2>1, <3>1, <3>6
    <2> QED BY <2>2, <2>3, <2>4
  <1>8. CASE ~ Sideways /\ job.fit # "label"
    <2> DEFINE s == [w |-> BoxW, h |-> (BoxW * i.h) \div i.w]
    <2>1. ImageSize = [w |-> Most(s.w, 1), h |-> Most(s.h, 1)]
      BY <1>8 DEF ImageSize
    <2>2. (BoxW * i.h) \div i.w \in Int
      <3>1. \A p \in Int, q \in Nat \ {0} : p \div q \in Int
        OBVIOUS
      <3>2. BoxW * i.h \in Int
        BY <1>1, <1>2
      <3> QED BY <1>1, <3>1, <3>2
    <2>3. s.w = BoxW /\ s.w \in Int /\ s.h \in Int
      BY <1>2, <2>2
    <2> HIDE DEF s
    <2> QED BY <1>2, <1>3, <1>8, <2>1, <2>3
  <1> QED BY <1>6, <1>7, <1>8

\* The picture is placed.
LEMMA ImageStep ==
  ASSUME LayoutInv, PlaceImage
  PROVE  LayoutInv'
  <1> DEFINE s == ImageSize
             x == leftMargin + IF Sideways THEN 0 ELSE AlignedX(job.align, s.w, contentW)
             box == Rect("image", x, y, s.w, s.h)
             w == Most(cw, x + s.w)
  <1>1. stage = "image"
    BY DEF PlaceImage
  <1>2. /\ DrawingInv /\ BoxesInv /\ InkInv /\ HeightInv /\ CanvasInv /\ BarsInv
    BY DEF LayoutInv
  <1>3. /\ Working /\ stage \in Placing /\ y \in Int /\ topMargin \in Int /\ y >= topMargin
        /\ gap \in Nat /\ \A r \in ink : r.y1 \in Int /\ r.y1 <= y
    BY <1>1, BelowTheOthers
  <1>4. CASE job.image.w = 0
    <2>1. CASE y > topMargin
      <3>1. stage' = "rotate" /\ Skip
        BY <1>3, <1>4, <2>1 DEF PlaceImage
      <3> QED BY <1>1, <2>1, <3>1, SkipStep
    <2>2. CASE y = topMargin
      <3>1. NoHeight
        <4>1. ASSUME ~ NoHeight PROVE FALSE
          <5>1. job.text = <<>> /\ job.qr = 0 /\ job.barcode = 0
            BY <1>1, <1>2, <2>2, <4>1 DEF HeightInv
          <5>2. HasContent(job)
            BY <1>2, <1>3, Sizes DEF Validate
          <5> QED BY <1>4, <5>1, <5>2 DEF HasContent
        <4> QED BY <4>1
      <3>2. stage' = "internal" /\ Skip
        BY <1>3, <1>4, <2>2 DEF PlaceImage
      <3>3. Fails("internal")
        BY <3>2 DEF Fails, Skip
      <3> QED BY <1>3, <3>1, <3>3, FailStep
    <2> QED BY <1>3, <2>1, <2>2
  <1>5. CASE job.image.w # 0 /\ ~ Fits(s.h)
    <2>1. Fails("unfit")
      BY <1>5 DEF PlaceImage
    <2> QED BY <1>3, <2>1, FailStep
  <1>6. CASE job.image.w # 0 /\ Fits(s.h) /\ Panics(s.h)
    <2>1. Fails("panic")
      BY <1>6 DEF PlaceImage
    <2> QED BY <1>3, <1>6, <2>1, PanicStep
  <1>7. CASE job.image.w # 0 /\ Fits(s.h) /\ ~ Panics(s.h)
    <2>1. /\ \E drawn \in {{}, {box}} : Place({box}, drawn, w, s.h)
          /\ y' = y + s.h + gap /\ stage' = "rotate" /\ lines' = lines
      BY <1>7 DEF PlaceImage
    <2>2. PICK drawn \in {{}, {box}} : Place({box}, drawn, w, s.h)
      BY <2>1
    <2>3. UNCHANGED <<job, pins>>
      BY <2>2 DEF Place
    <2>4. /\ contentW \in Nat /\ cw \in Nat /\ leftMargin \in Nat /\ rightMargin \in Nat
          /\ cw = leftMargin + contentW + rightMargin
      BY <1>2, <1>3, Sizes
    <2>5. s.w \in Nat /\ s.h \in Nat /\ s.h > 0 /\ (~ Sideways => s.w <= contentW) /\ Fits(s.h)
      BY <1>2, <1>3, <1>7, ImageFacts
    <2> HIDE DEF s
    <2>6. /\ x \in Nat /\ x >= leftMargin /\ (~ Sideways => x + s.w <= leftMargin + contentW)
      <3>1. CASE Sideways
        BY <2>4, <3>1
      <3>2. CASE ~ Sideways
        <4> DEFINE a == AlignedX(job.align, s.w, contentW)
        <4>1. a \in Int /\ 0 <= a /\ a <= contentW - s.w
          BY <2>4, <2>5, <3>2, AlignedFacts
        <4>2. x = leftMargin + a
          BY <3>2
        <4> HIDE DEF a, x
        <4> QED BY <2>4, <2>5, <3>2, <4>1, <4>2
      <3> QED BY <3>1, <3>2
    <2> HIDE DEF x
    <2>7. w \in Nat /\ x + s.w <= w /\ (~ Sideways => w = cw)
      BY <2>4, <2>5, <2>6 DEF Most
    <2> HIDE DEF w
    <2>8. /\ box \in Rects /\ box.kind = "image" /\ box.y0 = y /\ box.y1 = y + s.h
          /\ box.x0 = x /\ box.x1 = x + s.w
      <3>1. "image" \in Kinds
        BY DEF Kinds
      <3> QED BY <1>3, <2>5, <2>6, <3>1, RectIs
    <2> HIDE DEF box
    <2>9. drawn \in SUBSET Rects /\ \A d \in drawn : d = box
      BY <2>2, <2>8
    <2>10. Placed(box, drawn, w, s.h)
      <3>1. \A d \in drawn : y <= d.y0 /\ d.y1 <= y + s.h /\ (d.kind = "hri" \/ (0 <= d.x0 /\ d.x1 <= w))
        BY <1>3, <2>5, <2>6, <2>7, <2>8, <2>9
      <3>2. \A r \in ink : r.y1 <= y + s.h
        BY <1>3, <2>5
      <3>3. box.x0 >= leftMargin /\ (box.x1 <= leftMargin + contentW \/ (Sideways /\ box.kind = "image"))
        BY <2>6, <2>8
      <3> QED BY <1>2, <1>3, <2>2, <2>5, <2>7, <2>8, <2>9, <3>1, <3>2, <3>3, Placement
    <2>11. y' \in Int /\ y' >= y + s.h
      BY <1>3, <2>1, <2>5
    <2>12. lines' \in Seq(Size)
      BY <1>2, <2>1 DEF DrawingInv
    <2>13. DrawingInv' /\ Working' /\ BoxesInv' /\ InkInv'
      BY <1>2, <1>3, <2>1, <2>3, <2>5, <2>10, <2>11, <2>12, PlacedKeeps DEF Stages
    <2>14. HeightInv'
      BY <1>1, <2>1, <2>3, <2>5, <2>10, PlacedHeight
    <2>15. CanvasInv'
      BY <1>3, <2>1, <2>3, <2>7, <2>10, PlacedCanvas DEF Placing
    <2>16. BarsInv'
      <3>1. ASSUME NEW r \in ink', r.kind = "bars" PROVE r \in ink
        BY <2>8, <2>9, <2>10, <3>1, PlacedInk
      <3>2. ASSUME NEW b \in boxes', b.kind = "bars" PROVE b \in boxes
        BY <2>8, <2>10, <3>2 DEF Placed
      <3>3. job' = job
        BY <2>3
      <3> QED BY <1>1, <1>2, <2>1, <3>1, <3>2, <3>3 DEF BarsInv, QuietZone
    <2>17. PinsInv'
      BY <2>1 DEF PinsInv
    <2> QED BY <2>13, <2>14, <2>15, <2>16, <2>17 DEF LayoutInv
  <1> QED BY <1>4, <1>5, <1>7, <1>6

-----------------------------------------------------------------------------
\* The measures of the job that was accepted.
LEMMA MeasuresThen ==
  job \in PrintJobs /\ Validate(job) =>
    /\ topMargin \in Int /\ (job.top >= 0 => topMargin >= 0)
    /\ cw \in Nat /\ ch \in Nat /\ scale \in Nat
  BY Measures

\* A job is accepted.
LEMMA AcceptStep ==
  ASSUME LayoutInv, NEW j \in PrintJobs, Accept(j)
  PROVE  LayoutInv'
  <1>1. /\ stage = "idle" /\ job' = j /\ lines' = j.text /\ UNCHANGED <<boxes, ink, lost, pins>>
    BY DEF Accept
  <1>2. boxes = {} /\ ink = {} /\ lost = {} /\ y \in Int /\ canvas \in Canvases
    BY <1>1 DEF LayoutInv, DrawingInv, Working
  <1>3. lines' \in Seq(Size)
    BY <1>1, JobFacts
  <1>4. CASE ~ Validate(j)
    <2>1. stage' = "refused" /\ UNCHANGED <<y, canvas>>
      BY <1>4 DEF Accept
    <2>2. ~ Working'
      BY <2>1 DEF Working
    <2>3. DrawingInv'
      BY <1>1, <1>2, <1>3, <2>1, <2>2 DEF DrawingInv, Stages, FailsOnlyUnchecked
    <2>4. BoxesInv' /\ InkInv'
      BY <2>2 DEF BoxesInv, InkInv
    <2> QED BY <2>1, <2>3, <2>4 DEF LayoutInv, HeightInv, CanvasInv, BarsInv, QuietZone, PinsInv, Placing
  <1>5. CASE Validate(j)
    <2>1. /\ stage' = "text" /\ y' = topMargin'
          /\ canvas' = [w |-> cw', h |-> IF auto' THEN Least(topMargin' + 16 * scale', ch') ELSE ch']
      BY <1>5 DEF Accept
    <2>2. Validate(job)' /\ (job \in PrintJobs)'
      BY <1>1, <1>5 DEF Validate, HasContent
    <2>3. /\ topMargin' \in Int /\ (job'.top >= 0 => topMargin' >= 0)
          /\ cw' \in Nat /\ ch' \in Nat /\ scale' \in Nat
      <3>1. (job \in PrintJobs /\ Validate(job) =>
               /\ topMargin \in Int /\ (job.top >= 0 => topMargin >= 0)
               /\ cw \in Nat /\ ch \in Nat /\ scale \in Nat)'
        BY MeasuresThen, PTL
      <3> QED BY <2>2, <3>1
    <2>4. Working'
      BY <2>1 DEF Working
    <2>5. canvas' \in Canvases /\ canvas'.w = cw' /\ (canvas'.h >= 0 \/ job'.top < 0)
      <3>1. ASSUME NEW n \in Nat, NEW m \in Nat, NEW a \in Int, NEW b \in BOOLEAN, NEW k \in Nat,
                   canvas' = [w |-> n, h |-> IF b THEN Least(a + 16 * k, m) ELSE m]
            PROVE  canvas' \in Canvases /\ canvas'.w = n /\ (a >= 0 => canvas'.h >= 0)
        BY <3>1 DEF Canvases, Least
      <3>2. auto' \in BOOLEAN
        BY DEF auto
      <3>3. job'.top \in Int
        BY <1>1, JobFacts
      <3>4. /\ canvas' \in Canvases /\ canvas'.w = cw' /\ (topMargin' >= 0 => canvas'.h >= 0)
        BY <2>1, <2>3, <3>1, <3>2
      <3>5. topMargin' >= 0 \/ job'.top < 0
        BY <2>3, <3>3
      <3> QED BY <3>4, <3>5
    <2>6. DrawingInv'
      BY <1>1, <1>2, <1>3, <2>1, <2>2, <2>3, <2>4, <2>5 DEF DrawingInv, Stages, FailsOnlyUnchecked
    <2>7. BoxesInv' /\ InkInv'
      BY <1>1, <1>2, <2>1, <2>3 DEF BoxesInv, InkInv
    <2>8. HeightInv'
      BY <1>1, <1>2, <2>1, <2>3 DEF HeightInv
    <2>9. CanvasInv'
      BY <2>1, <2>5 DEF CanvasInv, Placing
    <2>10. BarsInv' /\ PinsInv'
      BY <1>1, <1>2, <2>1 DEF BarsInv, QuietZone, PinsInv
    <2> QED BY <2>6, <2>7, <2>8, <2>9, <2>10 DEF LayoutInv
  <1> QED BY <1>4, <1>5

\* A stage makes a new canvas of what is on the old one.
LEMMA KeepFacts ==
  ASSUME LayoutInv, Working, NEW rects \in SUBSET Rects, NEW w \in Nat, NEW h \in Int,
         NEW next \in {"squeeze", "paste", "mirror", "fit", "rasterize"}, Keep(rects, w, h, next),
         Counted => \A r \in rects : r.kind = "hri" \/ Inside(r, w, h)
  PROVE  /\ DrawingInv' /\ Working' /\ BoxesInv' /\ InkInv'
         /\ canvas'.w = w /\ canvas'.h = h /\ stage' = next /\ contentH' = contentH
         /\ UNCHANGED <<job, lines, y, boxes, pins>>
  <1>1. /\ canvas' = [w |-> w, h |-> h] /\ Drawn(rects, w, h) /\ stage' = next
        /\ UNCHANGED <<job, lines, y, boxes, pins>>
    BY DEF Keep
  <1>2. DrawingInv /\ BoxesInv /\ InkInv /\ lost \subseteq Kinds /\ y \in Int
    BY DEF LayoutInv, DrawingInv
  <1>3. /\ ink' \subseteq Rects /\ lost' \subseteq Kinds /\ \A r \in ink' : Inside(r, w, h) /\ Visible(r)
        /\ Counted => lost' \subseteq lost \union {"hri"}
    BY <1>1, <1>2, DrawnFacts
  <1>4. canvas' \in Canvases /\ canvas'.w = w /\ canvas'.h = h
    BY <1>1 DEF Canvases
  <1>5. DrawingInv' /\ Working'
    <2>1. lines' \in Seq(Size) /\ boxes' \subseteq Rects /\ y' \in Int
      BY <1>1, <1>2 DEF DrawingInv
    <2> QED BY <1>1, <1>2, <1>3, <1>4, <2>1, JobStays DEF Stages
  <1>6. BoxesInv'
    BY <1>1, <1>2, BoxesStay DEF Placing
  <1>7. InkInv'
    BY <1>1, <1>2, <1>3, <1>4, MeasuresStay DEF InkInv
  <1>8. contentH' = contentH
    BY <1>1, MeasuresStay DEF contentH
  <1> QED BY <1>1, <1>4, <1>5, <1>6, <1>7, <1>8

\* Half a turn.
LEMMA FlippedInside ==
  ASSUME NEW r \in Rects, cw \in Nat, contentH \in Int, Inside(r, cw, contentH)
  PROVE  Flipped(r) \in Rects /\ Inside(Flipped(r), cw, contentH)
  <1>1. /\ cw - r.x1 \in Int /\ cw - r.x0 \in Int /\ contentH - r.y1 \in Int /\ contentH - r.y0 \in Int
    BY RectFacts
  <1>2. /\ Flipped(r) \in Rects
        /\ Flipped(r).x0 = cw - r.x1 /\ Flipped(r).x1 = cw - r.x0
        /\ Flipped(r).y0 = contentH - r.y1 /\ Flipped(r).y1 = contentH - r.y0
    BY <1>1, MovedFacts DEF Flipped
  <1> QED BY <1>2, RectFacts DEF Inside

\* A quarter turn.
LEMMA TurnedInside ==
  ASSUME NEW r \in Rects, canvas.w \in Nat, contentH \in Nat, Inside(r, canvas.w, contentH)
  PROVE  Turned(r) \in Rects /\ Inside(Turned(r), contentH, canvas.w)
  <1>1. /\ r.x0 \in Int /\ r.x1 \in Int /\ r.y0 \in Int /\ r.y1 \in Int
        /\ contentH - r.y1 \in Int /\ contentH - r.y0 \in Int
        /\ canvas.w - r.x1 \in Int /\ canvas.w - r.x0 \in Int
    BY RectFacts
  <1>2. CASE job.rotate = 90
    <2>1. /\ Turned(r) \in Rects
          /\ Turned(r).x0 = contentH - r.y1 /\ Turned(r).x1 = contentH - r.y0
          /\ Turned(r).y0 = r.x0 /\ Turned(r).y1 = r.x1
      BY <1>1, <1>2, MovedFacts DEF Turned
    <2> QED BY <1>1, <2>1 DEF Inside
  <1>3. CASE job.rotate # 90
    <2>1. /\ Turned(r) \in Rects
          /\ Turned(r).x0 = r.y0 /\ Turned(r).x1 = r.y1
          /\ Turned(r).y0 = canvas.w - r.x1 /\ Turned(r).y1 = canvas.w - r.x0
      BY <1>1, <1>3, MovedFacts DEF Turned
    <2> QED BY <1>1, <2>1 DEF Inside
  <1> QED BY <1>2, <1>3

\* The turned content is made as wide as the label's.
LEMMA ShrunkInside ==
  ASSUME NEW r \in Rects, canvas.w \in Nat \ {0}, contentH \in Nat \ {0}, targetW \in Nat,
         targetH \in Nat, Inside(r, contentH, canvas.w)
  PROVE  Shrunk(r) \in Rects /\ Inside(Shrunk(r), targetW, targetH)
  <1>1. /\ r.x0 \in Nat /\ r.x1 \in Int /\ r.y0 \in Nat /\ r.y1 \in Int
        /\ r.x1 <= contentH /\ r.y1 <= canvas.w
    BY RectFacts DEF Inside
  <1>2. \* In each direction.
        ASSUME NEW from \in Nat, NEW to \in Int, NEW n \in Nat \ {0}, NEW target \in Nat, to <= n
        PROVE  /\ (from * target) \div n \in Nat
               /\ Ceiling(to * target, n) \in Int /\ Ceiling(to * target, n) <= target
    <2> DEFINE a == from * target
               b == to * target
    <2>1. a \in Nat /\ b \in Int
      OBVIOUS
    <2>2. b <= target * n
      <3>1. to * target <= n * target
        BY <1>2
      <3>2. n * target = target * n
        OBVIOUS
      <3> QED BY <3>1, <3>2
    <2> HIDE DEF a, b
    <2>3. a \div n \in Nat
      BY <2>1, DivBounds
    <2>4. target \in Int
      OBVIOUS
    <2>5. Ceiling(b, n) \in Int /\ Ceiling(b, n) <= target
      BY <2>1, <2>2, <2>4, QuotientBound, Zenon
    <2> QED BY <2>3, <2>5 DEF a, b
  <1> DEFINE x0 == (r.x0 * targetW) \div contentH
             x1 == Ceiling(r.x1 * targetW, contentH)
             y0 == (r.y0 * targetH) \div canvas.w
             y1 == Ceiling(r.y1 * targetH, canvas.w)
  <1>3. x0 \in Nat /\ x1 \in Int /\ x1 <= targetW
    BY <1>1, <1>2
  <1>4. y0 \in Nat /\ y1 \in Int /\ y1 <= targetH
    BY <1>1, <1>2
  <1>5. Shrunk(r) = Moved(r, x0, x1, y0, y1)
    BY DEF Shrunk
  <1> HIDE DEF x0, x1, y0, y1
  <1>6. /\ Shrunk(r) \in Rects /\ Shrunk(r).x0 = x0 /\ Shrunk(r).x1 = x1 /\ Shrunk(r).y0 = y0
        /\ Shrunk(r).y1 = y1
    BY <1>3, <1>4, <1>5, MovedFacts
  <1> QED BY <1>3, <1>4, <1>6 DEF Inside

-----------------------------------------------------------------------------
\* What is drawn has whole numbers for its edges, and is on the canvas.
LEMMA OnCanvas ==
  ASSUME LayoutInv, Working
  PROVE  /\ ink \subseteq Rects /\ canvas.w \in Nat /\ canvas.h \in Int
         /\ \A r \in ink : Inside(r, canvas.w, canvas.h) /\ Visible(r)
         /\ DrawingInv /\ BoxesInv /\ InkInv /\ HeightInv /\ CanvasInv /\ job \in PrintJobs
  BY Sizes DEF LayoutInv, DrawingInv, InkInv

\* The four rotations.
LEMMA Rotations ==
  ASSUME LayoutInv, Working
  PROVE  /\ job.rotate \in {0, 90, 180, 270}
         /\ job.rotate \in {0, 180} => ~ Sideways
         /\ job.rotate \notin {0, 180} => Sideways
  <1>1. Validate(job)
    BY Sizes DEF LayoutInv
  <1>2. job.rotate \in {0, 90, 180, 270}
    BY <1>1 DEF Validate
  <1> QED BY <1>2 DEF Sideways

\* The content is turned.
LEMMA RotateStep ==
  ASSUME LayoutInv, Rotate
  PROVE  LayoutInv'
  <1>1. stage = "rotate" /\ Working
    BY DEF Rotate, Working
  <1>2. /\ ink \subseteq Rects /\ canvas.w \in Nat /\ canvas.h \in Int
        /\ \A r \in ink : Inside(r, canvas.w, canvas.h) /\ Visible(r)
        /\ DrawingInv /\ HeightInv /\ CanvasInv
    BY <1>1, OnCanvas
  <1>3. /\ scale \in {1, 2} /\ sideMargin = 4 * scale /\ gap = 4 * scale /\ y \in Int
        /\ leftMargin \in Nat /\ rightMargin \in Nat /\ topMargin \in Int /\ bottomMargin \in Int
        /\ (job.top >= 0 => topMargin >= 0)
        /\ contentW \in Nat /\ cw \in Nat /\ ch \in Nat /\ cw = leftMargin + contentW + rightMargin
    BY <1>1, <1>2, Sizes
  <1>4. /\ contentH \in Int /\ topMargin < contentH /\ contentH <= ch - bottomMargin
        /\ \A r \in ink : r.y1 <= contentH
    <2>1. contentH \in Int
      BY <1>3 DEF contentH
    <2> QED BY <1>1, <1>2, <1>3, <2>1 DEF HeightInv
  <1>5. ASSUME NEW r \in ink PROVE r \in Rects /\ Inside(r, canvas.w, contentH)
    BY <1>2, <1>4, RectFacts DEF Inside
  <1>6. \* What every turn leaves to be shown.
        ASSUME NEW rects \in SUBSET Rects, NEW w \in Nat, NEW h \in Int, Keep(rects, w, h, "squeeze"),
               \A r \in rects : Inside(r, w, h), ~ Sideways => w = cw /\ h = contentH,
               contentW > 2 * sideMargin => w % scale = 0
        PROVE  LayoutInv'
    <2>2. /\ DrawingInv' /\ Working' /\ BoxesInv' /\ InkInv'
          /\ canvas'.w = w /\ canvas'.h = h /\ stage' = "squeeze" /\ contentH' = contentH
          /\ UNCHANGED <<job, lines, y, boxes, pins>>
      BY <1>1, <1>6, KeepFacts
    <2>3. HeightInv'
      BY <1>4, <2>2, MeasuresStay DEF HeightInv
    <2>4. CanvasInv'
      BY <1>6, <2>2, MeasuresStay DEF CanvasInv, Placing
    <2>5. BarsInv' /\ PinsInv'
      BY <2>2 DEF BarsInv, QuietZone, PinsInv
    <2> QED BY <2>2, <2>3, <2>4, <2>5 DEF LayoutInv
  <1>7. CASE job.rotate \in {0, 180}
    <2>1. ~ Sideways /\ canvas.w = cw
      BY <1>1, <1>2, <1>7, Rotations DEF CanvasInv
    <2>2. cw % scale = 0
      <3>1. cw = job.media.dots * scale /\ job.media.dots \in Nat
        BY <1>1, <1>2, Sizes, Measures, TableMeasures
      <3>2. CASE scale = 1
        BY <1>3, <3>2
      <3>3. CASE scale = 2
        BY <3>1, <3>3
      <3> QED BY <1>3, <3>2, <3>3
    <2>3. CASE job.rotate = 0
      <3>1. Keep(ink, cw, contentH, "squeeze")
        BY <2>3 DEF Rotate
      <3> QED BY <1>2, <1>3, <1>4, <1>5, <1>6, <2>1, <2>2, <3>1
    <2>4. CASE job.rotate = 180
      <3>1. Keep({Flipped(r) : r \in ink}, cw, contentH, "squeeze")
        BY <2>4 DEF Rotate, Each
      <3>2. \A r \in ink : Flipped(r) \in Rects /\ Inside(Flipped(r), cw, contentH)
        BY <1>3, <1>4, <1>5, <2>1, FlippedInside
      <3> QED BY <1>3, <1>4, <1>6, <2>1, <2>2, <3>1, <3>2
    <2> QED BY <1>7, <2>3, <2>4
  <1>8. CASE job.rotate \notin {0, 180}
    <2>1. Sideways
      BY <1>1, <1>8, Rotations
    <2>2. CASE job.media.dots > height
      <3>1. Fails("unfit")
        BY <1>8, <2>2 DEF Rotate
      <3> QED BY <1>1, <3>1, FailStep
    <2>3. targetW \in Nat /\ targetW > 0
      BY <1>3 DEF targetW, Most
    <2>4. contentW > 2 * sideMargin => targetW % scale = 0
      <3> SUFFICES ASSUME contentW > 2 * sideMargin PROVE targetW % scale = 0
        OBVIOUS
      <3>1. targetW = contentW - 2 * sideMargin
        BY <1>3 DEF targetW, Most
      <3>2. PICK k \in Int : contentW - 2 * sideMargin = scale * k
        BY <1>1, <1>2, Sizes, Measures
      <3>3. CASE scale = 1
        BY <2>3, <3>3
      <3>4. CASE scale = 2
        BY <3>1, <3>2, <3>4
      <3> QED BY <1>3, <3>3, <3>4
    <2>5. CASE ~ (job.media.dots > height) /\ contentH <= 0
      <3>1. NothingToTurn
        BY <1>8, <2>5 DEF Rotate
      <3>2. CASE Keep({}, targetW, 1, "squeeze")
        BY <1>6, <2>1, <2>3, <2>4, <3>2
      <3>3. CASE contentH = 0 /\ Fails("panic")
        <4>1. job.top < 0
          <5>1. topMargin < 0
            BY <1>4, <3>3
          <5>2. job.top \in Int
            BY <1>1, <1>2, Sizes, JobFacts
          <5> QED BY <1>3, <5>1, <5>2
        <4> QED BY <1>1, <3>3, <4>1, FailStep
      <3> QED BY <3>1, <3>2, <3>3 DEF NothingToTurn
    <2>6. CASE ~ (job.media.dots > height) /\ contentH > 0
      <3> DEFINE F(r) == IF contentH = targetW THEN Turned(r) ELSE Shrunk(Turned(r))
                 h == IF contentH = targetW THEN canvas.w ELSE targetH
                 rects == {F(r) : r \in ink}
      <3>1. Keep(rects, targetW, h, "squeeze")
        BY <1>8, <1>4, <2>6 DEF Rotate, Each
      <3>2. targetH \in Nat
        <4>1. canvas.w * targetW \in Nat
          BY <1>2, <2>3
        <4>2. \A p \in Int, q \in Nat \ {0} : p \div q \in Int
          OBVIOUS
        <4>3. 2 * contentH \in Nat \ {0} /\ 2 * (canvas.w * targetW) + contentH \in Int
          BY <1>4, <2>6, <4>1
        <4>4. Rounded(canvas.w * targetW, contentH) \in Int
          BY <4>2, <4>3 DEF Rounded
        <4> QED BY <4>4 DEF targetH, Most
      <3>4. h \in Nat
        BY <1>2, <3>2
      <3>5. ASSUME NEW r \in ink PROVE F(r) \in Rects /\ Inside(F(r), targetW, h)
        <4>1. Turned(r) \in Rects /\ Inside(Turned(r), contentH, canvas.w)
          BY <1>2, <1>4, <1>5, <2>6, TurnedInside
        <4>2. CASE contentH = targetW
          BY <4>1, <4>2
        <4>3. CASE contentH # targetW
          <5>1. canvas.w \in Nat \ {0} /\ contentH \in Nat \ {0}
            <6>1. Inside(r, canvas.w, canvas.h) /\ Visible(r) /\ r.x0 \in Int /\ r.x1 \in Int
              BY <1>2, RectFacts
            <6> QED BY <1>2, <1>4, <2>6, <6>1 DEF Inside, Visible
          <5>2. Shrunk(Turned(r)) \in Rects /\ Inside(Shrunk(Turned(r)), targetW, targetH)
            BY <2>3, <3>2, <4>1, <5>1, ShrunkInside
          <5> QED BY <4>3, <5>2
        <4> QED BY <4>2, <4>3
      <3>6. rects \in SUBSET Rects /\ \A r \in rects : Inside(r, targetW, h)
        BY <3>5
      <3> HIDE DEF rects, h
      <3> QED BY <1>6, <2>1, <2>3, <2>4, <3>1, <3>4, <3>6
    <2> QED BY <1>4, <2>2, <2>5, <2>6
  <1> QED BY <1>7, <1>8

\* Two columns become one.
LEMMA SqueezeStep ==
  ASSUME LayoutInv, Squeeze
  PROVE  LayoutInv'
  <1>1. stage = "squeeze" /\ Working
    BY DEF Squeeze, Working
  <1>2. /\ ink \subseteq Rects /\ canvas.w \in Nat /\ canvas.h \in Int
        /\ \A r \in ink : Inside(r, canvas.w, canvas.h)
        /\ DrawingInv /\ BoxesInv /\ InkInv /\ HeightInv /\ CanvasInv
    BY <1>1, OnCanvas
  <1>3. scale \in {1, 2} /\ y \in Int /\ cw = job.media.dots * scale /\ job.media.dots \in Nat
    BY <1>1, <1>2, Sizes, Measures, TableMeasures
  <1>4. topMargin < contentH /\ contentH <= ch - bottomMargin
    BY <1>1, <1>2 DEF HeightInv
  <1>5. CASE scale = 1
    <2>1. stage' = "paste" /\ UNCHANGED <<job, lines, y, canvas, boxes, ink, lost, pins>>
      BY <1>5 DEF Squeeze, Skip
    <2>2. DrawingInv' /\ Working' /\ BoxesInv' /\ InkInv'
      BY <1>1, <1>2, <1>3, <2>1, NothingDrawn DEF Stages, Placing
    <2>3. contentH' = contentH
      BY <2>1, MeasuresStay DEF contentH
    <2>4. HeightInv'
      BY <1>4, <2>1, <2>3, MeasuresStay DEF HeightInv
    <2>5. CanvasInv'
      <3>1. ~ Sideways => canvas.w = finalW /\ canvas.h = contentH
        BY <1>1, <1>2, <1>3, <1>5 DEF CanvasInv, finalW
      <3>2. finalW' = finalW
        BY <2>1 DEF finalW
      <3> QED BY <2>1, <2>3, <3>1, <3>2, MeasuresStay DEF CanvasInv, Placing
    <2>6. BarsInv' /\ PinsInv'
      BY <2>1 DEF BarsInv, QuietZone, PinsInv
    <2> QED BY <2>2, <2>4, <2>5, <2>6 DEF LayoutInv
  <1>6. CASE scale = 2
    <2> DEFINE rects == {Halved(r) : r \in ink}
               w == canvas.w \div 2
    <2>1. Keep(rects, w, canvas.h, "paste")
      BY <1>6 DEF Squeeze, Each
    <2>2. w \in Nat
      BY <1>2
    <2>3. ASSUME NEW r \in ink
          PROVE  /\ Halved(r) \in Rects
                 /\ canvas.w % 2 = 0 => Inside(Halved(r), w, canvas.h)
      <3>1. r \in Rects /\ Inside(r, canvas.w, canvas.h)
        BY <1>2
      <3>2. r.x0 \in Int /\ r.x1 \in Int /\ r.y0 \in Int /\ r.y1 \in Int
        BY <3>1, RectFacts
      <3>4. canvas.w % 2 = 0 /\ r.x1 <= canvas.w => Ceiling(r.x1, 2) <= w
        BY <1>2, <3>2 DEF Ceiling
      <3>5. /\ Halved(r) \in Rects
            /\ Halved(r).x0 = r.x0 \div 2 /\ Halved(r).x1 = Ceiling(r.x1, 2)
            /\ Halved(r).y0 = r.y0 /\ Halved(r).y1 = r.y1
        <4> DEFINE a == r.x0 \div 2
                   b == Ceiling(r.x1, 2)
        <4>1. a \in Int /\ b \in Int
          BY <3>2 DEF Ceiling
        <4>2. Halved(r) = Moved(r, a, b, r.y0, r.y1)
          BY DEF Halved
        <4> HIDE DEF a, b
        <4>3. /\ Halved(r) \in Rects /\ Halved(r).x0 = a /\ Halved(r).x1 = b
              /\ Halved(r).y0 = r.y0 /\ Halved(r).y1 = r.y1
          BY <3>1, <3>2, <4>1, <4>2, MovedFacts
        <4> QED BY <4>3 DEF a, b
      <3>6. r.x0 >= 0 => r.x0 \div 2 >= 0
        BY <3>2
      <3> HIDE DEF w
      <3> QED BY <3>1, <3>4, <3>5, <3>6 DEF Inside
    <2>4. rects \in SUBSET Rects
      BY <2>3
    <2>5. Counted => \A r \in rects : r.kind = "hri" \/ Inside(r, w, canvas.h)
      <3>1. contentW > 2 * sideMargin => canvas.w % 2 = 0
        BY <1>1, <1>2, <1>6 DEF CanvasInv
      <3> QED BY <2>3, <3>1 DEF Counted
    <2>7. ~ Sideways => w = job.media.dots /\ canvas.h = contentH
      BY <1>1, <1>2, <1>3, <1>6 DEF CanvasInv
    <2> HIDE DEF rects, w
    <2>8. /\ DrawingInv' /\ Working' /\ BoxesInv' /\ InkInv'
          /\ canvas'.w = w /\ canvas'.h = canvas.h /\ stage' = "paste" /\ contentH' = contentH
          /\ UNCHANGED <<job, lines, y, boxes, pins>>
      BY <1>1, <1>2, <2>1, <2>2, <2>4, <2>5, KeepFacts
    <2>9. HeightInv'
      BY <1>4, <2>8, MeasuresStay DEF HeightInv
    <2>10. CanvasInv'
      BY <2>7, <2>8, MeasuresStay DEF CanvasInv, Placing, finalW
    <2>11. BarsInv' /\ PinsInv'
      BY <2>8 DEF BarsInv, QuietZone, PinsInv
    <2> QED BY <2>8, <2>9, <2>10, <2>11 DEF LayoutInv
  <1> QED BY <1>3, <1>5, <1>6

\* The content finds its place on the label.
LEMMA PasteStep ==
  ASSUME LayoutInv, Paste
  PROVE  LayoutInv'
  <1>1. stage = "paste" /\ Working
    BY DEF Paste, Working
  <1>2. /\ ink \subseteq Rects /\ canvas.w \in Nat /\ canvas.h \in Int
        /\ \A r \in ink : Inside(r, canvas.w, canvas.h)
        /\ DrawingInv /\ BoxesInv /\ InkInv /\ HeightInv /\ CanvasInv /\ job \in PrintJobs
    BY <1>1, OnCanvas
  <1>3. /\ finalW \in Nat /\ ch = height * scale /\ ch \in Nat /\ bottomMargin \in Int
        /\ topMargin \in Int /\ (job.bottom >= 0 => bottomMargin >= 0) /\ y \in Int /\ gap \in Int
    BY <1>1, <1>2, Sizes, Measures, TableMeasures DEF finalW
  <1>4. /\ contentH \in Int /\ topMargin < contentH /\ contentH <= ch - bottomMargin
    BY <1>1, <1>2, <1>3 DEF HeightInv, contentH
  <1>5. finalH = (IF auto THEN canvas.h ELSE ch) /\ finalH \in Int
    BY <1>2, <1>3 DEF finalH
  <1>6. ~ Sideways => canvas.w <= finalW /\ canvas.h = contentH
    BY <1>1, <1>2, <1>3, <1>4, <1>5 DEF CanvasInv
  <1>7. CASE canvas.w > finalW \/ canvas.h > finalH
    <2>1. CASE Sideways
      <3>1. Fails("unfit")
        BY <1>7, <2>1 DEF Paste
      <3> QED BY <1>1, <3>1, FailStep
    <2>2. CASE ~ Sideways
      <3>1. Fails("internal")
        BY <1>7, <2>2 DEF Paste
      <3>2. contentH > finalH
        BY <1>2, <1>3, <1>6, <1>7, <2>2
      <3>3. bottomMargin < 0
        BY <1>2, <1>3, <1>4, <1>5, <1>6, <2>2, <3>2
      <3>4. job.bottom < 0
        <4>1. job.bottom \in Int
          BY <1>2, JobFacts
        <4> QED BY <1>3, <3>3, <4>1
      <3> QED BY <1>1, <3>1, <3>4, FailStep
    <2> QED BY <2>1, <2>2
  <1>8. CASE ~ (canvas.w > finalW \/ canvas.h > finalH)
    <2> DEFINE x0 == (finalW - canvas.w) \div 2
               y0 == CASE job.valign = "center" -> (finalH - canvas.h) \div 2
                       [] job.valign = "bottom" -> finalH - canvas.h
                       [] OTHER -> 0
               F(r) == Moved(r, r.x0 + x0, r.x1 + x0, r.y0 + y0, r.y1 + y0)
               rects == {F(r) : r \in ink}
    <2>1. Keep(rects, finalW, finalH, "mirror")
      BY <1>8 DEF Paste, Each
    <2>2. canvas.w <= finalW /\ canvas.h <= finalH
      BY <1>2, <1>3, <1>5, <1>8
    <2>3. x0 \in Nat /\ x0 <= finalW - canvas.w
      BY <1>2, <1>3, <2>2
    <2>4. y0 \in Nat /\ y0 <= finalH - canvas.h
      BY <1>2, <1>5, <2>2
    <2> HIDE DEF x0, y0
    <2>5. ASSUME NEW r \in ink PROVE F(r) \in Rects /\ Inside(F(r), finalW, finalH)
      <3>1. r \in Rects /\ Inside(r, canvas.w, canvas.h)
        BY <1>2
      <3>2. r.x0 \in Int /\ r.x1 \in Int /\ r.y0 \in Int /\ r.y1 \in Int
        BY <3>1, RectFacts
      <3>3. /\ F(r) \in Rects /\ F(r).x0 = r.x0 + x0 /\ F(r).x1 = r.x1 + x0
            /\ F(r).y0 = r.y0 + y0 /\ F(r).y1 = r.y1 + y0
        <4>1. r.x0 + x0 \in Int /\ r.x1 + x0 \in Int /\ r.y0 + y0 \in Int /\ r.y1 + y0 \in Int
          BY <2>3, <2>4, <3>2
        <4> QED BY <3>1, <4>1, MovedFacts
      <3> HIDE DEF F
      <3> QED BY <1>2, <1>3, <1>5, <2>3, <2>4, <3>1, <3>2, <3>3 DEF Inside
    <2>6. rects \in SUBSET Rects /\ \A r \in rects : Inside(r, finalW, finalH)
      BY <2>5
    <2> HIDE DEF rects
    <2>8. /\ DrawingInv' /\ Working' /\ BoxesInv' /\ InkInv'
          /\ canvas'.w = finalW /\ canvas'.h = finalH /\ stage' = "mirror"
          /\ UNCHANGED <<job, lines, y, boxes, pins>>
      BY <1>1, <1>3, <1>5, <2>1, <2>6, KeepFacts
    <2>9. HeightInv'
      BY <2>8 DEF HeightInv
    <2>10. CanvasInv'
      <3>1. finalW' = finalW
        BY <2>8 DEF finalW
      <3>2. (~ auto => finalH = ch) /\ (auto /\ ~ Sideways => finalH <= ch - bottomMargin)
        BY <1>3, <1>4, <1>5, <1>6
      <3> QED BY <2>8, <3>1, <3>2, MeasuresStay DEF CanvasInv, Placing
    <2>11. BarsInv' /\ PinsInv'
      BY <2>8 DEF BarsInv, QuietZone, PinsInv
    <2> QED BY <2>8, <2>9, <2>10, <2>11 DEF LayoutInv
  <1> QED BY <1>7, <1>8

-----------------------------------------------------------------------------
\* The label is mirrored.
LEMMA MirrorStep ==
  ASSUME LayoutInv, Mirror
  PROVE  LayoutInv'
  <1>1. stage = "mirror" /\ Working
    BY DEF Mirror, Working
  <1>2. /\ ink \subseteq Rects /\ canvas.w \in Nat /\ canvas.h \in Int
        /\ \A r \in ink : Inside(r, canvas.w, canvas.h)
        /\ CanvasInv
    BY <1>1, OnCanvas
  <1>3. canvas.w = finalW
    BY <1>1, <1>2 DEF CanvasInv
  <1> DEFINE rects == IF job.mirror THEN {Mirrored(r) : r \in ink} ELSE ink
  <1>4. Keep(rects, canvas.w, canvas.h, "fit")
    BY <1>1 DEF Mirror, Each
  <1>5. ASSUME NEW r \in ink
        PROVE  Mirrored(r) \in Rects /\ Inside(Mirrored(r), canvas.w, canvas.h)
    <2>1. r \in Rects /\ Inside(r, canvas.w, canvas.h)
      BY <1>2
    <2>2. r.x0 \in Int /\ r.x1 \in Int /\ r.y0 \in Int /\ r.y1 \in Int
      BY <2>1, RectFacts
    <2>3. /\ Mirrored(r) \in Rects
          /\ Mirrored(r).x0 = canvas.w - r.x1 /\ Mirrored(r).x1 = canvas.w - r.x0
          /\ Mirrored(r).y0 = r.y0 /\ Mirrored(r).y1 = r.y1
      <3>1. canvas.w - r.x1 \in Int /\ canvas.w - r.x0 \in Int
        BY <1>2, <2>2
      <3> QED BY <1>3, <2>1, <2>2, <3>1, MovedFacts DEF Mirrored
    <2> QED BY <1>2, <2>1, <2>2, <2>3 DEF Inside
  <1>6. rects \in SUBSET Rects /\ \A r \in rects : Inside(r, canvas.w, canvas.h)
    BY <1>2, <1>5
  <1> HIDE DEF rects
  <1>8. /\ DrawingInv' /\ Working' /\ BoxesInv' /\ InkInv'
        /\ canvas'.w = canvas.w /\ canvas'.h = canvas.h /\ stage' = "fit"
        /\ UNCHANGED <<job, lines, y, boxes, pins>>
    BY <1>1, <1>2, <1>4, <1>6, KeepFacts
  <1>9. HeightInv' /\ BarsInv' /\ PinsInv'
    BY <1>8 DEF HeightInv, BarsInv, QuietZone, PinsInv
  <1>10. CanvasInv'
    <2>1. finalW' = finalW
      BY <1>8 DEF finalW
    <2> QED BY <1>1, <1>2, <1>3, <1>8, <2>1, MeasuresStay DEF CanvasInv, Placing
  <1> QED BY <1>8, <1>9, <1>10 DEF LayoutInv

\* No row with ink is below the last one.
LEMMA LastRowFacts ==
  ASSUME ink \subseteq Rects, canvas.w \in Nat, canvas.h \in Int,
         \A r \in ink : Inside(r, canvas.w, canvas.h)
  PROVE  /\ LastRow \in Int /\ (LastRow <= canvas.h \/ LastRow = 0)
         /\ \A r \in ink : r.y1 <= LastRow
  <1>1. CASE ink = {}
    BY <1>1 DEF LastRow
  <1>2. CASE ink # {}
    <2> DEFINE ends == {r.y1 : r \in ink}
               above == {n \in Nat : \E r \in ink : n = canvas.h - r.y1}
    <2>1. \A r \in ink : r.y1 \in Int /\ r.y1 <= canvas.h /\ canvas.h - r.y1 \in Nat
      BY RectFacts DEF Inside
    <2>2. above \in SUBSET Nat /\ above # {}
      BY <1>2, <2>1
    <2> HIDE DEF above
    <2>3. PICK n \in above : \A m \in above : n <= m
      BY <2>2, LeastNatural
    <2> USE DEF above
    <2>4. PICK q \in ink : n = canvas.h - q.y1
      BY <2>3
    <2>5. \A r \in ink : r.y1 <= q.y1
      BY <2>1, <2>3, <2>4
    <2>6. \E e \in ends : \A r \in ink : r.y1 <= e
      BY <2>5
    <2>7. LastRow = CHOOSE e \in ends : \A r \in ink : r.y1 <= e
      BY <1>2 DEF LastRow
    <2>8. LastRow \in ends /\ \A r \in ink : r.y1 <= LastRow
      BY <2>6, <2>7
    <2> QED BY <2>1, <2>8
  <1> QED BY <1>1, <1>2

\* The length of a label that is cut to its content.
LEMMA FittedFacts ==
  ASSUME LayoutInv, Working
  PROVE  /\ CableLength \in Nat /\ CableLength >= 150 * scale
         /\ bottomMargin >= 0 => \A r \in ink : r.y1 <= CableLength
         /\ ~ job.cable /\ bottomMargin = 0 /\ canvas.h <= MaxLengthDots * scale =>
              CableLength <= MaxLengthDots * scale
  <1>1. /\ ink \subseteq Rects /\ canvas.w \in Nat /\ canvas.h \in Int
        /\ \A r \in ink : Inside(r, canvas.w, canvas.h)
        /\ DrawingInv /\ job \in PrintJobs
    BY OnCanvas
  <1>2. LastRow \in Int /\ (LastRow <= canvas.h \/ LastRow = 0) /\ \A r \in ink : r.y1 <= LastRow
    BY <1>1, LastRowFacts
  <1>3. scale \in {1, 2} /\ bottomMargin \in Int /\ Validate(job)
    BY <1>1, Sizes
  <1>4. job.factor \in Int /\ job.factor >= 10 /\ job.cable \in BOOLEAN
    <2>1. \A f \in 10 .. 100 : f \in Int /\ f >= 10
      OBVIOUS
    <2> QED BY <1>1, <1>3, <2>1, JobFacts DEF Validate
  <1>5. /\ Fitted \in Nat /\ Fitted >= 150 * scale /\ Fitted >= LastRow + bottomMargin
        /\ Fitted = LastRow + bottomMargin \/ Fitted = 150 * scale
    <2>1. Fitted = Most(LastRow + bottomMargin, 150 * scale)
      BY DotsFacts DEF Fitted
    <2> QED BY <1>2, <1>3, <2>1 DEF Most
  <1>6. CableLength \in Nat /\ CableLength >= Fitted
    <2>1. CASE ~ job.cable
      BY <1>5, <2>1 DEF CableLength
    <2>2. CASE job.cable
      <3> DEFINE p == Fitted * job.factor
      <3>1. p \in Int /\ p >= Fitted * 10
        BY <1>4, <1>5
      <3>2. CableLength = Rounded(p, 10)
        BY <2>2 DEF CableLength
      <3> HIDE DEF p
      <3> QED BY <1>5, <3>1, <3>2 DEF Rounded
    <2> QED BY <1>4, <2>1, <2>2
  <1>7. ASSUME bottomMargin >= 0 PROVE \A r \in ink : r.y1 <= CableLength
    BY <1>1, <1>2, <1>3, <1>5, <1>6, <1>7, RectFacts
  <1>8. CableLength >= 150 * scale
    BY <1>3, <1>5, <1>6
  <1>9. ASSUME ~ job.cable, bottomMargin = 0, canvas.h <= MaxLengthDots * scale
        PROVE  CableLength <= MaxLengthDots * scale
    <2>1. CableLength = Fitted
      BY <1>9 DEF CableLength
    <2> QED BY <1>1, <1>2, <1>3, <1>5, <1>9, <2>1 DEF MaxLengthDots
  <1> QED BY <1>6, <1>7, <1>8, <1>9

\* The label is cut to its content.
LEMMA AutoFitStep ==
  ASSUME LayoutInv, AutoFit
  PROVE  LayoutInv'
  <1>1. stage = "fit" /\ Working
    BY DEF AutoFit, Working
  <1>2. /\ ink \subseteq Rects /\ canvas.w \in Nat /\ canvas.h \in Int /\ y \in Int
        /\ \A r \in ink : Inside(r, canvas.w, canvas.h)
        /\ DrawingInv /\ BoxesInv /\ InkInv /\ CanvasInv /\ scale \in {1, 2}
    BY <1>1, OnCanvas, Sizes
  <1>3. canvas.w = finalW
    BY <1>1, <1>2 DEF CanvasInv
  <1>4. CASE ~ auto
    <2>1. stage' = "rasterize" /\ UNCHANGED <<job, lines, y, canvas, boxes, ink, lost, pins>>
      BY <1>4 DEF AutoFit, Skip
    <2>2. DrawingInv' /\ Working' /\ BoxesInv' /\ InkInv'
      BY <1>1, <1>2, <2>1, NothingDrawn DEF Stages, Placing
    <2>3. HeightInv' /\ BarsInv' /\ PinsInv'
      BY <2>1 DEF HeightInv, BarsInv, QuietZone, PinsInv
    <2>4. CanvasInv'
      <3>1. finalW' = finalW
        BY <2>1 DEF finalW
      <3> QED BY <1>1, <1>2, <1>4, <2>1, <3>1, MeasuresStay DEF CanvasInv, Placing
    <2> QED BY <2>2, <2>3, <2>4 DEF LayoutInv
  <1>5. CASE auto /\ CableLength > MaxLengthDots * scale
    <2>1. Fails("unfit")
      BY <1>5 DEF AutoFit
    <2> QED BY <1>1, <2>1, FailStep
  <1>6. CASE auto /\ ~ (CableLength > MaxLengthDots * scale)
    <2>1. Keep(ink, finalW, CableLength, "rasterize")
      BY <1>6 DEF AutoFit
    <2>2. /\ CableLength \in Nat /\ CableLength >= 150 * scale
          /\ bottomMargin >= 0 => \A r \in ink : r.y1 <= CableLength
      BY <1>1, FittedFacts
    <2>3. CableLength <= MaxLengthDots * scale
      BY <1>2, <1>6, <2>2 DEF MaxLengthDots
    <2>4. Counted => \A r \in ink : Inside(r, finalW, CableLength)
      <3>1. Counted => bottomMargin >= 0
        BY <1>1, <1>2, Sizes DEF Counted
      <3> QED BY <1>2, <1>3, <2>2, <3>1 DEF Inside
    <2>6. ink \in SUBSET Rects /\ finalW \in Nat
      BY <1>2, <1>3
    <2>7. /\ DrawingInv' /\ Working' /\ BoxesInv' /\ InkInv'
          /\ canvas'.w = finalW /\ canvas'.h = CableLength /\ stage' = "rasterize"
          /\ UNCHANGED <<job, lines, y, boxes, pins>>
      BY <1>1, <2>1, <2>2, <2>4, <2>6, KeepFacts
    <2>8. HeightInv' /\ BarsInv' /\ PinsInv'
      BY <2>7 DEF HeightInv, BarsInv, QuietZone, PinsInv
    <2>9. CanvasInv'
      <3>1. finalW' = finalW
        BY <2>7 DEF finalW
      <3> QED BY <1>6, <2>2, <2>3, <2>7, <3>1, MeasuresStay DEF CanvasInv, Placing
    <2> QED BY <2>7, <2>8, <2>9 DEF LayoutInv
  <1> QED BY <1>4, <1>5, <1>6

\* Columns become pins.
LEMMA RasterizeStep ==
  ASSUME LayoutInv, Rasterize
  PROVE  LayoutInv'
  <1>1. /\ stage = "rasterize" /\ Working /\ stage' = "done"
        /\ pins' = {[from |-> Pin(r.x1 - 1), to |-> Pin(r.x0)] : r \in ink}
        /\ UNCHANGED <<job, lines, y, canvas, boxes, ink, lost>>
    BY DEF Rasterize, Working
  <1>2. /\ ink \subseteq Rects /\ y \in Int
        /\ \A r \in ink : Inside(r, canvas.w, canvas.h) /\ Visible(r)
        /\ DrawingInv /\ BoxesInv /\ InkInv /\ CanvasInv
    BY <1>1, OnCanvas, Sizes
  <1>3. DrawingInv' /\ Working' /\ BoxesInv' /\ InkInv'
    BY <1>1, <1>2, NothingDrawn DEF Stages, Placing
  <1>4. HeightInv' /\ BarsInv'
    BY <1>1 DEF HeightInv, BarsInv, QuietZone
  <1>5. CanvasInv'
    <2>1. finalW' = finalW
      BY <1>1 DEF finalW
    <2> QED BY <1>1, <1>2, <2>1, MeasuresStay DEF CanvasInv, Placing
  <1>6. PinsInv'
    <2> SUFFICES ASSUME NEW p \in pins'
                 PROVE  /\ job.media.right <= p.from /\ p.to < job.media.right + job.media.dots
                        /\ p.from <= p.to /\ p.to < Pins
      BY <1>1 DEF PinsInv
    <2>1. PICK r \in ink : r.x0 < r.x1 /\ p = [from |-> Pin(r.x1 - 1), to |-> Pin(r.x0)]
      BY <1>1, <1>2 DEF Visible
    <2>2. /\ job.media.dots \in Nat /\ job.media.right \in Nat
          /\ job.media.right + job.media.dots <= 720
      BY <1>1, <1>2, Sizes, TableMeasures, Measures
    <2>3. 0 <= r.x0 /\ r.x1 <= job.media.dots /\ r.x0 \in Int /\ r.x1 \in Int
      BY <1>1, <1>2, RectFacts DEF Inside, CanvasInv, finalW
    <2>4. /\ p.from = job.media.right + job.media.dots - r.x1
          /\ p.to = job.media.right + job.media.dots - 1 - r.x0
      BY <2>1, <2>2, <2>3 DEF Pin
    <2> QED BY <2>1, <2>2, <2>3, <2>4 DEF Pins
  <1> QED BY <1>3, <1>4, <1>5, <1>6 DEF LayoutInv

\* Every stage of the renderer keeps the layout sound.
LEMMA RenderStep ==
  ASSUME LayoutInv, Render
  PROVE  LayoutInv'
  BY LineStep, TextEndStep, QRStep, BarcodeStep, ImageStep, RotateStep, SqueezeStep, PasteStep,
     MirrorStep, AutoFitStep, RasterizeStep DEF Render

\* Steps that are no stage of the renderer leave the layout alone.
LEMMA LayoutStays ==
  ASSUME LayoutInv, UNCHANGED layoutVars
  PROVE  LayoutInv'
  <1>1. UNCHANGED <<stage, job, lines, y, canvas, boxes, ink, lost, pins>>
    BY DEF layoutVars
  <1>2. DrawingInv' /\ BoxesInv' /\ InkInv'
    BY <1>1, MeasuresStay DEF LayoutInv, DrawingInv, BoxesInv, InkInv, Working,
      FailsOnlyUnchecked
  <1>3. contentH' = contentH /\ finalW' = finalW
    BY <1>1, MeasuresStay DEF contentH, finalW
  <1>4. HeightInv'
    BY <1>1, <1>3, MeasuresStay DEF LayoutInv, HeightInv
  <1>5. CanvasInv'
    BY <1>1, <1>3, MeasuresStay DEF LayoutInv, CanvasInv
  <1>6. BarsInv' /\ PinsInv'
    BY <1>1 DEF LayoutInv, BarsInv, QuietZone, PinsInv
  <1> QED BY <1>2, <1>4, <1>5, <1>6 DEF LayoutInv

-----------------------------------------------------------------------------
\* The media table as records.
LEMMA TableTypes ==
  MediaTable \subseteq
    [form : {"endless", "diecut", "round"}, width : Nat, length : Nat, dots : Nat, rows : Nat,
     right : Nat, feed : Nat]
  BY DEF MediaTable, Media, Tape, DieCut, Round

\* The jobs pageJob makes are valid.
LEMMA PageJobFacts ==
  ASSUME MediaInv, phase = "printing", NEW page \in PageSizes, NEW hires \in BOOLEAN
  PROVE  PageJob(option, page, hires) \in PrintJobs /\ Validate(PageJob(option, page, hires))
  <1> DEFINE j == PageJob(option, page, hires)
  <1>1. /\ option.media \in MediaTable /\ option.length \in {0, 250, 400, 620, 900}
        /\ option.media.form # "endless" => option.length = 0
    <2>1. Wanted \in Supported /\ option \in ResolveMedia(Wanted, resolvedFor)
      BY DEF MediaInv, ChosenInv, JobInv
    <2> QED BY <2>1, ResolvedOption
  <1>2. asking.copies \in 1 .. 255
    BY DEF MediaInv, JobInv
  <1>3. page \in Size /\ page.w > 0 /\ page.h > 0 /\ page.w \in Nat
    BY LabelsAssumption DEF Size
  <1>4. /\ j.media = option.media /\ j.length = option.length /\ j.copies = asking.copies
        /\ j.cable = FALSE /\ j.factor = 25 /\ j.rotate = 0 /\ j.left = 0 /\ j.right = 0
        /\ j.image = page
    BY DEF PageJob
  <1>5. j \in PrintJobs
    <2>1. option.media \in [form : {"endless", "diecut", "round"}, width : Nat, length : Nat,
                            dots : Nat, rows : Nat, right : Nat, feed : Nat]
      BY <1>1, TableTypes
    <2>2. option.length \in Int /\ asking.copies \in Int
      BY <1>1, <1>2
    <2>3. <<>> \in Seq(Size)
      OBVIOUS
    <2> QED BY <1>3, <2>1, <2>2, <2>3 DEF PrintJobs, PageJob
  <1> HIDE DEF j
  <1>6. Validate(j)
    <2>1. option.media.dots \in Nat /\ option.media.dots >= 94
      BY <1>1, TableMeasures
    <2>2. MMToDots(0) = 0
      BY DotsFacts
    <2>3. HasContent(j)
      BY <1>3, <1>4 DEF HasContent
    <2>4. IF j.media.form = "endless"
          THEN j.length > 0 => j.length \in MinLengthMM .. MaxLengthMM
          ELSE j.length <= 0 /\ ~ j.cable
      BY <1>1, <1>4 DEF MinLengthMM, MaxLengthMM
    <2>5. j.factor \in 10 .. 100 /\ j.left >= 0 /\ j.right >= 0 /\ j.rotate \in {0, 90, 180, 270}
      BY <1>4
    <2>6. MMToDots(j.left) + MMToDots(j.right) < j.media.dots
      BY <1>4, <2>1, <2>2
    <2> QED BY <1>1, <1>2, <1>4, <2>3, <2>4, <2>5, <2>6 DEF Validate
  <1> QED BY <1>5, <1>6 DEF j

\* The layout stays sound at every step.
LEMMA LayoutKeepsInv == MediaInv /\ LayoutInv /\ [Next]_vars => LayoutInv'
  <1> SUFFICES ASSUME MediaInv, LayoutInv, [Next]_vars PROVE LayoutInv'
    OBVIOUS
  <1>1. CASE UNCHANGED layoutVars
    BY <1>1, LayoutStays
  <1>2. CASE RenderPage
    <2>1. PICK page \in PageSizes, hires \in BOOLEAN : Accept(PageJob(option, page, hires))
      BY <1>2 DEF RenderPage
    <2>2. PageJob(option, page, hires) \in PrintJobs
      BY <1>2, PageJobFacts DEF RenderPage
    <2> QED BY <2>1, <2>2, AcceptStep
  <1>3. CASE SubmitJob
    <2>1. PICK j \in ApiJobs : Accept(j)
      BY <1>3 DEF SubmitJob
    <2> QED BY <2>1, LabelsAssumption, AcceptStep
  <1>4. CASE Render
    BY <1>4, RenderStep
  <1> QED BY <1>1, <1>2, <1>3, <1>4 DEF Next, CheckPage, vars

\* The layout is sound before the first job.
LEMMA LayoutInitEstablishes == LayoutInit => LayoutInv
  <1> SUFFICES ASSUME LayoutInit PROVE LayoutInv
    OBVIOUS
  <1>1. /\ stage = "idle" /\ lines = <<>> /\ y = 0 /\ canvas = [w |-> 0, h |-> 0]
        /\ boxes = {} /\ ink = {} /\ lost = {}
    BY DEF LayoutInit
  <1>2. DrawingInv
    BY <1>1 DEF DrawingInv, Working, Stages, Canvases, FailsOnlyUnchecked
  <1>3. BoxesInv /\ InkInv /\ HeightInv /\ CanvasInv /\ BarsInv /\ PinsInv
    BY <1>1 DEF BoxesInv, InkInv, HeightInv, CanvasInv, BarsInv, QuietZone, PinsInv, Working, Placing
  <1> QED BY <1>2, <1>3 DEF LayoutInv

\* A page of an IPP job fits its label.
LEMMA PageFits ==
  ASSUME LayoutInv, PageInv, origin = "ipp"
  PROVE  /\ Working /\ ~ Sideways /\ topMargin = 0 /\ bottomMargin = 0
         /\ stage = "image" => Fits(ImageSize.h)
         /\ stage = "fit" => CableLength <= MaxLengthDots * scale
  <1>1. /\ Working /\ job.image.w > 0 /\ job.fit = "label" /\ job.top = 0 /\ job.bottom = 0
        /\ job.rotate = 0 /\ ~ job.cable /\ (stage = "image" => y = topMargin)
    BY DEF PageInv, Working, Placing
  <1>2. /\ DrawingInv /\ CanvasInv /\ job \in PrintJobs /\ Validate(job) /\ canvas.h \in Int
        /\ scale \in {1, 2} /\ ch \in Nat /\ ch = height * scale /\ height \in Nat
        /\ height <= MaxLengthDots
    BY <1>1, OnCanvas, Sizes, Measures
  <1>3. ~ Sideways
    BY <1>1 DEF Sideways
  <1>4. topMargin = 0 /\ bottomMargin = 0
    <2>1. topMargin = 0 * scale /\ bottomMargin = 0 * scale
      BY <1>1, DotsFacts DEF topMargin, bottomMargin
    <2> QED BY <1>2, <2>1
  <1>5. ASSUME stage = "image" PROVE Fits(ImageSize.h)
    <2>1. BoxH = ch
      BY <1>2, <1>4 DEF BoxH
    <2>2. ch >= 1
      <3>1. height >= 1
        <4>1. CASE auto
          BY <4>1 DEF height, MaxLengthDots
        <4>2. CASE ~ auto /\ job.media.form = "endless"
          <5>1. job.length \in MinLengthMM .. MaxLengthMM
            BY <1>2, <4>2, JobFacts DEF Validate, auto
          <5>2. MMToDots(job.length) >= 150
            BY <5>1, DotsFacts
          <5>3. height = MMToDots(job.length)
            BY <4>2 DEF height, LengthDots
          <5> QED BY <1>2, <5>2, <5>3
        <4>3. CASE ~ auto /\ job.media.form # "endless"
          <5>1. height = job.media.rows /\ job.media \in MediaTable
            BY <1>2, <4>3 DEF height, LengthDots, Validate
          <5> QED BY <4>3, <5>1, TableMeasures
        <4> QED BY <4>1, <4>2, <4>3
      <3> QED BY <1>2, <3>1
    <2>3. ImageSize.h \in Nat /\ ImageSize.h <= ch
      BY <1>1, <1>2, <1>3, <2>1, <2>2, ImageFacts
    <2> QED BY <1>1, <1>2, <1>4, <1>5, <2>3 DEF Fits
  <1>6. ASSUME stage = "fit" PROVE CableLength <= MaxLengthDots * scale
    <2>1. auto => canvas.h <= ch
      BY <1>2, <1>3, <1>4, <1>6 DEF CanvasInv
    <2>2. ~ auto => canvas.h = ch
      BY <1>2, <1>6 DEF CanvasInv
    <2>3. canvas.h <= MaxLengthDots * scale
      <3>1. ch <= MaxLengthDots * scale
        BY <1>2 DEF MaxLengthDots
      <3> QED BY <1>2, <2>1, <2>2, <3>1 DEF MaxLengthDots
    <2> QED BY <1>1, <1>4, <2>3, FittedFacts
  <1> QED BY <1>1, <1>3, <1>4, <1>5, <1>6

-----------------------------------------------------------------------------
\* Each stage hands the page to the next one.
LEMMA PageStep ==
  ASSUME LayoutInv, PageInv, Render, UNCHANGED origin
  PROVE  PageInv'
  <1> SUFFICES ASSUME origin = "ipp" PROVE PageInv'
    BY DEF PageInv
  <1>1. /\ Working /\ ~ Sideways /\ topMargin = 0 /\ bottomMargin = 0
        /\ stage = "image" => Fits(ImageSize.h)
        /\ stage = "fit" => CableLength <= MaxLengthDots * scale
    BY PageFits
  <1>2. /\ stage \in Stages \ {"idle", "refused", "unfit", "internal", "panic"}
        /\ job.text = <<>> /\ job.qr = 0 /\ job.barcode = 0 /\ job.image.w > 0 /\ job.fit = "label"
        /\ job.top = 0 /\ job.bottom = 0 /\ job.rotate = 0 /\ ~ job.cable
        /\ stage = "text" => lines = <<>>
        /\ stage \in Placing => y = topMargin
    BY DEF PageInv
  <1>3. /\ canvas.w \in Nat /\ canvas.h \in Int /\ HeightInv /\ CanvasInv /\ DrawingInv
        /\ job \in PrintJobs
    BY <1>1, OnCanvas
  <1>4. ASSUME job' = job, stage' \in Stages \ {"idle", "refused", "unfit", "internal", "panic"},
               stage' = "text" => lines' = <<>>, stage' \in Placing => y' = topMargin
        PROVE  PageInv'
    BY <1>2, <1>4, MeasuresStay DEF PageInv
  <1>5. CASE PlaceLine
    BY <1>2, <1>5 DEF PlaceLine
  <1>6. CASE EndText
    <2>1. stage = "text" /\ stage' = "qr" /\ job' = job /\ y' = AfterText
      BY <1>6 DEF EndText
    <2>2. y = 0 /\ topMargin = 0
      BY <1>1, <1>2, <2>1 DEF Placing
    <2>3. AfterText = topMargin
      BY <2>2 DEF AfterText
    <2> QED BY <1>4, <2>1, <2>3, MeasuresStay DEF Stages, Placing
  <1>7. CASE PlaceQR
    <2>1. stage = "qr" /\ stage' = "barcode" /\ Skip
      BY <1>2, <1>7 DEF PlaceQR
    <2> QED BY <1>2, <1>4, <2>1 DEF Skip, Stages, Placing
  <1>8. CASE PlaceBarcode
    <2>1. stage = "barcode" /\ stage' = "image" /\ Skip
      BY <1>2, <1>8 DEF PlaceBarcode
    <2> QED BY <1>2, <1>4, <2>1 DEF Skip, Stages, Placing
  <1>9. CASE PlaceImage
    <2>1. stage = "image" /\ job.image.w # 0 /\ Fits(ImageSize.h)
      BY <1>1, <1>2, <1>3, <1>9, JobFacts DEF PlaceImage
    <2>2. ~ Panics(ImageSize.h)
      BY <1>2, <1>3, <2>1 DEF CanvasInv, Placing, Panics
    <2>3. stage' = "rotate" /\ job' = job
      BY <1>9, <2>1, <2>2 DEF PlaceImage, Place
    <2> QED BY <1>4, <2>3 DEF Stages, Placing
  <1>10. CASE Rotate
    <2>1. Keep(ink, cw, contentH, "squeeze")
      BY <1>2, <1>10 DEF Rotate
    <2> QED BY <1>4, <2>1 DEF Keep, Stages, Placing
  <1>11. CASE Squeeze
    BY <1>4, <1>11 DEF Squeeze, Skip, Keep, Stages, Placing
  <1>12. CASE Paste
    <2>1. stage = "paste" /\ canvas.w = finalW /\ canvas.h = contentH
      BY <1>1, <1>3, <1>12 DEF Paste, CanvasInv
    <2>2. contentH <= ch - bottomMargin
      BY <1>3, <2>1 DEF HeightInv
    <2>3. finalH = (IF auto THEN canvas.h ELSE ch) /\ ch \in Nat
      BY <1>1, <1>3, Sizes DEF finalH, ch
    <2>4. ~ (canvas.w > finalW \/ canvas.h > finalH)
      BY <1>1, <1>3, <2>1, <2>2, <2>3
    <2>5. stage' = "mirror" /\ job' = job
      BY <1>12, <2>4 DEF Paste, Keep
    <2> QED BY <1>4, <2>5 DEF Stages, Placing
  <1>13. CASE Mirror
    BY <1>4, <1>13 DEF Mirror, Keep, Stages, Placing
  <1>14. CASE AutoFit
    <2>1. ~ (CableLength > MaxLengthDots * scale)
      <3>1. stage = "fit" /\ CableLength \in Nat
        BY <1>1, <1>14, FittedFacts DEF AutoFit
      <3>2. scale \in {1, 2}
        BY <1>1, <1>3, Sizes
      <3> QED BY <1>1, <3>1, <3>2 DEF MaxLengthDots
    <2>2. stage' = "rasterize" /\ job' = job
      BY <1>14, <2>1 DEF AutoFit, Keep, Skip
    <2> QED BY <1>4, <2>2 DEF Stages, Placing
  <1>15. CASE Rasterize
    BY <1>4, <1>15 DEF Rasterize, Stages, Placing
  <1> QED BY <1>5, <1>6, <1>7, <1>8, <1>9, <1>10, <1>11, <1>12, <1>13, <1>14, <1>15 DEF Render

\* The page stays the whole label at every step.
LEMMA PageKeepsInv == MediaInv /\ LayoutInv /\ PageInv /\ [Next]_vars => PageInv'
  <1> SUFFICES ASSUME MediaInv, LayoutInv, PageInv, [Next]_vars PROVE PageInv'
    OBVIOUS
  <1>1. CASE UNCHANGED <<layoutVars, origin>>
    <2>1. UNCHANGED <<stage, job, lines, y, origin>>
      BY <1>1 DEF layoutVars
    <2> QED BY <2>1, MeasuresStay DEF PageInv
  <1>2. CASE RenderPage
    <2>1. PICK page \in PageSizes, hires \in BOOLEAN : Accept(PageJob(option, page, hires))
      BY <1>2 DEF RenderPage
    <2> DEFINE j == PageJob(option, page, hires)
    <2>2. Validate(j)
      BY <1>2, PageJobFacts DEF RenderPage
    <2>3. /\ j.text = <<>> /\ j.qr = 0 /\ j.barcode = 0 /\ j.image = page /\ j.fit = "label"
          /\ j.top = 0 /\ j.bottom = 0 /\ j.rotate = 0 /\ ~ j.cable /\ page.w > 0
      BY LabelsAssumption DEF PageJob
    <2> HIDE DEF j
    <2>4. stage' = "text" /\ job' = j /\ lines' = j.text /\ y' = topMargin'
      BY <2>1, <2>2 DEF Accept, j
    <2> QED BY <2>3, <2>4 DEF PageInv, Stages
  <1>3. CASE SubmitJob
    BY <1>3 DEF SubmitJob, PageInv
  <1>4. CASE Render /\ UNCHANGED origin
    BY <1>4, PageStep
  <1> QED BY <1>1, <1>2, <1>3, <1>4 DEF Next, CheckPage, vars

\* All of it, at every step of the label: the media a job chose, what is drawn
\* of it, and the page of an IPP job.
LabelInv == MediaInv /\ LayoutInv /\ PageInv

\* Whatever media and jobs come, every stage of the renderer leaves the layout
\* sound (RenderJob of render.go).
THEOREM Rendering == Spec => []LabelInv
  <1>1. Init => LabelInv
    BY MediaInitEstablishes, LayoutInitEstablishes DEF Init, LabelInv, PageInv
  <1>2. LabelInv /\ [Next]_vars => LabelInv'
    BY MediaKeepsInv, LayoutKeepsInv, PageKeepsInv DEF LabelInv
  <1> QED BY <1>1, <1>2, PTL DEF Spec

\* Whatever a job says and whichever label it is for, no element is drawn over
\* another or into a margin (renderJobToCanvas of render.go).
THEOREM Apartness == Spec => []ElementsApart
  <1>1. LabelInv => ElementsApart
    <2> SUFFICES ASSUME LayoutInv PROVE ElementsApart
      BY DEF LabelInv
    <2>1. DrawingInv /\ BoxesInv
      BY DEF LayoutInv
    <2>2. stage \notin {"idle", "refused"} => Validate(job) /\ contentW > 0
      BY <2>1, Sizes DEF Working
    <2>3. LayoutTypeOK
      <3>1. canvas.w \in Nat /\ canvas.h \in Int
        BY <2>1 DEF DrawingInv, Canvases
      <3> QED BY <2>1, <2>2, <3>1 DEF DrawingInv, LayoutTypeOK, Stages, Kinds
    <2>4. CASE Working
      BY <2>1, <2>3, <2>4 DEF BoxesInv, ElementsApart
    <2>5. CASE ~ Working
      BY <2>1, <2>3, <2>5 DEF DrawingInv, ElementsApart
    <2> QED BY <2>4, <2>5
  <1> QED BY <1>1, Rendering, PTL

\* Of a job without negative margins nothing that was drawn is missing on the
\* label, whatever turns, roundings and moves are on the way; and what any job
\* prints, pins over the label print (RenderJob and rasterize of render.go).
THEOREM NothingLost == Spec => []NothingIsCutOff
  <1>1. LabelInv => NothingIsCutOff
    <2> SUFFICES ASSUME LayoutInv, stage = "done"
                 PROVE  /\ Counted => lost \subseteq {"hri"}
                        /\ \A p \in pins : /\ job.media.right <= p.from
                                           /\ p.to < job.media.right + job.media.dots
                        /\ \A p \in pins : p.from <= p.to /\ p.to < Pins
      BY DEF LabelInv, NothingIsCutOff, Counted
    <2> QED BY DEF LayoutInv, InkInv, PinsInv, Working
  <1> QED BY <1>1, Rendering, PTL

\* Every label has a length the printer can print (RenderJob of render.go).
THEOREM PrintableLength == Spec => []LengthIsPrintable
  <1>1. LabelInv => LengthIsPrintable
    <2> SUFFICES ASSUME LayoutInv, stage = "done"
                 PROVE  /\ canvas.w = job.media.dots
                        /\ IF job.media.form = "endless"
                           THEN /\ canvas.h \in 150 * scale .. MaxLengthDots * scale
                                /\ job.length > 0 => canvas.h = MMToDots(job.length) * scale
                           ELSE canvas.h = job.media.rows * scale
      BY DEF LabelInv, LengthIsPrintable
    <2>1. /\ Working /\ canvas.w = finalW /\ (~ auto => canvas.h = ch)
          /\ auto => canvas.h >= 150 * scale /\ canvas.h <= MaxLengthDots * scale
      BY DEF LayoutInv, CanvasInv, Working
    <2>2. /\ job \in PrintJobs /\ Validate(job) /\ scale \in {1, 2} /\ canvas.h \in Int
          /\ ch = height * scale
      BY <2>1, Sizes, Measures DEF LayoutInv
    <2>3. CASE auto
      BY <2>1, <2>2, <2>3, JobFacts DEF auto, finalW, MaxLengthDots
    <2>4. CASE ~ auto /\ job.media.form = "endless"
      <3>1. job.length \in MinLengthMM .. MaxLengthMM
        BY <2>2, <2>4, JobFacts DEF Validate, auto
      <3>2. MMToDots(job.length) >= 150 /\ MMToDots(job.length) <= MaxLengthDots
        BY <3>1, DotsFacts
      <3>3. canvas.h = MMToDots(job.length) * scale
        BY <2>1, <2>2, <2>4 DEF height, LengthDots
      <3>4. MMToDots(job.length) \in Nat
        <4>1. job.length \in Nat
          BY <2>2, <2>4, JobFacts DEF auto
        <4> QED BY <4>1, DotsFacts
      <3>5. canvas.h >= 150 * scale /\ canvas.h <= MaxLengthDots * scale
        <4>1. CASE scale = 1
          BY <3>2, <3>3, <3>4, <4>1 DEF MaxLengthDots
        <4>2. CASE scale = 2
          BY <3>2, <3>3, <3>4, <4>2 DEF MaxLengthDots
        <4> QED BY <2>2, <4>1, <4>2
      <3> QED BY <2>1, <2>2, <2>4, <3>3, <3>5 DEF finalW, MaxLengthDots
    <2>5. CASE ~ auto /\ job.media.form # "endless"
      BY <2>1, <2>2, <2>5 DEF height, LengthDots, finalW
    <2> QED BY <2>3, <2>4, <2>5
  <1> QED BY <1>1, Rendering, PTL

\* Scanners find the bars of every barcode that is printed (drawBarcode of
\* render.go).
THEOREM BarsAreFound == Spec => []QuietZone
  <1>1. LabelInv => QuietZone
    BY DEF LabelInv, LayoutInv, BarsInv
  <1> QED BY <1>1, Rendering, PTL

\* Whatever a job says, it is rendered or turned down with a reason if it was
\* accepted and its media fits: a page of an IPP job always comes out, and any
\* other job ends with an internal error or a panic only for a negative margin
\* or a line of no height, which Validate lets pass (pageJob of pkg/ipp/job.go,
\* Job.Validate of job.go, renderJobToCanvas of render.go).
THEOREM AcceptedRendered == Spec => []AcceptedIsRendered
  <1>1. LabelInv => AcceptedIsRendered
    <2> SUFFICES ASSUME LabelInv PROVE AcceptedIsRendered
      OBVIOUS
    <2>1. stage \in Stages /\ PageInv /\ FailsOnlyUnchecked
      BY DEF LabelInv, LayoutInv, DrawingInv
    <2> QED BY <2>1 DEF AcceptedIsRendered, PagesAreRendered, PageInv, Stages
  <1> QED BY <1>1, Rendering, PTL
=============================================================================
