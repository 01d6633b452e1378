------------------------------- MODULE WebImport -------------------------------
(***************************************************************************)
(* The import of a CSV file.  A file is read in the browser, its columns   *)
(* are mapped, and its rows are sent to the server, which skips those it   *)
(* has.  For transactions of assets a preview lists the rows the server    *)
(* has, by their number in the file, and those that are ticked are         *)
(* imported all the same.                                                  *)
(***************************************************************************)
EXTENDS Naturals, FiniteSets

CONSTANTS
  Files,         \* the files at hand
  RowNumbers,    \* the numbers of the rows of a file
  Records,       \* what a row can say
  RowsOf,        \* RowsOf[f][r]: what row r of file f says
  MaxChoices,    \* bound: files, separators and kinds chosen
  MaxCalls,      \* bound: calls made
  None

ImportAssumption ==
  /\ RowsOf \in [Files -> [RowNumbers -> Records]] /\ MaxChoices \in Nat /\ MaxCalls \in Nat
  /\ None \notin Files /\ RowNumbers \subseteq Nat
  /\ \A f \in Files, r, s \in RowNumbers : RowsOf[f][r] = RowsOf[f][s] => r = s

Types == {"cashflow", "assets"}
Separators == {";", ","}
Texts == Files \X Separators

VARIABLES
  csvImportType, csvFile, csvSep,
  csvMap,            \* whether the required columns are mapped
  csvParsed,         \* None, or the file and the separator it was split by
  reads,             \* files being read: [text, type]
  csvImportPreview,  \* None, or [of, rows, include]
  csvImporting,
  csvImportResult,   \* None, "error" or "done"
  calls,             \* on their way or at the server: [kind, of, include, left, looked, heard, n];
                     \* looked: the server has looked for the rows, or the row, it inserts next
  books,             \* books[t][x]: how often the server has x
  asked,             \* asked[x]: history: how often x was ticked and sent
  overtaken,         \* history: the last read failed, or an older one ended after it
  crossed,           \* history: a preview was shown that is not of the rows at hand
  raced,             \* history: what a call looked for in vain while another one that
                     \* had done so was yet to insert it
  choices, made

fileVars == <<csvImportType, csvFile, csvSep, csvMap, csvParsed, reads, overtaken, choices>>
callVars == <<csvImporting, calls, made>>
serverVars == <<books, asked, raced>>
vars == <<fileVars, callVars, serverVars, csvImportPreview, csvImportResult, crossed>>

Calls == [kind : {"preview"} \cup Types, of : Texts, include : SUBSET RowNumbers,
          left : SUBSET RowNumbers, looked : BOOLEAN, heard : BOOLEAN, n : 1..MaxCalls]

TypeOK ==
  /\ csvImportType \in Types /\ csvFile \in Files \cup {None} /\ csvSep \in Separators
  /\ csvMap \in BOOLEAN /\ csvParsed \in Texts \cup {None} /\ reads \subseteq [text : Texts, type : Types]
  /\ csvImportPreview \in [of : Texts, rows : SUBSET RowNumbers, include : SUBSET RowNumbers] \cup {None}
  /\ calls \subseteq Calls /\ (csvImporting <=> \E c \in calls : ~c.heard)
  /\ books \in [Types -> [Records -> Nat]] /\ asked \in [Records -> 0..MaxCalls]
  /\ csvImportResult \in {None, "error", "done"} /\ raced \subseteq Types \X Records

Text == <<csvFile, csvSep>>

Init ==
  /\ csvImportType \in Types /\ csvFile = None /\ csvSep = ";" /\ csvMap = FALSE /\ csvParsed = None
  /\ reads = {} /\ csvImportPreview = None /\ csvImporting = FALSE /\ csvImportResult = None /\ calls = {}
  /\ books \in [Types -> [Records -> 0..1]] /\ (\A t \in Types : books[t] = books["assets"])
  /\ asked = [x \in Records |-> 0] /\ overtaken = FALSE /\ crossed = FALSE /\ raced = {} /\ choices = 0 /\ made = 0

(***************************************************************************)
(* The file                                                                *)
(***************************************************************************)
Chooses == choices < MaxChoices /\ choices' = choices + 1

ReadCsv(text) == reads' = reads \cup {[text |-> text, type |-> csvImportType]}

(* Mutant: the preview of the last file stays. *)
PreviewStays == csvImportPreview

NoPreview == None

HandleCSVUpload(f) ==
  /\ Chooses /\ csvFile' = f /\ csvImportResult' = None /\ csvImportPreview' = NoPreview
  /\ ReadCsv(<<f, csvSep>>) /\ overtaken' = FALSE
  /\ UNCHANGED <<csvImportType, csvSep, csvMap, csvParsed, callVars, serverVars, crossed>>
(* More than two megabytes. *)
RefuseUpload ==
  /\ csvImportResult' = "error"
  /\ UNCHANGED <<fileVars, callVars, serverVars, csvImportPreview, crossed>>

(* Mutant: the rows stay as they were split. *)
NotAgain(sep) == UNCHANGED <<reads, overtaken>>

ReadAgain(sep) ==
  IF csvFile = None THEN UNCHANGED <<reads, overtaken>> ELSE ReadCsv(<<csvFile, sep>>) /\ overtaken' = FALSE

HandleCsvSepChange(sep) ==
  /\ sep # csvSep /\ Chooses /\ csvSep' = sep /\ csvImportPreview' = None /\ ReadAgain(sep)
  /\ UNCHANGED <<csvImportType, csvFile, csvMap, csvParsed, csvImportResult, callVars, serverVars, crossed>>

SetCsvImportType(t) ==
  /\ Chooses /\ csvImportType' = t /\ csvMap' = FALSE /\ csvImportPreview' = None
  /\ UNCHANGED <<csvFile, csvSep, csvParsed, reads, overtaken, csvImportResult, callVars, serverVars, crossed>>

(* The columns of a cash flow are recognised by their names: by the kind   *)
(* that was chosen when the read began.                                    *)
InferCashflowCsvMap(r) ==
  csvMap' = IF r.type = "cashflow" THEN r.text[2] = ";" ELSE csvMap

HearRead(r) ==
  /\ reads' = reads \ {r} /\ csvParsed' = r.text /\ InferCashflowCsvMap(r)
  /\ overtaken' = (r.text # Text /\ \A s \in reads : s.text # Text)
  /\ UNCHANGED <<csvImportType, csvFile, csvSep, choices, callVars, serverVars, csvImportPreview>>
  /\ UNCHANGED <<csvImportResult, crossed>>
(* An error of the reader is not heard. *)
NotRead(r) ==
  /\ reads' = reads \ {r} /\ overtaken' = TRUE
  /\ UNCHANGED <<csvImportType, csvFile, csvSep, csvMap, csvParsed, choices, callVars, serverVars>>
  /\ UNCHANGED <<csvImportPreview, csvImportResult, crossed>>

SetCsvMap(m) ==
  /\ csvParsed # None /\ m # csvMap /\ csvMap' = m /\ csvImportPreview' = None
  /\ UNCHANGED <<csvImportType, csvFile, csvSep, csvParsed, reads, overtaken, choices>>
  /\ UNCHANGED <<csvImportResult, callVars, serverVars, crossed>>

SetDuplicateRows(rows) ==
  /\ csvImportPreview # None /\ rows # csvImportPreview.include
  /\ csvImportPreview' = [csvImportPreview EXCEPT !.include = rows]
  /\ UNCHANGED <<fileVars, callVars, serverVars, csvImportResult, crossed>>

(***************************************************************************)
(* The calls                                                               *)
(***************************************************************************)
(* Mutant: the buttons stay enabled while a call is on its way. *)
FreeAnyTime == TRUE

Free == ~csvImporting

(* The rows of a file split by the wrong separator say nothing.            *)
BuildCashflowImportRows(text) == IF text[2] = ";" THEN RowNumbers ELSE {}

HasRequiredCsvMapping == csvMap
HasPayload == csvParsed # None /\ HasRequiredCsvMapping
Sends(kind, include) ==
  /\ HasPayload /\ Free /\ made < MaxCalls /\ made' = made + 1 /\ csvImporting' = TRUE
  /\ calls' = calls \cup {[kind |-> kind, of |-> csvParsed, include |-> include, heard |-> FALSE,
                           looked |-> FALSE, left |-> BuildCashflowImportRows(csvParsed),
                           n |-> made + 1]}
  /\ UNCHANGED <<fileVars, books, raced, csvImportPreview, csvImportResult, crossed>>

(* Mutant: without a tick, all of the preview. *)
AllListed == IF csvImportType = "assets" /\ csvImportPreview # None THEN csvImportPreview.rows ELSE {}

Included == IF csvImportType = "assets" /\ csvImportPreview # None THEN csvImportPreview.include ELSE {}

(* What was ticked is what the preview listed.                             *)
Wanted(x) == csvImportType = "assets" /\ csvImportPreview # None
             /\ \E r \in csvImportPreview.include : RowsOf[csvImportPreview.of[1]][r] = x

DoImportCSV ==
  /\ Sends(csvImportType, Included)
  /\ asked' = [x \in Records |-> IF Wanted(x) THEN asked[x] + 1 ELSE asked[x]]
PreviewImportCSV == csvImportType = "assets" /\ Sends("preview", {}) /\ UNCHANGED asked

(* Mutant: the flag waits for a success. *)
StaysUp == csvImporting

Down == FALSE

(* A call that timed out goes on at the server, row after row.             *)
Heard(c) == calls' = (calls \ {c}) \cup IF c.left = {} THEN {} ELSE {[c EXCEPT !.heard = TRUE]}

HearPreview(c) ==
  /\ c.kind = "preview" /\ calls' = calls \ {c} /\ csvImporting' = FALSE
  /\ LET has == {r \in c.left : books["assets"][RowsOf[c.of[1]][r]] > 0} IN
     csvImportPreview' = [of |-> c.of, rows |-> has, include |-> {}]
  /\ crossed' = (crossed \/ c.of # csvParsed \/ reads # {})
  /\ UNCHANGED <<fileVars, made, serverVars, csvImportResult>>
HearImport(c) ==
  /\ c.kind # "preview" /\ c.left = {} /\ ~c.heard /\ calls' = calls \ {c} /\ csvImporting' = FALSE
  /\ csvImportResult' = "done"
  /\ UNCHANGED <<fileVars, made, serverVars, csvImportPreview, crossed>>
HearNoPreview(c) ==
  /\ c.kind = "preview" /\ calls' = calls \ {c} /\ csvImportPreview' = None /\ csvImporting' = Down
  /\ UNCHANGED <<fileVars, made, serverVars, csvImportResult, crossed>>
HearLost(c) ==
  /\ c.kind # "preview" /\ ~c.heard /\ Heard(c) /\ csvImportResult' = "error" /\ csvImporting' = Down
  /\ UNCHANGED <<fileVars, made, serverVars, csvImportPreview, crossed>>

(***************************************************************************)
(* The server                                                              *)
(***************************************************************************)
(* The two workers serve two calls at once, and nothing locks the rows: a   *)
(* call that looks for a row does not see what another is about to insert. *)
Says(c, r) == RowsOf[c.of[1]][r]
Has(t, x) == books[t][x] > 0
Turn(c) == IF c.kind = "assets" THEN {r \in c.left : \A s \in c.left : r <= s} ELSE c.left
Unasked(c, t, x) == c.kind = t /\ c.looked /\ \E r \in Turn(c) \ c.include : Says(c, r) = x
Races(c, t, rows) ==
  {<<t, x>> : x \in {y \in {Says(c, r) : r \in rows} : \E d \in calls : Unasked(d, t, y)}}

(* A call that timed out leaves the server when it has no rows left.       *)
Goes(c, left, looked) ==
  calls' = (calls \ {c}) \cup IF c.heard /\ left = {} THEN {}
                              ELSE {[c EXCEPT !.left = left, !.looked = looked]}
ServerOnly == UNCHANGED <<fileVars, csvImporting, made, asked, csvImportPreview, csvImportResult, crossed>>

(* A cash flow is imported in one transaction, which begins by reading the *)
(* rows there are.                                                         *)
LookForExpenses(c) ==
  /\ c.kind = "cashflow" /\ ~c.looked /\ c.left # {}
  /\ LET new == {r \in c.left : ~Has("cashflow", Says(c, r))} IN
     Goes(c, new, TRUE) /\ raced' = raced \cup Races(c, "cashflow", new)
  /\ UNCHANGED books /\ ServerOnly
ImportExpenses(c) ==
  /\ c.kind = "cashflow" /\ c.looked /\ c.left # {}
  /\ books' = [books EXCEPT !["cashflow"] = [x \in Records |->
       IF \E r \in c.left : Says(c, r) = x THEN @[x] + 1 ELSE @[x]]]
  /\ Goes(c, {}, TRUE) /\ UNCHANGED raced /\ ServerOnly
(* Transactions of assets are imported one by one; what is there and was   *)
(* not ticked is skipped.                                                  *)
LookForAsset(c, r) ==
  /\ c.kind = "assets" /\ ~c.looked /\ r \in Turn(c)
  /\ IF Has("assets", Says(c, r)) /\ r \notin c.include
     THEN Goes(c, c.left \ {r}, FALSE) /\ UNCHANGED raced
     ELSE Goes(c, c.left, TRUE) /\ raced' = raced \cup Races(c, "assets", {r} \ c.include)
  /\ UNCHANGED books /\ ServerOnly
ImportAsset(c, r) ==
  /\ c.kind = "assets" /\ c.looked /\ r \in Turn(c)
  /\ books' = [books EXCEPT !["assets"][Says(c, r)] = @ + 1]
  /\ Goes(c, c.left \ {r}, FALSE) /\ UNCHANGED raced /\ ServerOnly

Next ==
  \/ \E f \in Files : HandleCSVUpload(f)
  \/ RefuseUpload
  \/ \E s \in Separators : HandleCsvSepChange(s)
  \/ \E t \in Types : SetCsvImportType(t)
  \/ \E r \in reads : HearRead(r) \/ NotRead(r)
  \/ \E m \in BOOLEAN : SetCsvMap(m)
  \/ csvImportPreview # None /\ \E rows \in SUBSET csvImportPreview.rows : SetDuplicateRows(rows)
  \/ DoImportCSV \/ PreviewImportCSV
  \/ \E c \in calls : HearPreview(c) \/ HearImport(c) \/ HearNoPreview(c) \/ HearLost(c)
                      \/ LookForExpenses(c) \/ ImportExpenses(c)
                      \/ \E r \in c.left : LookForAsset(c, r) \/ ImportAsset(c, r)

(* A call is answered, or times out. *)
Answers == \E c \in calls : HearPreview(c) \/ HearImport(c) \/ HearNoPreview(c) \/ HearLost(c)
Spec == Init /\ [][Next]_vars /\ WF_vars(Answers)

(***************************************************************************)
(* Properties                                                              *)
(***************************************************************************)
(* Once the files are read, the rows at hand are of the file that is named *)
(* above them, split by the separator that is highlighted.                 *)
RowsAreOfTheFileShown == csvFile # None /\ reads = {} /\ ~overtaken => csvParsed = Text

(* An import brings nothing the server has, however often it is repeated,  *)
(* also after an answer that was lost, unless it was ticked: then it comes *)
(* once for each time.  Excepted is a row that two calls looked for before *)
(* either inserted it: a retry that catches up with the call it repeats.   *)
NothingTwiceUnasked ==
  \A x \in Records :
    /\ <<"cashflow", x>> \notin raced => books["cashflow"][x] <= 1
    /\ ~crossed /\ <<"assets", x>> \notin raced => books["assets"][x] <= 1 + asked[x]

(* One call at a time: an import is not repeated by a second click.        *)
OneImportAtATime == \A c, d \in calls : ~c.heard /\ ~d.heard => c = d

Working == csvImporting

(* The buttons are enabled again, whatever becomes of the call.            *)
ImportingEnds == Working ~> ~Working

(***************************************************************************)
(* The inductive invariant                                                 *)
(***************************************************************************)
(* A preview is of the rows at hand, as long as none came late.            *)
PreviewFields == {"of", "rows", "include"}
FileInv ==
  /\ csvImportType \in Types /\ csvFile \in Files \cup {None} /\ csvSep \in Separators
  /\ csvParsed \in Texts \cup {None} /\ \A r \in reads : r.text \in Texts
  /\ csvImportPreview # None =>
       /\ DOMAIN csvImportPreview = PreviewFields /\ csvImportPreview.of \in Texts
       /\ csvImportPreview.rows \subseteq RowNumbers /\ csvImportPreview.include \subseteq RowNumbers
       /\ ~crossed => reads = {} /\ csvImportPreview.of = csvParsed

(* Calls are numbered; the one that is awaited has the flag.               *)
CallFields == {"kind", "of", "include", "left", "looked", "heard", "n"}
CallInv ==
  /\ made \in Nat
  /\ \A c \in calls :
       /\ DOMAIN c = CallFields /\ c.of \in Texts /\ c.left \subseteq RowNumbers /\ c.n \in 1..made
       /\ c.kind = "preview" => ~c.heard
       /\ c.kind = "cashflow" => c.include = {}
       /\ ~c.heard => csvImporting
  /\ \A c, d \in calls : c.n = d.n => c = d

(* The calls that will still import x because it was ticked.  What the     *)
(* server has of x and will have by them was asked for, but for one; that  *)
(* one is not there yet while a call is about to insert x unasked.         *)
Pends(c, x) == c.kind = "assets" /\ \E r \in c.left \cap c.include : Says(c, r) = x
Due(x) == {c.n : c \in {d \in calls : Pends(d, x)}}
Alone(t, x) == \A c, d \in calls : Unasked(c, t, x) /\ Unasked(d, t, x) => c = d
Once(x) ==
  /\ books["cashflow"][x] <= 1 /\ Alone("cashflow", x)
  /\ \A c \in calls : Unasked(c, "cashflow", x) => books["cashflow"][x] = 0
Counted(x) ==
  /\ Cardinality(Due(x)) <= asked[x] /\ books["assets"][x] + Cardinality(Due(x)) <= 1 + asked[x]
  /\ Alone("assets", x)
  /\ \A c \in calls : Unasked(c, "assets", x) => books["assets"][x] + Cardinality(Due(x)) <= asked[x]
DueInv ==
  /\ books \in [Types -> [Records -> Nat]] /\ asked \in [Records -> Nat]
  /\ \A x \in Records : <<"cashflow", x>> \notin raced => Once(x)
  /\ ~crossed => \A x \in Records : <<"assets", x>> \notin raced => Counted(x)

IInv == FileInv /\ CallInv /\ OneImportAtATime /\ DueInv
=============================================================================
