--------------------------- MODULE MCSplitRecurring ---------------------------
(* Small instances of SplitRecurring with months of one or two days.  In   *)
(* "alone" one process serves the requests and runs the daily timer: for   *)
(* run calendar over three months of different lengths, with years of two  *)
(* months and every frequency and method, and for run edited monthly, where*)
(* the user may change day_of_month.  In "cron" a second system moves      *)
(* instead: the daily timer next to a worker, of which one may die in a    *)
(* request, and two members; in "overlap" it is two workers, the first of  *)
(* which runs the timer too, and a template that expires.                  *)
EXTENDS SplitRecurring

CONSTANTS ana, ben, w1, w2, cron,
  Parts    \* which of the three a run is about

VARIABLES part, row, plan, made, group, date, served, deaths, under

Cron2 == INSTANCE SplitRecurring WITH
  Members <- {ana, ben}, Creator <- ana, Workers <- {w1}, Cron <- cron,
  Length <- <<1, 1>>, YearLength <- 12, Starts <- {<<1, 1>>},
  Ends <- {None}, MonthDays <- {1}, Frequencies <- {"MONTHLY"},
  Methods <- {"EQUAL"}, MaxCrashes <- 1,
  rec <- row, template <- plan, occ <- made, active <- group, today <- date,
  proc <- served, crashes <- deaths, early <- under

Two == INSTANCE SplitRecurring WITH
  Members <- {ana}, Creator <- ana, Workers <- {w1, w2}, Cron <- w1,
  Length <- <<1, 1>>, YearLength <- 12, Starts <- {<<1, 1>>},
  Ends <- {<<1, 1>>}, MonthDays <- {1}, Frequencies <- {"MONTHLY"},
  Methods <- {"EQUAL"}, MaxCrashes <- 0,
  rec <- row, template <- plan, occ <- made, active <- group, today <- date,
  proc <- served, crashes <- deaths, early <- under

otherVars == <<row, plan, made, group, date, served, deaths, under>>

MCLength == <<2, 1, 2>>
MCStarts == {<<1, 2>>, <<2, 1>>}
MCStartsEdited == {<<1, 1>>}
MCEnds == {None, <<2, 1>>}
MCEndsEdited == {None}

ASSUME RecurringAssumptions ==
  /\ Parts \subseteq {"alone", "cron", "overlap"} /\ RecurringAssumption
  /\ Cron2!RecurringAssumption /\ Two!RecurringAssumption

MCInit ==
  /\ part \in Parts /\ Init
  /\ IF part = "overlap" THEN Two!Init ELSE Cron2!Init
  /\ part = "alone" => date = <<1, 1>>
  /\ part # "alone" => today = <<1, 1>>

MCNext ==
  /\ \/ part = "alone" /\ Next /\ UNCHANGED otherVars
     \/ part = "cron" /\ Cron2!Next /\ UNCHANGED allVars
     \/ /\ part = "overlap" /\ Two!Next /\ UNCHANGED allVars
        /\ row # None => group' = group
  /\ UNCHANGED part

(* A request that is being served goes on, and the daily timer is          *)
(* persistent, so the command is run again and again.                      *)
Served(p) == part = "cron" /\ Cron2!Work(p) /\ Cron2!Remember /\ UNCHANGED <<part, allVars>>
Fired == part = "cron" /\ Cron2!CronFetch /\ Cron2!Remember /\ UNCHANGED <<part, allVars>>

MCSpec ==
  /\ MCInit /\ [][MCNext]_<<part, allVars, otherVars>>
  /\ \A p \in {w1, cron} : WF_<<part, allVars, otherVars>>(Served(p))
  /\ WF_<<part, allVars, otherVars>>(Fired)

(* Next to the worker too no occurrence is ever without shares, and one    *)
(* that is due by the row as it stands, whose participants are members, is *)
(* generated in the end unless the row or the group changes: the timer     *)
(* repairs what a crash, a deletion or a refused attempt left out.         *)
CronGeneratesOwed ==
  /\ [](part = "cron" => Cron2!TypeOK /\ Cron2!NoOccurrenceWithoutShares)
  /\ \A t \in Cron2!Calendar :
       part = "cron" /\ Cron2!Owed(t) ~> made[t] # None \/ ~Cron2!Owed(t)

(* Two workers: a deleted recurring expense is left alone by all that      *)
(* arrives after its deletion.                                             *)
DeletedIsLeftAlone == QuietAfterDeletion /\ Two!QuietAfterDeletion
=============================================================================
