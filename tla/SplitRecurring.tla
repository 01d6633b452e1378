----------------------------- MODULE SplitRecurring -----------------------------
(***************************************************************************)
(* A recurring expense of a group (SplitRecurringExpense) and the          *)
(* occurrences generated from it.  The API requests are served by the      *)
(* gunicorn workers; the process Cron is the daily systemd timer that runs *)
(* generate_split_recurring_expenses.  A request reads the row, works on   *)
(* its copy and writes back outside any transaction, so that two of them   *)
(* interleave at every read and write; one occurrence is created by one    *)
(* transaction and is one step.                                            *)
(* A date is <<month, day>>; the months are numbered from 1, and            *)
(* Length[m] is the number of days of month m.                             *)
(***************************************************************************)
EXTENDS Integers, FiniteSets, Sequences

CONSTANTS
  Members,        \* the identities of the group
  Creator,        \* the member who created the group
  Workers, Cron,  \* the processes
  Length,         \* Length[m]: the days of month m
  YearLength,     \* the months of a year
  Starts, Ends,   \* the dates users enter; None in Ends is an open end
  MonthDays,      \* the days of the month users enter
  Frequencies,    \* a subset of {"MONTHLY", "YEARLY"}
  Methods,        \* a subset of {"EQUAL", "EXACT"}
  MaxCrashes,     \* processes that die in a request
  None

Months == 1..Len(Length)
Dates == {<<m, d>> : m \in Months, d \in 1..31}
Calendar == {t \in Dates : t[2] <= Length[t[1]]}

RecurringAssumption ==
  /\ Creator \in Members /\ YearLength \in Nat \ {0}
  /\ Length \in Seq(1..31) /\ Length # <<>>
  /\ Starts \subseteq Calendar /\ Ends \subseteq Calendar \cup {None}
  /\ MonthDays \subseteq 1..31 /\ MaxCrashes \in Nat
  /\ Frequencies \subseteq {"MONTHLY", "YEARLY"}
  /\ Methods \subseteq {"EQUAL", "EXACT"}
  /\ None \notin Calendar /\ \A sharers \in SUBSET Members : sharers # None

VARIABLES
  rec,       \* the row of the recurring expense, None before it is created
  template,  \* its SplitRecurringExpenseParticipant rows
  occ,       \* occ[d]: who shares the occurrence due on d, None if there is none
  active,    \* the active members of the group
  today,
  proc,      \* proc[p]: the request process p serves, with its copy of the row
  crashes,
  early      \* history: the processes that were serving a request when the
             \* row was last deleted, and still are

vars == <<rec, template, occ, active, today, proc, crashes>>
allVars == <<vars, early>>

Processes == Workers \cup {Cron}

Before(s, t) == s[1] < t[1] \/ (s[1] = t[1] /\ s[2] < t[2])
YearMonth(m) == ((m - 1) % YearLength) + 1
Lesser(a, b) == IF a <= b THEN a ELSE b

Rows ==
  {r \in [status : {"ACTIVE", "DISABLED", "DELETED"}, on : BOOLEAN,
          start : Starts, end : Ends, day : MonthDays,
          freq : Frequencies, dueMonth : 0..YearLength, method : Methods] :
     /\ r.status = "DELETED" => ~r.on
     /\ r.dueMonth = 0 <=> r.freq = "MONTHLY"}

Templates ==
  {t \in [payer : Members, plan : SUBSET Members, method : Methods] :
     /\ t.payer \in t.plan
     /\ t.method = "EQUAL" => t.plan = {t.payer}}

Live(r) == r.status = "ACTIVE" /\ r.on
Expired(r) == Live(r) /\ r.end # None /\ Before(r.end, today)
Switched(r, status) == [r EXCEPT !.status = status, !.on = status = "ACTIVE"]

ActiveOn(r, t) ==
  /\ Live(r)
  /\ ~Before(t, r.start)
  /\ r.end # None => ~Before(r.end, t)

(* Mutant: no occurrence in a month that is too short. *)
OccurrenceDateIfLongEnough(r, m) ==
  IF (r.freq = "YEARLY" /\ YearMonth(m) # r.dueMonth) \/ r.day > Length[m]
  THEN None
  ELSE <<m, r.day>>

OccurrenceDate(r, m) ==
  IF r.freq = "YEARLY" /\ YearMonth(m) # r.dueMonth
  THEN None
  ELSE <<m, Lesser(r.day, Length[m])>>

DueIn(r, m) ==
  OccurrenceDate(r, m) # None /\ ActiveOn(r, OccurrenceDate(r, m))

(* Who shares an occurrence of the copy r: the split method is the copy's, *)
(* the template rows are read when the occurrence is created.              *)
Sharers(r) ==
  IF r.method = "EQUAL" THEN active ELSE template.plan

Resolves(r) ==
  IF r.method = "EQUAL"
  THEN template.payer \in active
  ELSE template.method # "EQUAL" /\ template.plan \subseteq active

(* Mutant: the expense is committed before its participants are resolved. *)
WithOccurrenceFirst(r, t) ==
  IF occ[t] = None
  THEN [occ EXCEPT ![t] = IF Resolves(r) THEN Sharers(r) ELSE {}]
  ELSE occ

(* An occurrence that exists is left alone; one whose participants do not *)
(* resolve is rolled back with its shares and skipped.                     *)
WithOccurrence(r, t) ==
  IF occ[t] = None /\ Resolves(r)
  THEN [occ EXCEPT ![t] = Sharers(r)]
  ELSE occ

(***************************************************************************)
(* Processes.                                                              *)
(***************************************************************************)
Idle == [at |-> "idle", op |-> None, copy |-> None, month |-> 0, last |-> 0]

Typed ==
  /\ rec \in Rows \cup {None} /\ template \in Templates \cup {None}
  /\ occ \in [Calendar -> (SUBSET Members) \cup {None}]
  /\ active \subseteq Members /\ today \in Calendar
  /\ proc \in [Processes ->
       [at : {"idle", "loaded", "backfill", "month", "answered"},
        op : {None, "cron", "save", "generate", "destroy", "enable", "disable"},
        copy : Rows \cup {None},
        month : 0..Len(Length) + 1, last : 0..Len(Length)]]
  /\ crashes \in 0..MaxCrashes

TypeOK == Typed /\ early \subseteq Processes

Init ==
  /\ rec = None /\ template = None
  /\ occ = [t \in Calendar |-> None]
  /\ active = Members
  /\ today \in Calendar
  /\ proc = [p \in Processes |-> Idle]
  /\ crashes = 0
  /\ early = {}

Goto(p, at, op, copy) ==
  proc' = [proc EXCEPT ![p] =
             [at |-> at, op |-> op, copy |-> copy, month |-> 0, last |-> 0]]

Access(u) == u = Creator \/ u \in active

(* disable_expired_split_recurrings(u) *)
AfterSweep(u) ==
  IF u \in active /\ Expired(rec) THEN Switched(rec, "DISABLED") ELSE rec

ValidRows ==
  {r \in Rows : r.end # None => ~Before(r.end, r.start) /\ ~Before(r.end, today)}

ValidTemplates(method) ==
  {t \in Templates : t.method = method /\ t.plan \subseteq active}

Create(p) ==
  /\ rec = None /\ proc[p].at = "idle"
  /\ \E u \in Members : Access(u)
  /\ \E r \in ValidRows :
       /\ rec' = r
       /\ template' \in ValidTemplates(r.method)
       /\ Goto(p, "backfill", "save", r)
  /\ UNCHANGED <<occ, active, today, crashes>>

(* Mutant: get_queryset without its exclude. *)
FoundAnyway(r) == r # None

(* get_object of an update, destroy, enable or disable request. *)
Found(r) == r.status # "DELETED"

Load(p) ==
  /\ rec # None /\ proc[p].at = "idle"
  /\ \E u \in Members : Access(u) /\ rec' = AfterSweep(u)
  /\ Found(rec')
  /\ \E op \in {"save", "destroy", "enable", "disable"} : Goto(p, "loaded", op, rec')
  /\ UNCHANGED <<template, occ, active, today, crashes>>

(* PUT or PATCH: the whole row is written, the fields that the request     *)
(* does not change from the copy.  The request may change several fields   *)
(* at once; a new method comes with a new template.                        *)
Save(p) ==
  /\ proc[p].at = "loaded" /\ proc[p].op = "save"
  /\ \E r \in ValidRows :
       /\ \/ r.method = proc[p].copy.method /\ UNCHANGED template
          \/ template' \in ValidTemplates(r.method)
       /\ rec' = r
       /\ Goto(p, "backfill", "save", r)
  /\ UNCHANGED <<occ, active, today, crashes>>

(* A request that validate() or the template refuses. *)
Refuse(p) ==
  /\ proc[p].at = "loaded" /\ proc[p].op = "save"
  /\ Goto(p, "answered", "save", proc[p].copy)
  /\ UNCHANGED <<rec, template, occ, active, today, crashes>>

(* Mutant: is_active is not in update_fields. *)
DestroyStatusOnly(p) ==
  /\ proc[p].at = "loaded" /\ proc[p].op = "destroy"
  /\ rec' = [rec EXCEPT !.status = "DELETED"]
  /\ Goto(p, "answered", "destroy", Switched(proc[p].copy, "DELETED"))
  /\ UNCHANGED <<template, occ, active, today, crashes>>

Destroy(p) ==
  /\ proc[p].at = "loaded" /\ proc[p].op = "destroy"
  /\ rec' = Switched(rec, "DELETED")
  /\ Goto(p, "answered", "destroy", Switched(proc[p].copy, "DELETED"))
  /\ UNCHANGED <<template, occ, active, today, crashes>>

Enable(p) ==
  /\ proc[p].at = "loaded" /\ proc[p].op = "enable"
  /\ rec' = Switched(rec, "ACTIVE")
  /\ Goto(p, "backfill", "enable", Switched(proc[p].copy, "ACTIVE"))
  /\ UNCHANGED <<template, occ, active, today, crashes>>

Disable(p) ==
  /\ proc[p].at = "loaded" /\ proc[p].op = "disable"
  /\ rec' = Switched(rec, "DISABLED")
  /\ Goto(p, "answered", "disable", Switched(proc[p].copy, "DISABLED"))
  /\ UNCHANGED <<template, occ, active, today, crashes>>

(* The generate request of one month. *)
Generate(p) ==
  /\ rec # None /\ proc[p].at = "idle"
  /\ \E u \in active, m \in Months :
       /\ rec' = AfterSweep(u)
       /\ \/ /\ Live(rec')
             /\ proc' = [proc EXCEPT ![p] =
                  [at |-> "month", op |-> "generate", copy |-> rec',
                   month |-> m, last |-> m]]
          \/ ~Live(rec') /\ UNCHANGED proc
  /\ UNCHANGED <<template, occ, active, today, crashes>>

(* The systemd timer fires: the command fetches the active rows. *)
CronFetch ==
  /\ rec # None /\ Live(rec) /\ proc[Cron].at = "idle"
  /\ Goto(Cron, "backfill", "cron", rec)
  /\ UNCHANGED <<rec, template, occ, active, today, crashes>>

(***************************************************************************)
(* backfill_recurring_split_expense                                        *)
(***************************************************************************)
LastMonth(r) == IF r.end # None THEN r.end[1] ELSE today[1]

(* Mutant: the sweep updates the row and not the copy that is answered. *)
BackfillUpdatesRowOnly(p) ==
  /\ proc[p].at = "backfill"
  /\ LET copy == proc[p].copy IN
     \/ /\ Expired(copy)
        /\ rec' = Switched(rec, "DISABLED")
        /\ Goto(p, "answered", proc[p].op, copy)
     \/ /\ ~Expired(copy)
        /\ UNCHANGED rec
        /\ IF Live(copy) /\ copy.start[1] <= LastMonth(copy)
           THEN proc' = [proc EXCEPT ![p].at = "month", ![p].month = copy.start[1],
                                     ![p].last = LastMonth(copy)]
           ELSE Goto(p, "answered", proc[p].op, copy)
  /\ UNCHANGED <<template, occ, active, today, crashes>>

Backfill(p) ==
  /\ proc[p].at = "backfill"
  /\ LET copy == proc[p].copy IN
     \/ /\ Expired(copy)
        /\ rec' = Switched(rec, "DISABLED")
        /\ Goto(p, "answered", proc[p].op, Switched(copy, "DISABLED"))
     \/ /\ ~Live(copy) \/ (~Expired(copy) /\ copy.start[1] > LastMonth(copy))
        /\ UNCHANGED rec
        /\ Goto(p, "answered", proc[p].op, copy)
     \/ /\ Live(copy) /\ ~Expired(copy) /\ copy.start[1] <= LastMonth(copy)
        /\ UNCHANGED rec
        /\ proc' = [proc EXCEPT ![p].at = "month", ![p].month = copy.start[1],
                                ![p].last = LastMonth(copy)]
  /\ UNCHANGED <<template, occ, active, today, crashes>>

(* Mutant: the loop stops before the last month. *)
MonthButLast(p) ==
  LET month == proc[p].month
      copy == proc[p].copy IN
  /\ proc[p].at = "month" /\ month <= proc[p].last
  /\ occ' = IF DueIn(copy, month) /\ (month < proc[p].last \/ proc[p].op = "generate")
            THEN WithOccurrence(copy, OccurrenceDate(copy, month))
            ELSE occ
  /\ proc' = [proc EXCEPT ![p].month = month + 1]
  /\ UNCHANGED <<rec, template, active, today, crashes>>

(* One month of the loop; also the only one of a generate request. *)
Month(p) ==
  LET month == proc[p].month
      copy == proc[p].copy IN
  /\ proc[p].at = "month" /\ month <= proc[p].last
  /\ occ' = IF DueIn(copy, month)
            THEN WithOccurrence(copy, OccurrenceDate(copy, month))
            ELSE occ
  /\ proc' = [proc EXCEPT ![p].month = month + 1]
  /\ UNCHANGED <<rec, template, active, today, crashes>>

LoopEnds(p) ==
  /\ proc[p].at = "month" /\ proc[p].month > proc[p].last
  /\ proc' = [proc EXCEPT ![p].at = "answered"]
  /\ UNCHANGED <<rec, template, occ, active, today, crashes>>

Answer(p) ==
  /\ proc[p].at = "answered"
  /\ proc' = [proc EXCEPT ![p] = Idle]
  /\ UNCHANGED <<rec, template, occ, active, today, crashes>>

(***************************************************************************)
(* Requests that are one write, and the environment.                       *)
(***************************************************************************)
DeleteOccurrence(p) ==
  /\ proc[p].at = "idle"
  /\ \E t \in Calendar : occ[t] # None /\ occ' = [occ EXCEPT ![t] = None]
  /\ UNCHANGED <<rec, template, active, today, proc, crashes>>

AddMember(p) ==
  /\ proc[p].at = "idle"
  /\ \E u \in Members : u \notin active /\ active' = active \cup {u}
  /\ UNCHANGED <<rec, template, occ, today, proc, crashes>>

RemoveMember(p) ==
  /\ proc[p].at = "idle"
  /\ \E u \in active : active' = active \ {u}
  /\ UNCHANGED <<rec, template, occ, today, proc, crashes>>

Crash(p) ==
  /\ proc[p].at # "idle" /\ crashes < MaxCrashes
  /\ crashes' = crashes + 1
  /\ proc' = [proc EXCEPT ![p] = Idle]
  /\ UNCHANGED <<rec, template, occ, active, today>>

Midnight ==
  /\ \E t \in Calendar :
       /\ Before(today, t)
       /\ \A s \in Calendar : Before(today, s) => ~Before(s, t)
       /\ today' = t
  /\ UNCHANGED <<rec, template, occ, active, proc, crashes>>

Request(p) ==
  \/ Create(p) \/ Load(p) \/ Generate(p)
  \/ DeleteOccurrence(p) \/ AddMember(p) \/ RemoveMember(p)

Work(p) ==
  \/ Save(p) \/ Refuse(p) \/ Destroy(p) \/ Enable(p) \/ Disable(p)
  \/ Backfill(p) \/ Month(p) \/ LoopEnds(p) \/ Answer(p)

Steps ==
  \/ \E p \in Workers : Request(p)
  \/ \E p \in Processes : Work(p) \/ Crash(p)
  \/ CronFetch
  \/ Midnight

Gone(r) == r # None /\ r.status = "DELETED"

Remember ==
  LET candidates == IF Gone(rec') /\ ~Gone(rec) THEN Processes ELSE early
  IN early' = {p \in candidates : proc'[p].at # "idle"}

Next == Steps /\ Remember

(* A request that is being served goes on; the timer is daily and          *)
(* persistent, so the command is run again and again.                      *)
Spec ==
  /\ Init /\ [][Next]_allVars
  /\ \A p \in Processes : WF_vars(Work(p))
  /\ WF_vars(CronFetch)

(***************************************************************************)
(* Properties.                                                             *)
(***************************************************************************)

(* The comment on the constraint uniq_split_rec_occ: the pair of recurring *)
(* expense and occurrence date alone prevents two occurrences of a month.  *)
(* It does as long as nobody edits day_of_month.                           *)
OncePerMonth ==
  \A s, t \in Calendar :
    occ[s] # None /\ occ[t] # None /\ s[1] = t[1] => s = t

(* The docstring of _create_split_occurrence_if_missing: never an          *)
(* occurrence without shares, whoever left the group in the meantime.      *)
NoOccurrenceWithoutShares == \A t \in Calendar : occ[t] # {}

(* What a request that is alone answers about the status of the row is     *)
(* what it left in the row (the comment in enable: an expired row that is  *)
(* enabled is disabled again by the same request).                         *)
AnswersTellTheTruth ==
  \A p \in Processes :
    proc[p].at = "answered" =>
      rec.status = proc[p].copy.status /\ rec.on = proc[p].copy.on

(* When a backfill that is alone ends, every month from the start to the   *)
(* last one has its occurrence: months shorter than day_of_month and the   *)
(* first and last month of the window are not left out.                    *)
BackfillLeavesNoHole ==
  \A p \in Processes :
    LET copy == proc[p].copy IN
    proc[p].at = "answered" /\ proc[p].op \in {"cron", "save", "enable"} =>
      \A t \in Calendar :
        /\ t[1] \in copy.start[1]..proc[p].last
        /\ t[2] = Lesser(copy.day, Length[t[1]])
        /\ copy.freq = "YEARLY" => YearMonth(t[1]) = copy.dueMonth
        /\ ActiveOn(copy, t) /\ Resolves(copy)
        => occ[t] # None

(* Once a recurring expense is deleted, nothing happens to it any more but *)
(* by a request or a run of the timer that was under way at that moment:   *)
(* only such a one brings the row back (a save or an enable that had loaded*)
(* it, a backfill that finds its copy expired) or generates for it, and    *)
(* when the last of them has ended it stays deleted.                       *)
QuietAfterDeletion ==
  [][/\ Gone(rec)
     /\ rec' # rec \/ \E t \in Calendar : occ[t] = None /\ occ'[t] # None
     => \E p \in early : proc'[p] # proc[p]]_vars

(* The row as it stands asks for an occurrence on t, and the participants  *)
(* of the occurrence are members of the group.                             *)
Owed(t) ==
  /\ rec # None
  /\ Live(rec) /\ ~Expired(rec) /\ Resolves(rec)
  /\ t[1] <= LastMonth(rec)
  /\ ActiveOn(rec, t)
  /\ t[2] = Lesser(rec.day, Length[t[1]])
  /\ rec.freq = "YEARLY" => YearMonth(t[1]) = rec.dueMonth
=============================================================================
